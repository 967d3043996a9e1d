-------------------------- MODULE JumpTablesProofs --------------------------
(***************************************************************************)
(* Theorems about JumpTables, for every image: the four searches, one      *)
(* after another and section by section, find every jump through a table,  *)
(* and each has the table that its own pattern reads.                      *)
(***************************************************************************)
EXTENDS JumpTables, WellFoundedInduction, TLAPS

\* Section n as a set of jumps that pattern p has there.
JumpsIn(p, n) == {a \in Words(image.sections[n]) : image.sections[n].code /\ IsJump(p, a)}

\* What the searches have behind them.
Passed(p, n, a) ==
  \/ stage # "scan"
  \/ p < pattern
  \/ p = pattern /\ n < section
  \/ p = pattern /\ n = section /\ a < data

Switches == {Switch(p, a) : p \in DOMAIN Patterns, a \in CodeWords}

\* The cursors are where the next search begins.
CursorInv ==
  /\ image \in Images
  /\ stage \in {"scan", "write", "loaded"}
  /\ pattern \in DOMAIN Patterns
  /\ section \in DOMAIN image.sections
  /\ \E k \in Nat : data = Section.base + 4 * k

\* What was found are the jumps behind the cursors.
FoundInv ==
  /\ switches \in Seq(Switches)
  /\ \A i \in DOMAIN switches : \E p \in DOMAIN Patterns, n \in DOMAIN image.sections :
       \E a \in JumpsIn(p, n) : Passed(p, n, a) /\ switches[i] = Switch(p, a)
  /\ \A p \in DOMAIN Patterns, n \in DOMAIN image.sections : \A a \in JumpsIn(p, n) :
       Passed(p, n, a) => \E i \in DOMAIN switches : switches[i] = Switch(p, a)

Inv == CursorInv /\ FoundInv /\ FindsEveryJump

-----------------------------------------------------------------------------
(* The least element of a set of numbers, which SearchMask and LoadTables   *)
(* take.                                                                    *)

\* A set of numbers that are not below n has a least one: Min finds it.
LEMMA Least ==
  ASSUME NEW n \in Int, NEW T, T # {}, \A i \in T : i \in Int /\ i >= n
  PROVE  Min(T) \in T /\ \A j \in T : Min(T) <= j
<1> DEFINE R == OpToRel(<, Nat)
           D == {i - n : i \in T}
<1>1. D \subseteq Nat /\ D # {}
  <2>1. \A i \in T : i - n \in Nat
    OBVIOUS
  <2>2. PICK i \in T : TRUE
    OBVIOUS
  <2>3. i - n \in D
    BY <2>2
  <2>. QED
    BY <2>1, <2>3
<1>2. PICK x \in D : \A y \in D : ~(<<y, x>> \in R)
  <2>. HIDE DEF D, R
  <2>1. IsWellFoundedOn(R, Nat)
    BY NatLessThanWellFounded DEF R
  <2>. QED
    BY <1>1, <2>1, WFMin
<1>3. PICK i \in T : x = i - n
  OBVIOUS
<1>4. \A j \in T : j - n \in Nat /\ i - n \in Nat
  OBVIOUS
<1>5. \A j \in T : ~(j - n < i - n)
  BY <1>1, <1>2, <1>3, <1>4 DEF OpToRel
<1>6. \A j \in T : i <= j
  BY <1>5
<1>. QED
  BY <1>6 DEF Min

-----------------------------------------------------------------------------
(* What only depends on the image.                                          *)

LEMMA Same ==
  ASSUME image' = image
  PROVE  /\ \A p \in DOMAIN Patterns : \A a : IsJump(p, a)' <=> IsJump(p, a)
         /\ \A p \in DOMAIN Patterns : \A a : Switch(p, a)' = Switch(p, a)
         /\ CodeWords' = CodeWords
         /\ \A p \in DOMAIN Patterns : \A n : JumpsIn(p, n)' = JumpsIn(p, n)
         /\ Switches' = Switches
<1>1. \A a : Disassemble(a)' = Disassemble(a)
  BY DEF Disassemble
<1>2. \A p \in DOMAIN Patterns : \A a : Matches(Patterns[p].ids, a)' <=> Matches(Patterns[p].ids, a)
  BY <1>1 DEF Matches
<1>3. ASSUME NEW a
      PROVE  ScanTable(a)' = ScanTable(a)
  <2> DEFINE at(i) == Disassemble(a - 4 * i)
             branches == {i \in 0 .. ScanLimit - 1 : at(i).id \in {"bgt", "bgtlr", "ble", "blelr"}}
             compares == {i \in Min(branches) + 1 .. ScanLimit - 1 :
                            at(i).id = "cmplwi" /\ at(i).operands[1] = at(Min(branches)).operands[1]}
  <2>1. branches' = branches
    BY <1>1
  <2>2. compares' = compares
    BY <1>1, <2>1
  <2>3. at(Min(compares))' = at(Min(compares))
    BY <1>1, <2>2
  <2>. QED
    BY <2>1, <2>2, <2>3 DEF ScanTable
<1>4. \A a : Address(a)' = Address(a)
  BY <1>1 DEF Address, Operand
<1>5. \A a, n, i : Entry(a, n, i)' = Entry(a, n, i)
  BY DEF Entry
<1>6. \A t, a, i : Label(t, a, i)' = Label(t, a, i)
  BY <1>1, <1>4, <1>5, ZenonT(30) DEF Label, Operand
<1>7. \A p \in DOMAIN Patterns : \A a : Switch(p, a)' = Switch(p, a)
  BY <1>3, <1>6 DEF Switch, ReadTable
<1>8. \A p \in DOMAIN Patterns : \A a : IsJump(p, a)' <=> IsJump(p, a)
  BY <1>2, <1>3 DEF IsJump
<1>9. CodeWords' = CodeWords
  BY DEF CodeWords
<1>10. \A p \in DOMAIN Patterns : \A n : JumpsIn(p, n)' = JumpsIn(p, n)
  BY <1>8 DEF JumpsIn
<1>11. Switches' = Switches
  BY <1>7, <1>9 DEF Switches
<1>. QED
  BY <1>7, <1>8, <1>9, <1>10, <1>11

LEMMA ImageFacts ==
  ASSUME image \in Images
  PROVE  /\ DOMAIN image.sections = 1 .. Len(image.sections)
         /\ Len(image.sections) \in Nat \ {0}
         /\ \A n \in DOMAIN image.sections :
              /\ image.sections[n].base \in Nat \ {0}
              /\ image.sections[n].size \in Nat
              /\ image.sections[n].code \in BOOLEAN
<1>1. image.sections \in Seq([base : Nat \ {0}, size : Nat, code : BOOLEAN]) /\ image.sections # <<>>
  BY JumpTablesAssumption
<1>2. /\ DOMAIN image.sections = 1 .. Len(image.sections)
      /\ Len(image.sections) \in Nat /\ Len(image.sections) # 0
  BY <1>1
<1>3. \A n \in DOMAIN image.sections : image.sections[n] \in [base : Nat \ {0}, size : Nat, code : BOOLEAN]
  <2>1. \A S : \A s \in Seq(S) : \A n \in DOMAIN s : s[n] \in S
    OBVIOUS
  <2>. QED
    BY <1>1, <2>1
<1>. QED
  BY <1>2, <1>3

\* No two patterns are at one address: the third and the fourth instruction
\* tell them apart.
LEMMA OnePattern ==
  ASSUME NEW p \in DOMAIN Patterns, NEW q \in DOMAIN Patterns, NEW a, IsJump(p, a), IsJump(q, a)
  PROVE  p = q
<1> DEFINE word(c) == Disassemble(a + 4 * (c - 1)).id
<1>1. DOMAIN Patterns = 1 .. 4
  BY DEF Patterns
<1>2. \A r \in 1 .. 4 : 3 \in DOMAIN Patterns[r].ids /\ 4 \in DOMAIN Patterns[r].ids
  BY DEF Patterns
<1>3. /\ word(3) = Patterns[p].ids[3] /\ word(3) = Patterns[q].ids[3]
      /\ word(4) = Patterns[p].ids[4] /\ word(4) = Patterns[q].ids[4]
  BY <1>1, <1>2 DEF IsJump, Matches
<1>4. <<Patterns[1].ids[3], Patterns[1].ids[4]>> = <<"rlwinm", "lwzx">>
  BY DEF Patterns
<1>5. <<Patterns[2].ids[3], Patterns[2].ids[4]>> = <<"lbzx", "rlwinm">>
  BY DEF Patterns
<1>6. <<Patterns[3].ids[3], Patterns[3].ids[4]>> = <<"lbzx", "lis">>
  BY DEF Patterns
<1>7. <<Patterns[4].ids[3], Patterns[4].ids[4]>> = <<"rlwinm", "lhzx">>
  BY DEF Patterns
<1>8. p \in {1, 2, 3, 4} /\ q \in {1, 2, 3, 4}
  BY <1>1
<1>. QED
  BY <1>3, <1>4, <1>5, <1>6, <1>7, <1>8

\* The table of a jump is listed at its address.
LEMMA SwitchBase ==
  ASSUME NEW p, NEW a, IsJump(p, a)
  PROVE  Switch(p, a).base = a
<1>1. ScanTable(a).base = a
  BY DEF IsJump, ScanTable, None
<1>. QED
  BY <1>1 DEF Switch, ReadTable

\* SearchMask finds the first match, if there is one.
LEMMA SearchFacts ==
  ASSUME NEW from \in Nat \ {0}, NEW to \in Int, NEW ids
  PROVE  /\ SearchMask(from, to, ids) = None =>
              \A a \in from .. to - 4 : (a - from) % 4 = 0 => ~Matches(ids, a)
         /\ SearchMask(from, to, ids) # None =>
              LET m == SearchMask(from, to, ids)
              IN  /\ m \in from .. to - 4
                  /\ (m - from) % 4 = 0
                  /\ Matches(ids, m)
                  /\ \A a \in from .. to - 4 : (a - from) % 4 = 0 /\ Matches(ids, a) => m <= a
<1> DEFINE found == {a \in from .. to - 4 : (a - from) % 4 = 0 /\ Matches(ids, a)}
<1>1. CASE found = {}
  <2>1. SearchMask(from, to, ids) = None
    BY <1>1 DEF SearchMask
  <2>. QED
    BY <1>1, <2>1
<1>2. CASE found # {}
  <2>1. SearchMask(from, to, ids) = Min(found)
    BY <1>2 DEF SearchMask
  <2>2. Min(found) \in found /\ \A j \in found : Min(found) <= j
    <3>1. from \in Int /\ \A i \in found : i \in Int /\ i >= from
      OBVIOUS
    <3>. HIDE DEF found
    <3>. QED
      BY <1>2, <3>1, Least
  <2>3. Min(found) # None
    BY <2>2 DEF None
  <2>. QED
    BY <2>1, <2>2, <2>3
<1>. QED
  BY <1>1, <1>2

-----------------------------------------------------------------------------
(* The steps.                                                               *)

LEMMA InitInv == Init => Inv
<1> SUFFICES ASSUME Init PROVE Inv
  OBVIOUS
<1>1. DOMAIN Patterns = 1 .. 4
  BY DEF Patterns
<1>2. image \in Images /\ stage = "scan" /\ pattern = 1 /\ section = 1 /\ data = image.sections[1].base /\ switches = <<>>
  BY DEF Init
<1>3. /\ DOMAIN image.sections = 1 .. Len(image.sections)
      /\ Len(image.sections) \in Nat \ {0}
      /\ \A n \in DOMAIN image.sections : image.sections[n].base \in Nat \ {0}
  BY <1>2, ImageFacts
<1>4. data = Section.base + 4 * 0
  BY <1>2, <1>3 DEF Section
<1>5. CursorInv
  BY <1>1, <1>2, <1>3, <1>4 DEF CursorInv
<1>6. ASSUME NEW p \in DOMAIN Patterns, NEW n \in DOMAIN image.sections, NEW a \in JumpsIn(p, n), Passed(p, n, a)
      PROVE  FALSE
  <2>1. a \in Words(image.sections[n]) /\ image.sections[n].base \in Nat /\ image.sections[n].size \in Nat
    BY <1>2, ImageFacts DEF JumpsIn
  <2>2. a \in Int /\ a >= image.sections[n].base
    BY <2>1 DEF Words
  <2>3. p \in Nat /\ n \in Nat /\ p >= 1 /\ n >= 1
    BY <1>1, <1>3
  <2>4. p = pattern /\ n = section /\ a < data
    BY <1>2, <1>6, <2>3 DEF Passed
  <2>. QED
    BY <1>2, <2>1, <2>2, <2>4
<1>7. FoundInv
  BY <1>2, <1>6 DEF FoundInv
<1>. QED
  BY <1>2, <1>5, <1>7 DEF Inv, FindsEveryJump

\* The words of a section from the cursor on.
LEMMA Ahead ==
  ASSUME CursorInv, NEW a \in Words(Section), a >= data
  PROVE  /\ a \in data .. Section.base + 4 * Section.size - 4
         /\ (a - data) % 4 = 0
         /\ data \in Nat \ {0}
<1>1. Section.base \in Nat \ {0} /\ Section.size \in Nat
  BY ImageFacts DEF CursorInv, Section
<1>2. PICK k \in Nat : data = Section.base + 4 * k
  BY DEF CursorInv
<1>3. PICK j \in 0 .. Section.size - 1 : a = Section.base + 4 * j
  BY DEF Words
<1>4. j \in Int /\ 4 * j <= 4 * Section.size - 4
  BY <1>1, <1>3
<1>5. a - data = 4 * (j - k)
  BY <1>1, <1>2, <1>3
<1>6. (a - data) % 4 = 0
  <2>1. \A x \in Int : (4 * x) % 4 = 0
    OBVIOUS
  <2>2. j - k \in Int
    BY <1>2, <1>4
  <2>. QED
    BY <1>5, <2>1, <2>2
<1>7. data \in Nat \ {0} /\ a \in Int
  BY <1>1, <1>2, <1>3, <1>4
<1>8. a <= Section.base + 4 * Section.size - 4
  BY <1>1, <1>3, <1>4
<1>. QED
  BY <1>1, <1>6, <1>7, <1>8

LEMMA CursorFacts ==
  ASSUME CursorInv
  PROVE  /\ Section.base \in Nat \ {0} /\ Section.size \in Nat /\ Section.code \in BOOLEAN
         /\ data \in Nat \ {0}
         /\ DOMAIN image.sections = 1 .. Len(image.sections) /\ Len(image.sections) \in Nat \ {0}
         /\ section \in 1 .. Len(image.sections)
         /\ pattern \in 1 .. 4 /\ DOMAIN Patterns = 1 .. 4 /\ Len(Patterns) = 4
<1>1. Section.base \in Nat \ {0} /\ Section.size \in Nat /\ Section.code \in BOOLEAN
  BY ImageFacts DEF CursorInv, Section
<1>2. PICK k \in Nat : data = Section.base + 4 * k
  BY DEF CursorInv
<1>3. DOMAIN Patterns = 1 .. 4 /\ Len(Patterns) = 4
  BY DEF Patterns
<1>4. /\ DOMAIN image.sections = 1 .. Len(image.sections) /\ Len(image.sections) \in Nat \ {0}
      /\ section \in 1 .. Len(image.sections) /\ pattern \in DOMAIN Patterns
  BY ImageFacts DEF CursorInv
<1>5. data \in Nat \ {0}
  BY <1>1, <1>2
<1>. QED
  BY <1>1, <1>3, <1>4, <1>5

\* A match: of the jumps in the section it is the one that is passed next.
LEMMA MatchPasses ==
  ASSUME CursorInv, stage = "scan", Found # None
  PROVE  /\ Section.code
         /\ Found \in Words(Section) /\ Found >= data
         /\ Matches(Patterns[pattern].ids, Found)
         /\ \A a \in JumpsIn(pattern, section) : a < Found + 4 <=> a < data \/ a = Found
<1> DEFINE end == Section.base + 4 * Section.size
           ids == Patterns[pattern].ids
<1>1. Section.code /\ Found = SearchMask(data, end, ids)
  BY DEF Found
<1>2. data \in Nat \ {0} /\ Section.base \in Nat \ {0} /\ Section.size \in Nat /\ end \in Int
  BY CursorFacts
<1>3. /\ Found \in data .. end - 4
      /\ (Found - data) % 4 = 0
      /\ Matches(ids, Found)
      /\ \A a \in data .. end - 4 : (a - data) % 4 = 0 /\ Matches(ids, a) => Found <= a
  <2>. HIDE DEF end, ids
  <2>. QED
    BY <1>1, <1>2, SearchFacts
<1>4. PICK k \in Nat : data = Section.base + 4 * k
  BY DEF CursorInv
<1>5. PICK j \in Nat : Found - data = 4 * j
  <2>1. \A x \in Nat : x % 4 = 0 => x \div 4 \in Nat /\ x = 4 * (x \div 4)
    OBVIOUS
  <2>2. Found - data \in Nat
    BY <1>2, <1>3
  <2>. QED
    BY <1>3, <2>1, <2>2
<1>6. Found \in Words(Section)
  <2>1. Found = Section.base + 4 * (k + j) /\ 4 * (k + j) <= 4 * Section.size - 4
    <3>1. Found \in Int /\ Found <= end - 4
      BY <1>2, <1>3
    <3>2. Found = Section.base + 4 * (k + j)
      BY <1>2, <1>4, <1>5, <3>1
    <3>. QED
      BY <1>2, <3>1, <3>2
  <2>2. k + j \in 0 .. Section.size - 1
    BY <1>2, <2>1
  <2>. QED
    BY <2>1, <2>2 DEF Words
<1>7. ASSUME NEW a \in JumpsIn(pattern, section)
      PROVE  a < Found + 4 <=> a < data \/ a = Found
  <2>1. a \in Words(Section) /\ IsJump(pattern, a)
    BY DEF JumpsIn, Section
  <2>2. PICK i \in 0 .. Section.size - 1 : a = Section.base + 4 * i
    BY <2>1 DEF Words
  <2>3. a \in Int /\ Found \in Int
    BY <1>2, <1>3, <2>2
  <2>4. a >= data => Found <= a
    <3>1. ASSUME a >= data PROVE a \in data .. end - 4 /\ (a - data) % 4 = 0
      BY <1>2, <2>1, <3>1, Ahead
    <3>. QED
      BY <1>3, <2>1, <3>1 DEF IsJump
  <2>5. a < Found + 4 /\ Found <= a => a = Found
    <3>1. Found = Section.base + 4 * (k + j)
      BY <1>2, <1>3, <1>4, <1>5
    <3>. QED
      BY <1>2, <2>2, <2>3, <3>1
  <2>6. data <= Found
    BY <1>2, <1>3
  <2>. QED
    BY <1>2, <2>3, <2>4, <2>5, <2>6
<1>. QED
  BY <1>1, <1>2, <1>3, <1>6, <1>7

\* No match: every jump in the section is passed.
LEMMA NoMatchPasses ==
  ASSUME CursorInv, stage = "scan", Found = None
  PROVE  \A a \in JumpsIn(pattern, section) : a \in Int /\ a < data
<1> DEFINE end == Section.base + 4 * Section.size
           ids == Patterns[pattern].ids
<1>1. data \in Nat \ {0} /\ Section.base \in Nat \ {0} /\ Section.size \in Nat /\ end \in Int
  BY CursorFacts
<1> SUFFICES ASSUME NEW a \in JumpsIn(pattern, section) PROVE a \in Int /\ a < data
  OBVIOUS
<1>2. a \in Words(Section) /\ Section.code /\ Matches(ids, a)
  BY DEF JumpsIn, Section, IsJump
<1>3. a \in Int
  BY <1>1, <1>2 DEF Words
<1>4. SearchMask(data, end, ids) = None
  BY <1>2 DEF Found
<1>5. ~(a >= data)
  <2> SUFFICES ASSUME a >= data PROVE FALSE
    OBVIOUS
  <2>1. a \in data .. end - 4 /\ (a - data) % 4 = 0
    <3>1. a \in Words(Section) /\ a >= data
      BY <1>2
    <3>. QED
      BY <1>1, <3>1, Ahead
  <2>. HIDE DEF end, ids
  <2>2. ~Matches(ids, a)
    BY <1>1, <1>4, <2>1, SearchFacts
  <2>. QED
    BY <1>2, <2>2
<1>. QED
  BY <1>1, <1>3, <1>5

\* What FoundInv says of the next state, if nothing is found.
LEMMA NothingFound ==
  ASSUME Inv, image' = image, switches' = switches,
         \A p \in DOMAIN Patterns, n \in DOMAIN image.sections : \A a \in JumpsIn(p, n) :
           Passed(p, n, a)' <=> Passed(p, n, a)
  PROVE  FoundInv'
<1>1. switches' \in Seq(Switches')
  BY Same DEF Inv, FoundInv
<1>2. ASSUME NEW i \in DOMAIN switches'
      PROVE  \E p \in DOMAIN Patterns, n \in DOMAIN image'.sections :
               \E a \in JumpsIn(p, n)' : Passed(p, n, a)' /\ switches'[i] = Switch(p, a)'
  <2>1. PICK p \in DOMAIN Patterns, n \in DOMAIN image.sections :
           \E a \in JumpsIn(p, n) : Passed(p, n, a) /\ switches[i] = Switch(p, a)
    BY DEF Inv, FoundInv
  <2>2. PICK a \in JumpsIn(p, n) : Passed(p, n, a) /\ switches[i] = Switch(p, a)
    BY <2>1
  <2>3. a \in JumpsIn(p, n)' /\ Passed(p, n, a)' /\ switches'[i] = Switch(p, a)'
    BY <2>2, Same
  <2>. QED
    BY <2>3
<1>3. ASSUME NEW p \in DOMAIN Patterns, NEW n \in DOMAIN image'.sections, NEW a \in JumpsIn(p, n)', Passed(p, n, a)'
      PROVE  \E i \in DOMAIN switches' : switches'[i] = Switch(p, a)'
  <2>1. n \in DOMAIN image.sections /\ a \in JumpsIn(p, n)
    BY <1>3, Same
  <2>2. Passed(p, n, a)
    BY <1>3, <2>1
  <2>3. \E i \in DOMAIN switches : switches[i] = Switch(p, a)
    BY <2>1, <2>2 DEF Inv, FoundInv
  <2>. QED
    BY <2>3, Same
<1>. QED
  BY <1>1, <1>2, <1>3 DEF FoundInv

LEMMA MatchInv == Inv /\ ScanMatch => Inv'
<1> SUFFICES ASSUME Inv, ScanMatch PROVE Inv'
  OBVIOUS
<1>1. /\ stage = "scan" /\ stage' = stage /\ image' = image /\ pattern' = pattern
      /\ section' = section /\ config' = config
  BY DEF ScanMatch
<1>2. /\ Found # None
      /\ data' = Found + 4
      /\ switches' = IF ScanTable(Found).base = None THEN switches ELSE Append(switches, Switch(pattern, Found))
  BY DEF ScanMatch, Switch
<1>3. CursorInv /\ FoundInv
  BY DEF Inv
<1>4. /\ Section.code
      /\ Found \in Words(Section) /\ Found >= data
      /\ Matches(Patterns[pattern].ids, Found)
      /\ \A a \in JumpsIn(pattern, section) : a < Found + 4 <=> a < data \/ a = Found
  BY <1>1, <1>2, <1>3, MatchPasses
<1>5. CursorInv'
  <2>1. PICK k \in 0 .. Section.size - 1 : Found = Section.base + 4 * k
    BY <1>4 DEF Words
  <2>2. Section.base \in Nat /\ Section.size \in Nat
    BY <1>3, CursorFacts
  <2>3. k + 1 \in Nat /\ data' = Section.base + 4 * (k + 1)
    BY <1>2, <2>1, <2>2
  <2>4. Section' = Section
    BY <1>1 DEF Section
  <2>5. \E j \in Nat : data' = Section'.base + 4 * j
    BY <2>3, <2>4
  <2>. QED
    BY <1>1, <1>3, <2>5 DEF CursorInv
<1>6. \A p \in DOMAIN Patterns, n \in DOMAIN image.sections : \A a \in JumpsIn(p, n) :
        Passed(p, n, a)' <=> Passed(p, n, a) \/ (p = pattern /\ n = section /\ a = Found)
  BY <1>1, <1>2, <1>4 DEF Passed
<1>7. FoundInv'
  <2>1. CASE ScanTable(Found).base = None
    <3>1. Found \notin JumpsIn(pattern, section)
      BY <2>1 DEF JumpsIn, IsJump
    <3>2. \A p \in DOMAIN Patterns, n \in DOMAIN image.sections : \A a \in JumpsIn(p, n) :
            Passed(p, n, a)' <=> Passed(p, n, a)
      BY <1>6, <3>1
    <3>. QED
      BY <1>1, <1>2, <2>1, <3>2, NothingFound
  <2>2. CASE ScanTable(Found).base # None
    <3>1. PICK q, m, f : q = pattern /\ m = section /\ f = Found
      OBVIOUS
    <3> DEFINE new == Switch(q, f)
    <3>2. q \in DOMAIN Patterns /\ m \in DOMAIN image.sections
      BY <1>3, <3>1 DEF CursorInv
    <3>3. f \in JumpsIn(q, m)
      BY <1>4, <2>2, <3>1 DEF JumpsIn, IsJump, Section
    <3>4. new \in Switches
      BY <1>4, <3>1, <3>2 DEF Switches, CodeWords, Section
    <3>5. switches \in Seq(Switches) /\ switches' = Append(switches, new)
      BY <1>2, <1>3, <2>2, <3>1 DEF FoundInv
    <3>6. new = Switch(q, f)'
      BY <1>1, <3>2, Same
    <3>7. Passed(q, m, f)'
      BY <1>6, <3>1, <3>2, <3>3
    <3>8. \A p \in DOMAIN Patterns, n \in DOMAIN image.sections : \A a \in JumpsIn(p, n) :
             Passed(p, n, a)' <=> Passed(p, n, a) \/ (p = q /\ n = m /\ a = f)
      BY <1>6, <3>1
    <3>. HIDE DEF new
    <3>9. /\ switches' \in Seq(Switches)
          /\ DOMAIN switches' = DOMAIN switches \cup {Len(switches) + 1}
          /\ Len(switches) + 1 \notin DOMAIN switches
          /\ switches'[Len(switches) + 1] = new
          /\ \A i \in DOMAIN switches : switches'[i] = switches[i]
      BY <3>4, <3>5
    <3>10. switches' \in Seq(Switches')
      BY <1>1, <3>9, Same
    <3>11. ASSUME NEW i \in DOMAIN switches'
          PROVE  \E p \in DOMAIN Patterns, n \in DOMAIN image'.sections :
                   \E a \in JumpsIn(p, n)' : Passed(p, n, a)' /\ switches'[i] = Switch(p, a)'
      <4>1. CASE i \in DOMAIN switches
        <5>1. PICK p \in DOMAIN Patterns, n \in DOMAIN image.sections :
                 \E a \in JumpsIn(p, n) : Passed(p, n, a) /\ switches[i] = Switch(p, a)
          BY <1>3, <4>1 DEF FoundInv
        <5>2. PICK a \in JumpsIn(p, n) : Passed(p, n, a) /\ switches[i] = Switch(p, a)
          BY <5>1
        <5>3. a \in JumpsIn(p, n)' /\ Passed(p, n, a)' /\ switches'[i] = Switch(p, a)'
          BY <1>1, <3>8, <3>9, <4>1, <5>2, Same
        <5>. QED
          BY <1>1, <5>3
      <4>2. CASE i = Len(switches) + 1
        <5>1. f \in JumpsIn(q, m)' /\ Passed(q, m, f)' /\ switches'[i] = Switch(q, f)'
          BY <1>1, <3>2, <3>3, <3>6, <3>7, <3>9, <4>2, Same
        <5>. QED
          BY <1>1, <3>2, <5>1
      <4>. QED
        BY <3>9, <4>1, <4>2
    <3>12. ASSUME NEW p \in DOMAIN Patterns, NEW n \in DOMAIN image'.sections, NEW a \in JumpsIn(p, n)', Passed(p, n, a)'
          PROVE  \E i \in DOMAIN switches' : switches'[i] = Switch(p, a)'
      <4>1. n \in DOMAIN image.sections /\ a \in JumpsIn(p, n)
        BY <1>1, <3>12, Same
      <4>2. CASE Passed(p, n, a)
        <5>1. PICK i \in DOMAIN switches : switches[i] = Switch(p, a)
          BY <1>3, <4>1, <4>2 DEF FoundInv
        <5>2. i \in DOMAIN switches' /\ switches'[i] = Switch(p, a)'
          BY <1>1, <3>9, <5>1, Same
        <5>. QED
          BY <5>2
      <4>3. CASE p = q /\ a = f
        BY <3>6, <3>9, <4>3
      <4>. QED
        BY <3>8, <3>12, <4>1, <4>2, <4>3
    <3>. QED
      BY <3>10, <3>11, <3>12 DEF FoundInv
  <2>. QED
    BY <2>1, <2>2
<1>. QED
  BY <1>1, <1>5, <1>7 DEF Inv, FindsEveryJump

LEMMA SectionInv == Inv /\ ScanSection => Inv'
<1> SUFFICES ASSUME Inv, ScanSection PROVE Inv'
  OBVIOUS
<1>1. /\ stage = "scan" /\ image' = image /\ switches' = switches /\ config' = config
      /\ Found = None
  BY DEF ScanSection
<1>2. CursorInv /\ FoundInv
  BY DEF Inv
<1>3. \A a \in JumpsIn(pattern, section) : a \in Int /\ a < data
  BY <1>1, <1>2, NoMatchPasses
<1>4. /\ DOMAIN image.sections = 1 .. Len(image.sections) /\ Len(image.sections) \in Nat \ {0}
      /\ section \in 1 .. Len(image.sections)
      /\ pattern \in 1 .. 4 /\ DOMAIN Patterns = 1 .. 4 /\ Len(Patterns) = 4
  BY <1>2, CursorFacts
<1>5. \A n \in DOMAIN image.sections : image.sections[n].base \in Nat \ {0} /\ image.sections[n].size \in Nat
  BY <1>2, ImageFacts DEF CursorInv
<1>6. \A p, n : \A a \in JumpsIn(p, n) : n \in DOMAIN image.sections => a \in Int /\ a >= image.sections[n].base
  BY <1>5 DEF JumpsIn, Words
<1>7. CASE section < Len(image.sections)
  <2>1. /\ section' = section + 1 /\ data' = image.sections[section + 1].base
        /\ stage' = stage /\ pattern' = pattern
    BY <1>7 DEF ScanSection
  <2>2. section + 1 \in DOMAIN image.sections
    BY <1>4, <1>7
  <2>3. data' = Section'.base + 4 * 0
    BY <1>1, <1>5, <2>1, <2>2 DEF Section
  <2>4. CursorInv'
    BY <1>1, <1>2, <2>1, <2>2, <2>3 DEF CursorInv
  <2>5. ASSUME NEW p \in DOMAIN Patterns, NEW n \in DOMAIN image.sections, NEW a \in JumpsIn(p, n)
        PROVE  Passed(p, n, a)' <=> Passed(p, n, a)
    <3>1. a \in Int /\ a >= image.sections[n].base /\ image.sections[n].base \in Nat
      BY <1>5, <1>6
    <3>2. n = section + 1 => ~(a < data')
      BY <2>1, <3>1
    <3>3. p = pattern /\ n = section => a < data
      BY <1>3
    <3>4. n \in Int /\ section \in Int
      BY <1>4
    <3>5. n < section + 1 <=> n < section \/ n = section
      BY <3>4
    <3>. QED
      BY <1>1, <2>1, <3>2, <3>3, <3>4, <3>5 DEF Passed
  <2>. QED
    BY <1>1, <2>1, <2>4, <2>5, NothingFound DEF Inv, FindsEveryJump
<1>8. CASE section = Len(image.sections) /\ pattern < Len(Patterns)
  <2>1. /\ pattern' = pattern + 1 /\ section' = 1 /\ data' = image.sections[1].base /\ stage' = stage
    BY <1>4, <1>8 DEF ScanSection
  <2>2. 1 \in DOMAIN image.sections /\ pattern + 1 \in DOMAIN Patterns
    BY <1>4, <1>8
  <2>3. data' = Section'.base + 4 * 0
    BY <1>1, <1>5, <2>1, <2>2 DEF Section
  <2>4. CursorInv'
    BY <1>1, <1>2, <2>1, <2>2, <2>3 DEF CursorInv
  <2>5. ASSUME NEW p \in DOMAIN Patterns, NEW n \in DOMAIN image.sections, NEW a \in JumpsIn(p, n)
        PROVE  Passed(p, n, a)' <=> Passed(p, n, a)
    <3>1. a \in Int /\ a >= image.sections[n].base /\ image.sections[n].base \in Nat
      BY <1>5, <1>6
    <3>2. n = 1 => ~(a < data')
      BY <2>1, <3>1
    <3>3. p = pattern /\ n = section => a < data
      BY <1>3
    <3>4. n \in Int /\ section \in Int /\ p \in Int /\ pattern \in Int /\ ~(n < 1) /\ (n < section \/ n = section)
      BY <1>4, <1>8
    <3>5. p < pattern + 1 <=> p < pattern \/ p = pattern
      BY <3>4
    <3>. QED
      BY <1>1, <2>1, <3>2, <3>3, <3>4, <3>5 DEF Passed
  <2>. QED
    BY <1>1, <2>1, <2>4, <2>5, NothingFound DEF Inv, FindsEveryJump
<1>9. CASE section = Len(image.sections) /\ pattern = Len(Patterns)
  <2>1. stage' = "write" /\ pattern' = pattern /\ section' = section /\ data' = data
    BY <1>4, <1>9 DEF ScanSection
  <2>2. CursorInv'
    <3>1. Section' = Section
      BY <1>1, <2>1 DEF Section
    <3>. QED
      BY <1>1, <1>2, <2>1, <3>1 DEF CursorInv
  <2>3. ASSUME NEW p \in DOMAIN Patterns, NEW n \in DOMAIN image.sections, NEW a \in JumpsIn(p, n)
        PROVE  Passed(p, n, a)' <=> Passed(p, n, a)
    <3>1. p = pattern /\ n = section => a < data
      BY <1>3
    <3>2. (p < pattern \/ p = pattern) /\ (n < section \/ n = section)
      BY <1>4, <1>9
    <3>. QED
      BY <1>1, <2>1, <3>1, <3>2 DEF Passed
  <2>. QED
    BY <1>1, <2>1, <2>2, <2>3, NothingFound DEF Inv, FindsEveryJump
<1>. QED
  BY <1>4, <1>7, <1>8, <1>9

LEMMA LoadInv == Inv /\ LoadTables => Inv'
<1> SUFFICES ASSUME Inv, LoadTables PROVE Inv'
  OBVIOUS
<1> DEFINE jumps == {a \in CodeWords : \E p \in DOMAIN Patterns : IsJump(p, a)}
           listed(b) == {i \in DOMAIN switches : switches[i].base = b}
<1>1. /\ stage = "write" /\ stage' = "loaded" /\ image' = image /\ pattern' = pattern
      /\ section' = section /\ data' = data /\ switches' = switches
  BY DEF LoadTables
<1>2. /\ DOMAIN config' = {switches[i].base : i \in DOMAIN switches}
      /\ \A b \in DOMAIN config' : config'[b] = [r |-> switches[Min(listed(b))].r, labels |-> switches[Min(listed(b))].labels]
  BY DEF LoadTables
<1>3. CursorInv /\ FoundInv
  BY DEF Inv
<1>4. CursorInv'
  <2>1. Section' = Section
    BY <1>1 DEF Section
  <2>. QED
    BY <1>1, <1>3, <2>1 DEF CursorInv
<1>5. \A p, n, a : Passed(p, n, a) /\ Passed(p, n, a)'
  BY <1>1 DEF Passed
<1>6. FoundInv'
  BY <1>1, <1>5, NothingFound
<1>7. ASSUME NEW i \in DOMAIN switches
      PROVE  \E p \in DOMAIN Patterns : \E a \in CodeWords :
               IsJump(p, a) /\ switches[i] = Switch(p, a) /\ switches[i].base = a
  <2>1. PICK p \in DOMAIN Patterns, n \in DOMAIN image.sections :
           \E a \in JumpsIn(p, n) : switches[i] = Switch(p, a)
    BY <1>3 DEF FoundInv
  <2>2. PICK a \in JumpsIn(p, n) : switches[i] = Switch(p, a)
    BY <2>1
  <2>3. a \in CodeWords /\ IsJump(p, a)
    BY DEF JumpsIn, CodeWords
  <2>4. switches[i].base = a
    BY <2>2, <2>3, SwitchBase
  <2>. QED
    BY <2>2, <2>3, <2>4
<1>8. DOMAIN config' = jumps
  <2>1. ASSUME NEW a \in jumps
        PROVE  a \in DOMAIN config'
    <3>1. PICK p \in DOMAIN Patterns : a \in CodeWords /\ IsJump(p, a)
      OBVIOUS
    <3>2. PICK n \in DOMAIN image.sections : image.sections[n].code /\ a \in Words(image.sections[n])
      BY <3>1 DEF CodeWords
    <3>3. a \in JumpsIn(p, n)
      BY <3>1, <3>2 DEF JumpsIn
    <3>4. PICK i \in DOMAIN switches : switches[i] = Switch(p, a)
      BY <1>3, <1>5, <3>3 DEF FoundInv
    <3>5. switches[i].base = a
      BY <3>1, <3>4, SwitchBase
    <3>. QED
      BY <1>2, <3>5
  <2>2. ASSUME NEW a \in DOMAIN config'
        PROVE  a \in jumps
    <3>1. PICK i \in DOMAIN switches : a = switches[i].base
      BY <1>2
    <3>. QED
      BY <1>7, <3>1
  <2>. QED
    BY <2>1, <2>2
<1>9. ASSUME NEW a \in DOMAIN config', NEW p \in DOMAIN Patterns, IsJump(p, a)
      PROVE  config'[a] = [r |-> Switch(p, a).r, labels |-> Switch(p, a).labels]
  <2>1. listed(a) # {}
    BY <1>2
  <2>2. \A i \in listed(a) : i \in Int /\ i >= 1
    BY <1>3 DEF FoundInv
  <2>3. Min(listed(a)) \in listed(a)
    <3>. HIDE DEF listed
    <3>. QED
      BY <2>1, <2>2, Least
  <2>4. PICK i : i = Min(listed(a))
    OBVIOUS
  <2>5. i \in DOMAIN switches /\ switches[i].base = a
    BY <2>3, <2>4
  <2>6. PICK q \in DOMAIN Patterns : IsJump(q, a) /\ switches[i] = Switch(q, a)
    BY <1>7, <2>5
  <2>7. q = p
    BY <1>9, <2>6, OnePattern
  <2>. QED
    BY <1>2, <2>4, <2>6, <2>7
<1>10. FindsEveryJump'
  <2>1. CodeWords' = CodeWords
    BY <1>1, Same
  <2>2. DOMAIN config' = {a \in CodeWords' : \E p \in DOMAIN Patterns : IsJump(p, a)'}
    BY <1>1, <1>8, <2>1, Same
  <2>3. \A a \in DOMAIN config' : \A p \in DOMAIN Patterns :
          IsJump(p, a)' => config'[a] = [r |-> Switch(p, a)'.r, labels |-> Switch(p, a)'.labels]
    <3> SUFFICES ASSUME NEW a \in DOMAIN config', NEW p \in DOMAIN Patterns, IsJump(p, a)'
                 PROVE  config'[a] = [r |-> Switch(p, a)'.r, labels |-> Switch(p, a)'.labels]
      OBVIOUS
    <3>1. IsJump(p, a) /\ Switch(p, a)' = Switch(p, a)
      BY <1>1, Same
    <3>. QED
      BY <1>9, <3>1
  <2>. QED
    BY <2>2, <2>3 DEF FindsEveryJump
<1>. QED
  BY <1>4, <1>6, <1>10 DEF Inv

-----------------------------------------------------------------------------
\* For every image: what is loaded when the scan is over are the jumps in its
\* code, each at its address with the index register and the labels that its
\* own pattern reads. The searches miss no jump, take nothing else for one,
\* and do not give one jump the table of another.
THEOREM EveryJumpIsFound == Spec => []FindsEveryJump
<1>1. Init => Inv
  BY InitInv
<1>2. Inv /\ [Next]_vars => Inv'
  <2> SUFFICES ASSUME Inv, [Next]_vars PROVE Inv'
    OBVIOUS
  <2>1. CASE ScanMatch
    BY <2>1, MatchInv
  <2>2. CASE ScanSection
    BY <2>2, SectionInv
  <2>3. CASE LoadTables
    BY <2>3, LoadInv
  <2>4. CASE UNCHANGED vars
    <3>1. /\ image' = image /\ stage' = stage /\ pattern' = pattern /\ section' = section
          /\ data' = data /\ switches' = switches /\ config' = config
      BY <2>4 DEF vars
    <3>2. CursorInv'
      <4>1. Section' = Section
        BY <3>1 DEF Section
      <4>. QED
        BY <3>1, <4>1 DEF Inv, CursorInv
    <3>3. \A p, n, a : Passed(p, n, a)' <=> Passed(p, n, a)
      BY <3>1 DEF Passed
    <3>4. FoundInv'
      BY <3>1, <3>3, NothingFound
    <3>5. FindsEveryJump'
      <4>1. /\ \A p \in DOMAIN Patterns : \A a : IsJump(p, a)' <=> IsJump(p, a)
            /\ \A p \in DOMAIN Patterns : \A a : Switch(p, a)' = Switch(p, a)
            /\ CodeWords' = CodeWords
        BY <3>1, Same
      <4>. QED
        BY <3>1, <4>1 DEF Inv, FindsEveryJump
    <3>. QED
      BY <3>2, <3>4, <3>5 DEF Inv
  <2>. QED
    BY <2>1, <2>2, <2>3, <2>4 DEF Next
<1>3. Inv => FindsEveryJump
  BY DEF Inv
<1>. QED
  BY <1>1, <1>2, <1>3, PTL DEF Spec
=============================================================================
