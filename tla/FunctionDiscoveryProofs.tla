---------------------- MODULE FunctionDiscoveryProofs ----------------------
(***************************************************************************)
(* Theorems about FunctionDiscovery, for every image and every table of    *)
(* boundaries: no code is lost, no function is defined twice, boundaries   *)
(* that are given are kept, and calls find a symbol.                       *)
(***************************************************************************)
EXTENDS FunctionDiscovery, FunctionTheorems, FiniteSetTheorems,
        WellFoundedInduction, TLAPS

-----------------------------------------------------------------------------
(* Lookup.                                                                 *)

LEMMA Maximum ==
  ASSUME NEW n \in Nat, NEW T \in SUBSET (1 .. n), T # {}
  PROVE  \E i \in T : \A j \in T : j <= i
<1> DEFINE R == OpToRel(<, Nat)
           D == {n - i : i \in T}
<1>1. D \subseteq Nat /\ D # {}
  <2>1. \A i \in 1 .. n : n - i \in Nat
    OBVIOUS
  <2>2. PICK i \in T : TRUE
    OBVIOUS
  <2>3. n - i \in D
    BY <2>2
  <2>. QED
    BY <2>1, <2>3
<1>2. PICK x \in D : \A y \in D : ~(<<y, x>> \in R)
  <2>. HIDE DEF D, R
  <2>1. IsWellFoundedOn(R, Nat)
    BY NatLessThanWellFounded DEF R
  <2>. QED
    BY <1>1, <2>1, WFMin
<1>3. PICK i \in T : x = n - i
  OBVIOUS
<1>4. \A j \in T : ~(n - j < n - i)
  BY <1>1, <1>2, <1>3 DEF OpToRel
<1>. QED
  BY <1>4

LEMMA FoundType ==
  ASSUME symbols \in Seq(Extent), NEW address, Known(address)
  PROVE  \E i \in DOMAIN symbols :
           Found(address) = symbols[i] /\ symbols[i].base = address /\ symbols[i].size > 0
<1>1. Candidates(address) \in SUBSET (1 .. Len(symbols)) /\ Len(symbols) \in Nat
  BY DEF Candidates
<1>2. \E i \in Candidates(address) : \A j \in Candidates(address) : j <= i
  BY <1>1, Maximum DEF Known
<1>. QED
  BY <1>2 DEF Found, Candidates

LEMMA AppendFacts ==
  ASSUME NEW X, NEW s \in Seq(X), NEW x \in X
  PROVE  /\ Append(s, x) \in Seq(X)
         /\ DOMAIN Append(s, x) = DOMAIN s \cup {Len(s) + 1}
         /\ Len(s) + 1 \notin DOMAIN s
         /\ Append(s, x)[Len(s) + 1] = x
         /\ \A i \in DOMAIN s : Append(s, x)[i] = s[i]
OBVIOUS

-----------------------------------------------------------------------------
(* Sorting.                                                                *)

LEMMA FiniteDomain ==
  ASSUME NEW s \in Seq(Extent)
  PROVE  IsFiniteSet(DOMAIN s) /\ Cardinality(DOMAIN s) = Len(s)
<1>1. DOMAIN s = 1 .. Len(s) /\ Len(s) \in Nat
  OBVIOUS
<1>2. IsFiniteSet(1 .. Len(s))
  BY <1>1, FS_Interval
<1>3. Cardinality(1 .. Len(s)) = Len(s)
  BY <1>1, FS_Interval
<1>. QED
  BY <1>1, <1>2, <1>3

LEMMA UpToCardinality ==
  ASSUME NEW s \in Seq(Extent), NEW i \in DOMAIN s
  PROVE  IsFiniteSet(UpTo(s, i)) /\ Cardinality(UpTo(s, i)) \in DOMAIN s
<1>1. DOMAIN s = 1 .. Len(s) /\ Len(s) \in Nat
  OBVIOUS
<1>2. IsFiniteSet(DOMAIN s) /\ Cardinality(DOMAIN s) = Len(s)
  BY FiniteDomain
<1>3. UpTo(s, i) \subseteq DOMAIN s /\ i \in UpTo(s, i)
  BY <1>1 DEF UpTo
<1>4. /\ IsFiniteSet(UpTo(s, i)) /\ Cardinality(UpTo(s, i)) \in Nat
      /\ Cardinality(UpTo(s, i)) <= Len(s)
  BY <1>2, <1>3, FS_Subset, FS_CardinalityType
<1>5. Cardinality(UpTo(s, i)) # 0
  BY <1>3, <1>4, FS_EmptySet
<1>. QED
  BY <1>1, <1>4, <1>5

\* A sorted table is the table in another order.
LEMMA SortedRearranges ==
  ASSUME NEW s \in Seq(Extent)
  PROVE  \E p \in Bijection(DOMAIN s, DOMAIN s) : Sorted(s) = [n \in DOMAIN s |-> s[p[n]]]
<1> DEFINE D == DOMAIN s
           place == [i \in D |-> Cardinality(UpTo(s, i))]
           p == [n \in D |-> CHOOSE i \in D : Cardinality(UpTo(s, i)) = n]
<1>1. D = 1 .. Len(s) /\ Len(s) \in Nat /\ \A i \in D : s[i].base \in Nat
  <2>1. D = 1 .. Len(s) /\ Len(s) \in Nat /\ \A i \in D : s[i] \in Extent
    OBVIOUS
  <2>2. \A e \in Extent : e.base \in Nat
    BY DEF Extent
  <2>. QED
    BY <2>1, <2>2
<1>2. IsFiniteSet(D)
  BY FiniteDomain
<1>3. place \in [D -> D]
  BY UpToCardinality
<1>4. ASSUME NEW i \in D, NEW j \in D, place[i] = place[j]
      PROVE  i = j
  <2>1. ASSUME NEW k \in D, NEW l \in D, Cardinality(UpTo(s, k)) = Cardinality(UpTo(s, l)),
               s[k].base < s[l].base \/ (s[k].base = s[l].base /\ k < l)
        PROVE  FALSE
    <3>1. UpTo(s, k) \subseteq UpTo(s, l)
      BY <1>1, <2>1 DEF UpTo
    <3>2. l \in UpTo(s, l) /\ l \notin UpTo(s, k)
      BY <1>1, <2>1 DEF UpTo
    <3>. QED
      BY <2>1, <3>1, <3>2, UpToCardinality, FS_Subset
  <2>. QED
    BY <1>1, <1>4, <2>1
<1>5. place \in Injection(D, D)
  BY <1>3, <1>4 DEF Injection, IsInjective
<1>6. place \in Surjection(D, D)
  BY <1>2, <1>5, FS_Injection
<1>7. \A n \in D : p[n] \in D /\ place[p[n]] = n
  BY <1>6 DEF Surjection
<1>8. p \in [D -> D]
  BY <1>7
<1>9. p \in Injection(D, D)
  <2>1. \A m, n \in D : p[m] = p[n] => m = n
    BY <1>7
  <2>. QED
    BY <1>8, <2>1 DEF Injection, IsInjective
<1>10. p \in Surjection(D, D)
  BY <1>2, <1>9, FS_Injection
<1>11. Sorted(s) = [n \in D |-> s[p[n]]]
  BY DEF Sorted
<1>. QED
  BY <1>9, <1>10, <1>11 DEF Bijection

-----------------------------------------------------------------------------
(* The invariant.                                                          *)

Span(k) == Sections[k].base .. Sections[k].base + Sections[k].size - 1

\* Every symbol belongs to a function or to an import.
TableInv ==
  \A i \in DOMAIN symbols :
    \/ \E j \in DOMAIN functions : symbols[i] = functions[j]
    \/ \E j \in DOMAIN image.imports : symbols[i] = image.imports[j]

\* What lies behind the sweep is accounted for.
CoverInv ==
  /\ pc \in {"given", "pdata"} => section = 0
  /\ pc \in {"scan", "sweep"} =>
       \A k \in DOMAIN Sections : k < section => \A a \in Span(k) : Accounted(a)
  /\ pc = "sweep" => \A a \in Span(section) : a < base => Accounted(a)
  /\ CodeIsCovered

Inv == TypeOK /\ TableInv /\ CoverInv

\* Every function is in the table under its address.
Recorded ==
  \A i \in DOMAIN functions :
    \E j \in DOMAIN symbols : symbols[j].base = functions[i].base /\ symbols[j].size > 0

\* A function that is in the table is not added again.
UniqueInv ==
  /\ pc = "given" =>
       /\ Len(functions) = index - 1
       /\ \A i \in 1 .. index - 1 : functions[i] = image.given[i]
  /\ WellFormed /\ pc # "done" => Recorded
  /\ UniqueFunctions

LEMMA SectionFacts ==
  ASSUME NEW k \in DOMAIN Sections
  PROVE  /\ Sections[k].base \in Nat /\ Sections[k].size \in Nat \ {0}
         /\ Span(k) \subseteq Addresses /\ Addresses \subseteq Nat
         /\ DOMAIN Sections = 1 .. Len(Sections) /\ Len(Sections) \in Nat
<1>1. \A l \in DOMAIN Sections : Sections[l].base \in Nat /\ Sections[l].size \in Nat \ {0}
  <2>1. \A l \in DOMAIN Sections : Sections[l] \in [base : Nat, size : Nat \ {0}]
    <3>1. Sections \in Seq([base : Nat, size : Nat \ {0}])
      BY DiscoveryAssumption
    <3>2. \A X : Sections \in Seq(X) => \A l \in DOMAIN Sections : Sections[l] \in X
      OBVIOUS
    <3>. QED
      BY <3>1, <3>2
  <2>2. \A s \in [base : Nat, size : Nat \ {0}] : s.base \in Nat /\ s.size \in Nat \ {0}
    OBVIOUS
  <2>. QED
    BY <2>1, <2>2
<1>2. DOMAIN Sections = 1 .. Len(Sections) /\ Len(Sections) \in Nat
  BY DiscoveryAssumption
<1>3. Span(k) \subseteq Addresses
  BY DEF Span, Addresses
<1>4. Addresses \subseteq Nat
  BY <1>1 DEF Addresses
<1>. QED
  BY <1>1, <1>2, <1>3, <1>4

LEMMA ImageFacts ==
  ASSUME TypeOK
  PROVE  /\ image.imports \in Seq(Extent) /\ image.given \in Seq(Extent)
         /\ image.pdata \in Seq(Extent)
         /\ \A a \in Addresses : /\ image.code[a] \in Word
                                 /\ image.analyzed[a] \in Nat \ {0}
BY DEF TypeOK, Image

LEMMA InitInv == Init => Inv /\ UniqueInv
<1> SUFFICES ASSUME Init PROVE Inv /\ UniqueInv
  OBVIOUS
<1>1. image \in Image /\ image.imports \in Seq(Extent) /\ Len(Sections) \in Nat
  BY DiscoveryAssumption DEF Init, Image
<1>2. TypeOK
  BY <1>1 DEF Init, TypeOK
<1>3. TableInv /\ CoverInv
  BY DEF Init, TableInv, CoverInv, CodeIsCovered
<1>4. UniqueInv
  BY DEF Init, UniqueInv, UniqueFunctions, Recorded
<1>. QED
  BY <1>2, <1>3, <1>4 DEF Inv

\* A new function adds to what is accounted for.
LEMMA EmplaceFacts ==
  ASSUME TypeOK, TableInv, NEW e \in Extent, Emplace(e), image' = image
  PROVE  /\ functions' \in Seq(Extent) /\ symbols' \in Seq(Extent)
         /\ TableInv'
         /\ \A a : Accounted(a) => Accounted(a)'
         /\ \A a : Covers(e, a) => Accounted(a)'
<1>1. /\ functions \in Seq(Extent) /\ symbols \in Seq(Extent)
      /\ functions' = Append(functions, e) /\ symbols' = Append(symbols, e)
  BY DEF TypeOK, Emplace
<1>2. /\ functions' \in Seq(Extent)
      /\ DOMAIN functions' = DOMAIN functions \cup {Len(functions) + 1}
      /\ functions'[Len(functions) + 1] = e
      /\ \A i \in DOMAIN functions : functions'[i] = functions[i]
  BY <1>1, AppendFacts
<1>3. /\ symbols' \in Seq(Extent)
      /\ DOMAIN symbols' = DOMAIN symbols \cup {Len(symbols) + 1}
      /\ symbols'[Len(symbols) + 1] = e
      /\ \A i \in DOMAIN symbols : symbols'[i] = symbols[i]
  BY <1>1, AppendFacts
<1>4. TableInv'
  BY <1>2, <1>3 DEF TableInv
<1>5. \A a : Accounted(a) => Accounted(a)'
  BY <1>2 DEF Accounted, Covers
<1>6. \A a : Covers(e, a) => Accounted(a)'
  BY <1>2 DEF Accounted, Covers
<1>. QED
  BY <1>2, <1>3, <1>4, <1>5, <1>6

LEMMA SameAccount ==
  ASSUME UNCHANGED <<image, functions>>
  PROVE  \A a : Accounted(a) <=> Accounted(a)'
BY DEF Accounted, Covers

\* Sorting neither adds nor drops a function.
LEMMA SortAccount ==
  ASSUME TypeOK, functions' = Sorted(functions), image' = image
  PROVE  /\ functions' \in Seq(Extent)
         /\ \A i \in DOMAIN functions : \E j \in DOMAIN functions' :
              functions'[j] = functions[i]
         /\ \A a : Accounted(a) => Accounted(a)'
<1> DEFINE D == DOMAIN functions
<1>1. functions \in Seq(Extent)
  BY DEF TypeOK
<1>2. PICK p \in Bijection(D, D) : functions' = [n \in D |-> functions[p[n]]]
  BY <1>1, SortedRearranges
<1>3. p \in [D -> D] /\ \A i \in D : \E j \in D : p[j] = i
  BY DEF Bijection, Surjection
<1>4. DOMAIN functions' = D /\ \A n \in D : functions'[n] = functions[p[n]]
  BY <1>2
<1>5. \A i \in D : \E j \in DOMAIN functions' : functions'[j] = functions[i]
  BY <1>3, <1>4
<1>6. functions' \in Seq(Extent)
  <2>1. D = 1 .. Len(functions) /\ Len(functions) \in Nat
    BY <1>1
  <2>2. \A n \in D : functions'[n] \in Extent
    BY <1>1, <1>3, <1>4
  <2>. QED
    BY <1>2, <2>1, <2>2
<1>7. \A a : Accounted(a) => Accounted(a)'
  BY <1>5 DEF Accounted, Covers
<1>. QED
  BY <1>5, <1>6, <1>7

\* Entering a section, or ending, when all earlier sections are done.
LEMMA EnterSectionInv ==
  ASSUME Inv, NEW k \in 1 .. Len(Sections) + 1, EnterSection(k),
         UNCHANGED <<image, index, symbols>>,
         \A l \in DOMAIN Sections : l < k => \A a \in Span(l) : Accounted(a)
  PROVE  Inv'
<1>1. Len(Sections) \in Nat /\ DOMAIN Sections = 1 .. Len(Sections)
  BY DiscoveryAssumption
<1>2. section' = k /\ data' = 0 /\ k \in Nat
  BY <1>1 DEF EnterSection
<1>3. CASE k \in DOMAIN Sections
  <2>1. pc' = "scan" /\ base' = Sections[k].base /\ functions' = functions
    BY <1>3 DEF EnterSection
  <2>2. TypeOK'
    BY <1>1, <1>2, <1>3, <2>1, SectionFacts DEF Inv, TypeOK
  <2>3. TableInv'
    BY <2>1 DEF Inv, TableInv
  <2>4. CoverInv'
    BY <1>2, <2>1, SameAccount DEF CoverInv, CodeIsCovered, Span
  <2>. QED
    BY <2>2, <2>3, <2>4 DEF Inv
<1>4. CASE k \notin DOMAIN Sections
  <2>1. pc' = "done" /\ base' = base /\ functions' = Sorted(functions)
    BY <1>4 DEF EnterSection
  <2>2. /\ functions' \in Seq(Extent) /\ \A a : Accounted(a) => Accounted(a)'
        /\ \A i \in DOMAIN functions : \E j \in DOMAIN functions' :
              functions'[j] = functions[i]
    BY <2>1, SortAccount DEF Inv
  <2>3. TypeOK'
    BY <1>1, <1>2, <2>1, <2>2 DEF Inv, TypeOK
  <2>4. TableInv'
    BY <2>2 DEF Inv, TableInv
  <2>5. \A l \in DOMAIN Sections : l < k
    BY <1>1, <1>4
  <2>6. \A a \in Addresses : \E l \in DOMAIN Sections : a \in Span(l)
    BY DEF Addresses, Span
  <2>7. CodeIsCovered'
    BY <2>2, <2>5, <2>6 DEF CodeIsCovered
  <2>8. CoverInv'
    BY <2>1, <2>7 DEF CoverInv
  <2>. QED
    BY <2>3, <2>4, <2>8 DEF Inv
<1>. QED
  BY <1>3, <1>4

-----------------------------------------------------------------------------
(* Every step keeps the invariant.                                         *)

\* Steps that append a function, the sweep excepted.
LEMMA EmplaceInv ==
  ASSUME Inv, pc # "done", NEW e \in Extent, Emplace(e), index' \in Nat \ {0}, data' \in Nat,
         pc # "sweep", UNCHANGED <<image, pc, section, base>>
  PROVE  Inv'
<1>1. /\ functions' \in Seq(Extent) /\ symbols' \in Seq(Extent)
      /\ TableInv' /\ \A a : Accounted(a) => Accounted(a)'
  BY EmplaceFacts DEF Inv
<1>2. TypeOK'
  BY <1>1 DEF Inv, TypeOK
<1>3. CoverInv'
  BY <1>1 DEF Inv, CoverInv, CodeIsCovered
<1>. QED
  BY <1>1, <1>2, <1>3 DEF Inv

\* Steps that leave both tables and the place alone.
LEMMA QuietInv ==
  ASSUME Inv, TypeOK', pc # "done", pc' # "done", pc' # "sweep",
         pc' \in {"given", "pdata"} => pc \in {"given", "pdata"},
         UNCHANGED <<image, section, functions, symbols>>, pc' = "scan" => pc = "scan"
  PROVE  Inv'
<1>1. \A a : Accounted(a) <=> Accounted(a)'
  BY SameAccount
<1>2. TableInv'
  BY DEF Inv, TableInv
<1>3. CoverInv'
  BY <1>1 DEF Inv, CoverInv, CodeIsCovered
<1>. QED
  BY <1>2, <1>3 DEF Inv

LEMMA AddGivenInv == Inv /\ AddGiven => Inv'
<1> SUFFICES ASSUME Inv, AddGiven PROVE Inv'
  OBVIOUS
<1>1. image.given[index] \in Extent
  BY ImageFacts DEF Inv, AddGiven, TypeOK
<1>. QED
  BY <1>1, EmplaceInv DEF Inv, AddGiven, TypeOK

LEMMA EndGivenInv == Inv /\ EndGiven => Inv'
<1> SUFFICES ASSUME Inv, EndGiven PROVE Inv'
  OBVIOUS
<1>1. TypeOK'
  BY DEF Inv, EndGiven, TypeOK
<1>. QED
  BY <1>1, QuietInv DEF EndGiven

LEMMA AddPdataInv == Inv /\ AddPdata => Inv'
<1> SUFFICES ASSUME Inv, AddPdata PROVE Inv'
  OBVIOUS
<1>1. image.pdata[index] \in Extent
  BY ImageFacts DEF Inv, AddPdata, TypeOK
<1>2. CASE Emplace(image.pdata[index])
  BY <1>1, <1>2, EmplaceInv DEF Inv, AddPdata, TypeOK
<1>3. CASE UNCHANGED <<functions, symbols>>
  <2>1. TypeOK'
    BY <1>3 DEF Inv, AddPdata, TypeOK
  <2>. QED
    BY <1>3, <2>1, QuietInv DEF AddPdata
<1>. QED
  BY <1>2, <1>3 DEF AddPdata

LEMMA EndPdataInv == Inv /\ EndPdata => Inv'
<1> SUFFICES ASSUME Inv, EndPdata PROVE Inv'
  OBVIOUS
<1>1. Len(Sections) \in Nat /\ DOMAIN Sections = 1 .. Len(Sections)
  BY DiscoveryAssumption
<1>2. 1 \in 1 .. Len(Sections) + 1 /\ \A l \in DOMAIN Sections : ~(l < 1)
  BY <1>1
<1>. QED
  BY <1>2, EnterSectionInv DEF EndPdata

\* The cursor's word, and what the analysis answers there, have their types.
LEMMA CursorFacts ==
  ASSUME TypeOK, pc \in {"scan", "sweep"}, data < Sections[section].size
  PROVE  /\ section \in DOMAIN Sections
         /\ Sections[section].base + data \in Span(section)
         /\ image.code[Sections[section].base + data] \in Word
<1>1. section \in DOMAIN Sections /\ data \in Nat
  BY DEF TypeOK
<1>2. /\ Sections[section].base \in Nat /\ Sections[section].size \in Nat
      /\ Span(section) \subseteq Addresses
  BY <1>1, SectionFacts
<1>3. Sections[section].base + data \in Span(section)
  BY <1>1, <1>2 DEF Span
<1>. QED
  BY <1>1, <1>2, <1>3, ImageFacts

LEMMA AnalyzedType ==
  ASSUME TypeOK, NEW a \in Addresses
  PROVE  Analyzed(a) \in Extent /\ Analyzed(a).base = a /\ Analyzed(a).size = image.analyzed[a]
<1>1. a \in Nat
  <2>1. Addresses \subseteq Nat
    <3>1. \A k \in DOMAIN Sections : Addresses \subseteq Nat
      BY SectionFacts
    <3>2. DOMAIN Sections # {}
      BY DEF Addresses
    <3>. QED
      BY <3>1, <3>2
  <2>. QED
    BY <2>1
<1>2. image.analyzed[a] \in Nat
  BY ImageFacts
<1>. QED
  BY <1>1, <1>2 DEF Analyzed, Extent

LEMMA ScanWordInv == Inv /\ ScanWord => Inv'
<1> SUFFICES ASSUME Inv, ScanWord PROVE Inv'
  OBVIOUS
<1> DEFINE word == image.code[base + data]
<1>1. CASE word.op = "call" /\ Within(word.target) /\ ~Known(word.target)
  <2>1. /\ word \in Word /\ section \in DOMAIN Sections
    BY CursorFacts DEF ScanWord, Inv, TypeOK
  <2>2. word.target \in Int
    BY <2>1 DEF Word
  <2>3. word.target \in Span(section)
    BY <1>1, <2>1, <2>2, SectionFacts DEF Within, Span
  <2>4. Analyzed(word.target) \in Extent
    BY <2>1, <2>3, SectionFacts, AnalyzedType DEF Inv
  <2>5. Emplace(Analyzed(word.target))
    BY <1>1 DEF ScanWord
  <2>. QED
    BY <2>4, <2>5, EmplaceInv DEF Inv, ScanWord, TypeOK
<1>2. CASE ~(word.op = "call" /\ Within(word.target) /\ ~Known(word.target))
  <2>1. UNCHANGED <<functions, symbols>>
    BY <1>2 DEF ScanWord
  <2>2. TypeOK'
    BY <2>1 DEF Inv, ScanWord, TypeOK
  <2>. QED
    BY <2>1, <2>2, QuietInv DEF ScanWord
<1>. QED
  BY <1>1, <1>2

LEMMA EndScanInv == Inv /\ EndScan => Inv'
<1> SUFFICES ASSUME Inv, EndScan PROVE Inv'
  OBVIOUS
<1>1. \A a : Accounted(a) <=> Accounted(a)'
  BY SameAccount DEF EndScan
<1>2. TypeOK'
  <2>1. section \in DOMAIN Sections
    BY DEF Inv, TypeOK, EndScan
  <2>2. base' = Sections[section].base + 0
    BY <2>1, SectionFacts DEF Inv, TypeOK, EndScan
  <2>. QED
    BY <2>1, <2>2 DEF Inv, EndScan, TypeOK
<1>3. TableInv'
  BY DEF Inv, TableInv, EndScan
<1>4. \A a \in Span(section) : ~(a < base)
  BY SectionFacts DEF Span, Inv, TypeOK, EndScan
<1>5. CoverInv'
  BY <1>1, <1>4 DEF Inv, CoverInv, CodeIsCovered, EndScan, Span
<1>. QED
  BY <1>2, <1>3, <1>5 DEF Inv

\* The sweep moves on when the words it passes are accounted for.
LEMMA SweepInv ==
  ASSUME Inv, pc = "sweep", NEW n \in Nat, Advance(n),
         functions' \in Seq(Extent), symbols' \in Seq(Extent), TableInv',
         \A a : Accounted(a) => Accounted(a)',
         \A a \in Nat : base <= a /\ a < base + n => Accounted(a)',
         UNCHANGED <<image, pc, index, section>>
  PROVE  Inv'
<1>1. section \in DOMAIN Sections /\ data \in Nat /\ base = Sections[section].base + data
  BY DEF Inv, TypeOK
<1>2. Sections[section].base \in Nat /\ \A a \in Span(section) : a \in Nat
  BY <1>1, SectionFacts
<1>3. data' = data + n /\ base' = base + n
  BY DEF Advance
<1>4. TypeOK'
  <2>1. data' \in Nat /\ base' \in Nat /\ base' = Sections[section].base + data'
    BY <1>1, <1>2, <1>3
  <2>2. /\ image' \in Image /\ index' \in Nat \ {0} /\ section' = section /\ pc' = "sweep"
        /\ section' \in 0 .. Len(Sections) + 1
    BY DEF Inv, TypeOK
  <2>. QED
    BY <1>1, <2>1, <2>2 DEF TypeOK
<1>5. \A a \in Span(section) : a < base' => Accounted(a)'
  BY <1>1, <1>2, <1>3 DEF Inv, CoverInv
<1>6. CoverInv'
  BY <1>5 DEF Inv, CoverInv, CodeIsCovered, Span
<1>. QED
  BY <1>4, <1>6 DEF Inv

LEMMA SkipInvalidInv == Inv /\ SkipInvalid => Inv'
<1> SUFFICES ASSUME Inv, SkipInvalid PROVE Inv'
  OBVIOUS
<1>1. /\ section \in DOMAIN Sections /\ base = Sections[section].base + data
      /\ base \in Span(section) /\ Here \in Word
  BY CursorFacts DEF SkipInvalid, Sweeping, Here, Inv, TypeOK
<1>2. Here.size \in Nat /\ base \in Addresses /\ Here = image.code[base]
  BY <1>1, SectionFacts DEF Word, Here
<1>3. \A a : Accounted(a) => Accounted(a)'
  BY SameAccount DEF SkipInvalid
<1>4. \A a \in Nat : base <= a /\ a < base + Here.size => Accounted(a)
  BY <1>2 DEF SkipInvalid, Accounted, Covers
<1>5. TableInv' /\ functions' \in Seq(Extent) /\ symbols' \in Seq(Extent)
  BY DEF Inv, TypeOK, TableInv, SkipInvalid
<1>. QED
  BY <1>2, <1>3, <1>4, <1>5, SweepInv DEF SkipInvalid, Sweeping

LEMMA SkipKnownInv == Inv /\ SkipKnown => Inv'
<1> SUFFICES ASSUME Inv, SkipKnown PROVE Inv'
  OBVIOUS
<1>1. PICK i \in DOMAIN symbols :
        Found(base) = symbols[i] /\ symbols[i].base = base
  BY FoundType DEF Inv, TypeOK, SkipKnown
<1>2. symbols[i] \in Extent
  BY <1>1 DEF Inv, TypeOK
<1>3. Found(base).size \in Nat
  BY <1>1, <1>2 DEF Extent
<1>4. \A a : Covers(symbols[i], a) => Accounted(a)
  BY <1>1 DEF Inv, TableInv, Accounted
<1>5. \A a : Accounted(a) => Accounted(a)'
  BY SameAccount DEF SkipKnown
<1>6. \A a \in Nat : base <= a /\ a < base + Found(base).size => Accounted(a)'
  BY <1>1, <1>4, <1>5 DEF Covers
<1>7. TableInv' /\ functions' \in Seq(Extent) /\ symbols' \in Seq(Extent)
  BY DEF Inv, TypeOK, TableInv, SkipKnown
<1>. QED
  BY <1>3, <1>5, <1>6, <1>7, SweepInv DEF SkipKnown, Sweeping

LEMMA AnalyzeHereInv == Inv /\ AnalyzeHere => Inv'
<1> SUFFICES ASSUME Inv, AnalyzeHere PROVE Inv'
  OBVIOUS
<1>1. base \in Addresses
  BY CursorFacts, SectionFacts DEF AnalyzeHere, Sweeping, Inv, TypeOK
<1>2. /\ Analyzed(base) \in Extent /\ Analyzed(base).base = base
      /\ Analyzed(base).size = image.analyzed[base] /\ image.analyzed[base] \in Nat
  BY <1>1, AnalyzedType, ImageFacts DEF Inv
<1>3. /\ functions' \in Seq(Extent) /\ symbols' \in Seq(Extent) /\ TableInv'
      /\ \A a : Accounted(a) => Accounted(a)'
      /\ \A a : Covers(Analyzed(base), a) => Accounted(a)'
  BY <1>2, EmplaceFacts DEF Inv, AnalyzeHere
<1>4. \A a \in Nat : base <= a /\ a < base + image.analyzed[base] => Accounted(a)'
  BY <1>2, <1>3 DEF Covers
<1>. QED
  BY <1>2, <1>3, <1>4, SweepInv DEF AnalyzeHere, Sweeping

LEMMA EndSweepInv == Inv /\ EndSweep => Inv'
<1> SUFFICES ASSUME Inv, EndSweep PROVE Inv'
  OBVIOUS
<1>1. section \in DOMAIN Sections /\ data \in Nat /\ base = Sections[section].base + data
  BY DEF Inv, TypeOK, EndSweep
<1>2. /\ Sections[section].base \in Nat /\ Sections[section].size \in Nat
      /\ DOMAIN Sections = 1 .. Len(Sections) /\ Len(Sections) \in Nat
  BY <1>1, SectionFacts
<1>3. section + 1 \in 1 .. Len(Sections) + 1
  BY <1>1, <1>2
<1>4. \A a \in Span(section) : Accounted(a)
  BY <1>1, <1>2 DEF Inv, CoverInv, EndSweep, Span
<1>5. ASSUME NEW l \in DOMAIN Sections, l < section + 1, NEW a \in Span(l)
      PROVE  Accounted(a)
  <2>1. l < section \/ l = section
    BY <1>1, <1>2, <1>5
  <2>. QED
    BY <1>4, <1>5, <2>1 DEF Inv, CoverInv, EndSweep
<1>. QED
  BY <1>3, <1>5, EnterSectionInv DEF EndSweep

LEMMA StepInv == Inv /\ [Next]_vars => Inv'
<1> SUFFICES ASSUME Inv, [Next]_vars PROVE Inv'
  OBVIOUS
<1>1. CASE UNCHANGED vars
  BY <1>1, SameAccount
     DEF vars, Inv, TypeOK, TableInv, CoverInv, CodeIsCovered
<1>. QED
  BY <1>1, AddGivenInv, EndGivenInv, AddPdataInv, EndPdataInv, ScanWordInv, EndScanInv,
     SkipInvalidInv, SkipKnownInv, AnalyzeHereInv, EndSweepInv DEF Next, Terminated

-----------------------------------------------------------------------------
(* No function is defined twice.                                           *)

LEMMA EmplaceRecorded ==
  ASSUME TypeOK, Recorded, NEW e \in Extent, Emplace(e), e.size > 0
  PROVE  Recorded'
<1>1. /\ symbols \in Seq(Extent) /\ symbols' = Append(symbols, e)
      /\ functions \in Seq(Extent) /\ functions' = Append(functions, e)
  BY DEF TypeOK, Emplace
<1>2. /\ DOMAIN symbols' = DOMAIN symbols \cup {Len(symbols) + 1}
      /\ symbols'[Len(symbols) + 1] = e
      /\ \A i \in DOMAIN symbols : symbols'[i] = symbols[i]
  BY <1>1, AppendFacts
<1>3. /\ DOMAIN functions' = DOMAIN functions \cup {Len(functions) + 1}
      /\ functions'[Len(functions) + 1] = e
      /\ \A i \in DOMAIN functions : functions'[i] = functions[i]
  BY <1>1, AppendFacts
<1>. QED
  BY <1>2, <1>3 DEF Recorded

\* A function that no symbol begins at may be added.
LEMMA EmplaceUnique ==
  ASSUME TypeOK, UniqueInv, pc # "given", pc # "done", NEW e \in Extent, Emplace(e),
         ~Known(e.base), WellFormed => e.size > 0, UNCHANGED <<image, pc>>
  PROVE  UniqueInv'
<1>1. functions \in Seq(Extent) /\ functions' = Append(functions, e)
  BY DEF TypeOK, Emplace
<1>2. /\ DOMAIN functions' = DOMAIN functions \cup {Len(functions) + 1}
      /\ functions'[Len(functions) + 1] = e
      /\ \A i \in DOMAIN functions : functions'[i] = functions[i]
  BY <1>1, AppendFacts
<1>3. WellFormed' <=> WellFormed
  BY DEF WellFormed
<1>4. WellFormed => Recorded
  BY DEF UniqueInv
<1>5. WellFormed => Recorded'
  BY <1>4, EmplaceRecorded
<1>6. UniqueFunctions'
  <2>1. ASSUME WellFormed, NEW i \in DOMAIN functions', NEW j \in DOMAIN functions',
               functions'[i].base = functions'[j].base
        PROVE  i = j
    <3>1. \A n \in DOMAIN functions : functions[n].base # e.base
      BY <1>4, <2>1 DEF Recorded, Known, Candidates
    <3>. QED
      BY <1>2, <2>1, <3>1 DEF UniqueInv, UniqueFunctions
  <2>. QED
    BY <1>3, <2>1 DEF UniqueFunctions
<1>. QED
  BY <1>3, <1>5, <1>6 DEF UniqueInv

\* Steps that leave both tables alone.
LEMMA QuietUnique ==
  ASSUME UniqueInv, pc # "done", pc' # "done", pc' # "given",
         UNCHANGED <<image, functions, symbols>>
  PROVE  UniqueInv'
BY DEF UniqueInv, UniqueFunctions, WellFormed, Recorded

LEMMA AddGivenUnique == TypeOK /\ UniqueInv /\ AddGiven => UniqueInv'
<1> SUFFICES ASSUME TypeOK, UniqueInv, AddGiven PROVE UniqueInv'
  OBVIOUS
<1> DEFINE e == image.given[index]
<1>1. /\ image.given \in Seq(Extent) /\ index \in DOMAIN image.given /\ e \in Extent
      /\ DOMAIN image.given = 1 .. Len(image.given) /\ index \in Nat \ {0}
  BY ImageFacts DEF AddGiven, TypeOK
<1>2. functions \in Seq(Extent) /\ functions' = Append(functions, e)
  BY DEF TypeOK, AddGiven, Emplace
<1>3. Len(functions) = index - 1 /\ \A i \in 1 .. index - 1 : functions[i] = image.given[i]
  BY DEF UniqueInv, AddGiven
<1>4. /\ DOMAIN functions' = 1 .. index /\ Len(functions') = index
      /\ \A i \in 1 .. index : functions'[i] = image.given[i]
  <2>1. Len(functions') = index /\ DOMAIN functions' = 1 .. index
    BY <1>1, <1>2, <1>3
  <2>2. functions'[index] = e
    BY <1>1, <1>2, <1>3
  <2>3. \A i \in 1 .. index - 1 : functions'[i] = functions[i]
    BY <1>1, <1>2, <1>3
  <2>. QED
    BY <1>1, <1>3, <2>1, <2>2, <2>3
<1>5. WellFormed' <=> WellFormed
  BY DEF WellFormed, AddGiven
<1>6. UniqueFunctions'
  BY <1>1, <1>4, <1>5 DEF UniqueFunctions, WellFormed
<1>7. WellFormed => Recorded'
  <2>1. WellFormed => e.size > 0
    BY <1>1 DEF WellFormed
  <2>. QED
    BY <1>1, <2>1, EmplaceRecorded DEF UniqueInv, AddGiven
<1>8. index' - 1 = index /\ image' = image
  BY <1>1 DEF AddGiven
<1>. QED
  BY <1>4, <1>5, <1>6, <1>7, <1>8 DEF UniqueInv

LEMMA EnterSectionUnique ==
  ASSUME TypeOK, UniqueInv, pc # "done", NEW k, EnterSection(k), UNCHANGED <<image, symbols>>
  PROVE  UniqueInv'
<1>1. CASE k \in DOMAIN Sections
  BY <1>1, QuietUnique DEF EnterSection
<1>2. CASE k \notin DOMAIN Sections
  <2> DEFINE D == DOMAIN functions
  <2>1. pc' = "done" /\ functions' = Sorted(functions) /\ functions \in Seq(Extent)
    BY <1>2 DEF EnterSection, TypeOK
  <2>2. PICK p \in Bijection(D, D) : functions' = [n \in D |-> functions[p[n]]]
    BY <2>1, SortedRearranges
  <2>3. p \in [D -> D] /\ \A m, n \in D : p[m] = p[n] => m = n
    BY DEF Bijection, Injection, IsInjective
  <2>4. WellFormed' <=> WellFormed
    BY DEF WellFormed
  <2>5. UniqueFunctions'
    BY <2>2, <2>3, <2>4 DEF UniqueInv, UniqueFunctions
  <2>. QED
    BY <2>1, <2>5 DEF UniqueInv
<1>. QED
  BY <1>1, <1>2

LEMMA StepUnique == TypeOK /\ UniqueInv /\ [Next]_vars => UniqueInv'
<1> SUFFICES ASSUME TypeOK, UniqueInv, [Next]_vars PROVE UniqueInv'
  OBVIOUS
<1>1. CASE UNCHANGED vars
  BY <1>1 DEF vars, UniqueInv, UniqueFunctions, WellFormed, Recorded
<1>2. CASE AddGiven
  BY <1>2, AddGivenUnique
<1>3. CASE EndGiven
  BY <1>3, QuietUnique DEF EndGiven
<1>4. CASE AddPdata
  <2>1. image.pdata[index] \in Extent /\ index \in DOMAIN image.pdata
    BY <1>4, ImageFacts DEF AddPdata, TypeOK
  <2>2. WellFormed => image.pdata[index].size > 0
    BY <2>1 DEF WellFormed
  <2>3. CASE Known(image.pdata[index].base)
    BY <1>4, <2>3, QuietUnique DEF AddPdata
  <2>4. CASE ~Known(image.pdata[index].base)
    BY <1>4, <2>1, <2>2, <2>4, EmplaceUnique DEF AddPdata
  <2>. QED
    BY <2>3, <2>4
<1>5. CASE EndPdata
  BY <1>5, EnterSectionUnique DEF EndPdata
<1>6. CASE ScanWord
  <2> DEFINE word == image.code[base + data]
  <2>1. CASE word.op = "call" /\ Within(word.target) /\ ~Known(word.target)
    <3>1. /\ word \in Word /\ section \in DOMAIN Sections
      BY <1>6, CursorFacts DEF ScanWord, TypeOK
    <3>2. word.target \in Int
      BY <3>1 DEF Word
    <3>3. word.target \in Span(section)
      BY <2>1, <3>1, <3>2, SectionFacts DEF Within, Span
    <3>4. word.target \in Addresses
      BY <3>1, <3>3, SectionFacts
    <3>5. /\ Analyzed(word.target) \in Extent /\ Analyzed(word.target).base = word.target
          /\ Analyzed(word.target).size > 0
      BY <3>4, AnalyzedType, ImageFacts
    <3>6. Emplace(Analyzed(word.target)) /\ UNCHANGED <<image, pc>> /\ pc = "scan"
      BY <1>6, <2>1 DEF ScanWord
    <3>. QED
      BY <2>1, <3>5, <3>6, EmplaceUnique
  <2>2. CASE ~(word.op = "call" /\ Within(word.target) /\ ~Known(word.target))
    BY <1>6, <2>2, QuietUnique DEF ScanWord
  <2>. QED
    BY <2>1, <2>2
<1>7. CASE EndScan
  BY <1>7, QuietUnique DEF EndScan
<1>8. CASE SkipInvalid
  BY <1>8, QuietUnique DEF SkipInvalid, Sweeping
<1>9. CASE SkipKnown
  BY <1>9, QuietUnique DEF SkipKnown, Sweeping
<1>10. CASE AnalyzeHere
  <2>1. base \in Addresses
    BY <1>10, CursorFacts, SectionFacts DEF AnalyzeHere, Sweeping, TypeOK
  <2>2. /\ Analyzed(base) \in Extent /\ Analyzed(base).base = base /\ Analyzed(base).size > 0
    BY <2>1, AnalyzedType, ImageFacts
  <2>. QED
    BY <1>10, <2>2, EmplaceUnique DEF AnalyzeHere, Sweeping
<1>11. CASE EndSweep
  BY <1>11, EnterSectionUnique DEF EndSweep
<1>12. CASE Terminated
  BY <1>1, <1>12 DEF Terminated
<1>. QED
  BY <1>1, <1>2, <1>3, <1>4, <1>5, <1>6, <1>7, <1>8, <1>9, <1>10, <1>11, <1>12 DEF Next

-----------------------------------------------------------------------------
(* Boundaries that are given stay, and calls find a symbol.                *)

\* The table has one entry at this base, and it is this one.
Settled(e) == Known(e.base) /\ \A k \in Candidates(e.base) : symbols[k] = e

\* The entry of .pdata is in the table, or one before it is.
PdataSettled(i) ==
  \/ Settled(image.pdata[i])
  \/ \E j \in DOMAIN image.given : image.given[j].base = image.pdata[i].base
  \/ \E j \in DOMAIN image.imports : image.imports[j].base = image.pdata[i].base
  \/ \E j \in 1 .. i - 1 : image.pdata[j].base = image.pdata[i].base

\* Which tables a symbol's base may come from, before anything is analyzed.
Given(b) ==
  \/ \E j \in DOMAIN image.imports : image.imports[j].base = b
  \/ \E j \in DOMAIN image.given : (pc = "given" => j < index) /\ image.given[j].base = b
  \/ pc = "pdata" /\ \E j \in 1 .. index - 1 : image.pdata[j].base = b

BoundaryInv ==
  WellFormed =>
    /\ \A i \in DOMAIN image.given : (pc = "given" => i < index) => Settled(image.given[i])
    /\ \A i \in DOMAIN image.pdata :
         pc # "given" /\ (pc = "pdata" => i < index) => PdataSettled(i)
    /\ pc \in {"given", "pdata"} => \A k \in DOMAIN symbols : Given(symbols[k].base)

\* The calls among the first n words of section k find a symbol.
CallsKnown(k, n) ==
  \A a \in Span(k) :
    a < Sections[k].base + n /\ image.code[a].op = "call" /\ Covers(Sections[k], image.code[a].target) =>
      Known(image.code[a].target)

CallInv ==
  \A k \in DOMAIN Sections :
    /\ (pc \in {"scan", "sweep"} /\ k < section) \/ pc = "done" => CallsKnown(k, Sections[k].size)
    /\ pc = "scan" /\ k = section => CallsKnown(k, data)
    /\ pc = "sweep" /\ k = section => CallsKnown(k, Sections[k].size)

\* What another entry of the table changes.
LEMMA AppendKept ==
  ASSUME symbols \in Seq(Extent), NEW e \in Extent, symbols' = Append(symbols, e)
  PROVE  /\ \A b : Known(b) => Known(b)'
         /\ e.size > 0 => Known(e.base)'
         /\ \A x : Settled(x) /\ x.base # e.base => Settled(x)'
         /\ e.size > 0 /\ ~Known(e.base) => Settled(e)'
<1>1. /\ DOMAIN symbols' = DOMAIN symbols \cup {Len(symbols) + 1}
      /\ symbols'[Len(symbols) + 1] = e
      /\ \A k \in DOMAIN symbols : symbols'[k] = symbols[k]
  BY AppendFacts
<1>2. \A b : Known(b) => Known(b)'
  BY <1>1 DEF Known, Candidates
<1>3. e.size > 0 => Known(e.base)'
  BY <1>1 DEF Known, Candidates
<1>4. ASSUME NEW x, Settled(x), x.base # e.base PROVE Settled(x)'
  <2>1. Known(x.base)'
    BY <1>2, <1>4 DEF Settled
  <2>2. ASSUME NEW k \in Candidates(x.base)' PROVE symbols'[k] = x
    <3>1. k \in Candidates(x.base) /\ symbols'[k] = symbols[k]
      BY <1>1, <1>4, <2>2 DEF Candidates
    <3>. QED
      BY <1>4, <3>1 DEF Settled
  <2>. QED
    BY <2>1, <2>2 DEF Settled
<1>5. ASSUME e.size > 0, ~Known(e.base) PROVE Settled(e)'
  <2>1. ASSUME NEW k \in Candidates(e.base)' PROVE symbols'[k] = e
    BY <1>1, <1>5, <2>1 DEF Candidates, Known
  <2>. QED
    BY <1>3, <1>5, <2>1 DEF Settled
<1>. QED
  BY <1>2, <1>3, <1>4, <1>5

\* A symbol that settles is the one that find chooses.
LEMMA SettledIsFound ==
  ASSUME symbols \in Seq(Extent), NEW e, Settled(e)
  PROVE  Found(e.base) = e
<1>1. PICK k \in DOMAIN symbols :
        Found(e.base) = symbols[k] /\ symbols[k].base = e.base /\ symbols[k].size > 0
  BY FoundType DEF Settled
<1>2. k \in Candidates(e.base)
  BY <1>1 DEF Candidates
<1>. QED
  BY <1>1, <1>2 DEF Settled

LEMMA WellFormedKept == image' = image => (WellFormed <=> WellFormed')
BY DEF WellFormed

\* A step that adds nothing, or what is not in the table yet.
Extends ==
  \/ symbols' = symbols
  \/ \E e \in Extent : e.size > 0 /\ ~Known(e.base) /\ symbols' = Append(symbols, e)

LEMMA ExtendsKeeps ==
  ASSUME TypeOK, Extends
  PROVE  /\ \A b : Known(b) => Known(b)'
         /\ \A x : Settled(x) => Settled(x)'
<1>1. CASE symbols' = symbols
  BY <1>1 DEF Known, Settled, Candidates
<1>2. ASSUME NEW e \in Extent, e.size > 0, ~Known(e.base), symbols' = Append(symbols, e)
      PROVE  /\ \A b : Known(b) => Known(b)'
             /\ \A x : Settled(x) => Settled(x)'
  <2>1. symbols \in Seq(Extent)
    BY DEF TypeOK
  <2>2. \A x : Settled(x) => x.base # e.base
    BY <1>2 DEF Settled
  <2>. QED
    BY <1>2, <2>1, <2>2, AppendKept
<1>. QED
  BY <1>1, <1>2 DEF Extends

\* After the given tables, boundaries only have to be left alone.
LEMMA BoundaryKept ==
  ASSUME TypeOK, BoundaryInv, Extends, image' = image,
         pc \notin {"given", "pdata"} \/ (pc = "pdata" /\ index > Len(image.pdata)),
         pc' \notin {"given", "pdata"}
  PROVE  BoundaryInv'
<1> SUFFICES ASSUME WellFormed PROVE BoundaryInv'
  BY WellFormedKept DEF BoundaryInv
<1>1. \A x : Settled(x) => Settled(x)'
  BY ExtendsKeeps
<1>2. \A i \in DOMAIN image.given : Settled(image.given[i])
  BY DEF BoundaryInv
<1>3. \A i \in DOMAIN image.pdata : PdataSettled(i)
  <2>1. \A i \in DOMAIN image.pdata : i <= Len(image.pdata) /\ i \in Nat
    BY ImageFacts
  <2>2. Len(image.pdata) \in Nat /\ index \in Nat
    BY ImageFacts DEF TypeOK
  <2>. QED
    BY <2>1, <2>2 DEF BoundaryInv
<1>4. \A i \in DOMAIN image.given : Settled(image.given[i])'
  BY <1>1, <1>2 DEF Settled, Known, Candidates
<1>5. \A i \in DOMAIN image.pdata : PdataSettled(i)'
  BY <1>1, <1>3 DEF PdataSettled, Settled, Known, Candidates
<1>. QED
  BY <1>4, <1>5 DEF BoundaryInv

LEMMA AddGivenBoundary ==
  ASSUME TypeOK, BoundaryInv, AddGiven
  PROVE  BoundaryInv'
<1> SUFFICES ASSUME WellFormed PROVE BoundaryInv'
  BY WellFormedKept DEF BoundaryInv, AddGiven
<1>1. PICK n \in DOMAIN image.given : n = index
  BY ImageFacts DEF AddGiven, TypeOK
<1>2. PICK e \in Extent : e = image.given[n]
  BY ImageFacts
<1>3. /\ symbols \in Seq(Extent) /\ symbols' = Append(symbols, e)
      /\ image' = image /\ pc = "given" /\ pc' = "given" /\ index' = n + 1
  BY <1>1, <1>2 DEF TypeOK, AddGiven, Emplace
<1>4. n \in Nat \ {0} /\ DOMAIN image.given \subseteq Nat
  BY <1>1, ImageFacts
<1>5. \A i \in DOMAIN image.given : i < n => image.given[i].base # e.base
  BY <1>2, <1>4 DEF WellFormed
<1>6. e.size > 0 /\ \A j \in DOMAIN image.imports : image.imports[j].base # e.base
  BY <1>2 DEF WellFormed
<1>7. ~Known(e.base)
  <2>1. ASSUME NEW k \in DOMAIN symbols PROVE symbols[k].base # e.base
    <3>1. Given(symbols[k].base)
      BY <1>3 DEF BoundaryInv
    <3>. QED
      BY <1>1, <1>3, <1>5, <1>6, <3>1 DEF Given
  <2>. QED
    BY <2>1 DEF Known, Candidates
<1>8. Settled(e)' /\ \A x : Settled(x) /\ x.base # e.base => Settled(x)'
  BY <1>3, <1>6, <1>7, AppendKept
<1>9. ASSUME NEW i \in DOMAIN image.given, i < n + 1 PROVE Settled(image.given[i])'
  <2>1. CASE i = n
    BY <1>2, <1>3, <1>8, <2>1 DEF Settled, Known, Candidates
  <2>2. CASE i < n
    <3>1. Settled(image.given[i]) /\ image.given[i].base # e.base
      BY <1>1, <1>3, <1>5, <2>2 DEF BoundaryInv
    <3>. QED
      BY <1>3, <1>8, <3>1 DEF Settled, Known, Candidates
  <2>. QED
    BY <1>4, <1>9, <2>1, <2>2
<1>10. ASSUME NEW k \in DOMAIN symbols' PROVE Given(symbols[k].base)'
  <2>1. CASE k \in DOMAIN symbols
    <3>1. Given(symbols[k].base) /\ symbols'[k] = symbols[k]
      BY <1>3, <2>1, AppendFacts DEF BoundaryInv
    <3>. QED
      BY <1>1, <1>3, <1>4, <3>1 DEF Given
  <2>2. CASE k = Len(symbols) + 1
    <3>1. symbols'[k] = e /\ n < index'
      BY <1>3, <1>4, <2>2, AppendFacts
    <3>. QED
      BY <1>2, <1>3, <3>1 DEF Given
  <2>. QED
    BY <1>3, <2>1, <2>2, AppendFacts
<1>. QED
  BY <1>3, <1>9, <1>10 DEF BoundaryInv

LEMMA EndGivenBoundary ==
  ASSUME TypeOK, BoundaryInv, EndGiven
  PROVE  BoundaryInv'
<1> SUFFICES ASSUME WellFormed PROVE BoundaryInv'
  BY WellFormedKept DEF BoundaryInv, EndGiven
<1>1. /\ symbols' = symbols /\ image' = image /\ pc = "given" /\ pc' = "pdata" /\ index' = 1
  BY DEF EndGiven
<1>2. \A i \in DOMAIN image.given : i < index
  BY ImageFacts DEF EndGiven, TypeOK
<1>3. \A i \in DOMAIN image.given : Settled(image.given[i])'
  BY <1>1, <1>2 DEF BoundaryInv, Settled, Known, Candidates
<1>4. \A k \in DOMAIN symbols : Given(symbols[k].base)'
  BY <1>1 DEF BoundaryInv, Given
<1>5. \A i \in DOMAIN image.pdata : ~(i < 1)
  BY ImageFacts
<1>. QED
  BY <1>1, <1>3, <1>4, <1>5 DEF BoundaryInv

LEMMA AddPdataBoundary ==
  ASSUME TypeOK, BoundaryInv, AddPdata
  PROVE  BoundaryInv'
<1> SUFFICES ASSUME WellFormed PROVE BoundaryInv'
  BY WellFormedKept DEF BoundaryInv, AddPdata
<1>1. PICK n \in DOMAIN image.pdata : n = index
  BY ImageFacts DEF AddPdata, TypeOK
<1>2. PICK e \in Extent : e = image.pdata[n]
  BY ImageFacts
<1>3. /\ symbols \in Seq(Extent)
      /\ image' = image /\ pc = "pdata" /\ pc' = "pdata" /\ index' = n + 1
      /\ IF Known(e.base) THEN symbols' = symbols ELSE symbols' = Append(symbols, e)
  BY <1>1, <1>2 DEF TypeOK, AddPdata, Emplace
<1>4. n \in Nat \ {0} /\ DOMAIN image.pdata \subseteq Nat /\ e.size > 0
  BY <1>1, <1>2, ImageFacts DEF WellFormed
<1>5. Extends
  BY <1>3, <1>4 DEF Extends
<1>6. \A x : Settled(x) => Settled(x)'
  BY <1>5, ExtendsKeeps
<1>7. \A i \in DOMAIN image.given : Settled(image.given[i])'
  BY <1>3, <1>6 DEF BoundaryInv, Settled, Known, Candidates
<1>8. PdataSettled(n)'
  <2>1. CASE Known(e.base)
    <3>1. PICK k \in DOMAIN symbols : symbols[k].base = e.base
      BY <2>1 DEF Known, Candidates
    <3>2. Given(e.base)
      BY <1>3, <3>1 DEF BoundaryInv
    <3>. QED
      BY <1>1, <1>2, <1>3, <3>2 DEF Given, PdataSettled
  <2>2. CASE ~Known(e.base)
    <3>1. Settled(e)'
      BY <1>3, <1>4, <2>2, AppendKept
    <3>. QED
      BY <1>2, <1>3, <3>1 DEF PdataSettled, Settled, Known, Candidates
  <2>. QED
    BY <2>1, <2>2
<1>9. ASSUME NEW i \in DOMAIN image.pdata, i < n + 1 PROVE PdataSettled(i)'
  <2>1. CASE i = n
    BY <1>8, <2>1
  <2>2. CASE i < n
    <3>1. PdataSettled(i)
      BY <1>1, <1>3, <2>2 DEF BoundaryInv
    <3>. QED
      BY <1>3, <1>6, <3>1 DEF PdataSettled, Settled, Known, Candidates
  <2>. QED
    BY <1>4, <1>9, <2>1, <2>2
<1>10. ASSUME NEW b, Given(b) PROVE Given(b)'
  <2>1. \A j \in 1 .. index - 1 : j \in 1 .. (n + 1) - 1
    BY <1>1, <1>4
  <2>. QED
    BY <1>3, <1>10, <2>1 DEF Given
<1>11. ASSUME NEW k \in DOMAIN symbols' PROVE Given(symbols[k].base)'
  <2>1. CASE k \in DOMAIN symbols
    <3>1. symbols'[k] = symbols[k]
      BY <1>3, <2>1, AppendFacts
    <3>2. PICK b : b = symbols[k].base
      OBVIOUS
    <3>3. Given(b)'
      BY <1>3, <1>10, <2>1, <3>2 DEF BoundaryInv
    <3>. QED
      BY <3>1, <3>2, <3>3 DEF Given
  <2>2. CASE k \notin DOMAIN symbols
    <3>1. symbols' = Append(symbols, e)
      BY <1>3, <1>11, <2>2
    <3>2. symbols'[k] = e
      BY <1>3, <1>11, <2>2, <3>1, AppendFacts
    <3>3. n \in 1 .. index' - 1
      BY <1>3, <1>4
    <3>. QED
      BY <1>2, <1>3, <3>2, <3>3 DEF Given
  <2>. QED
    BY <2>1, <2>2
<1>. QED
  BY <1>3, <1>7, <1>9, <1>11 DEF BoundaryInv

\* What the scan and the sweep add.
LEMMA AnalysisExtends ==
  ASSUME TypeOK, ScanWord \/ AnalyzeHere
  PROVE  /\ Extends
         /\ ScanWord => LET word == image.code[base + data] IN
              \A t : word.op = "call" /\ t = word.target /\ Covers(Sections[section], t) => Known(t)'
<1>1. CASE ScanWord
  <2> DEFINE word == image.code[base + data]
  <2>1. /\ word \in Word /\ section \in DOMAIN Sections
    BY <1>1, CursorFacts DEF ScanWord, TypeOK
  <2>2. PICK t \in Int : t = word.target
    BY <2>1 DEF Word
  <2>3. Within(t) <=> Covers(Sections[section], t)
    BY DEF Within, Covers
  <2>4. CASE word.op = "call" /\ Within(t) /\ ~Known(t)
    <3>1. t \in Span(section)
      BY <2>1, <2>2, <2>4, SectionFacts DEF Within, Span
    <3>2. t \in Addresses
      BY <2>1, <3>1, SectionFacts
    <3>3. PICK e \in Extent : e = Analyzed(t) /\ e.base = t /\ e.size > 0
      BY <3>2, AnalyzedType, ImageFacts
    <3>4. symbols' = Append(symbols, e)
      BY <1>1, <2>2, <2>4, <3>3 DEF ScanWord, Emplace
    <3>5. Extends
      BY <2>4, <3>3, <3>4 DEF Extends
    <3>6. Known(e.base)'
      BY <3>3, <3>4, AppendKept DEF TypeOK
    <3>7. Known(t)'
      BY <3>3, <3>6
    <3>8. ~AnalyzeHere
      BY <1>1 DEF ScanWord, AnalyzeHere, Sweeping
    <3>. QED
      BY <2>2, <3>5, <3>7, <3>8
  <2>5. CASE ~(word.op = "call" /\ Within(t) /\ ~Known(t))
    <3>1. symbols' = symbols
      BY <1>1, <2>2, <2>5 DEF ScanWord
    <3>2. Known(t) => Known(t)'
      BY <3>1 DEF Known, Candidates
    <3>. QED
      BY <2>2, <2>3, <2>5, <3>1, <3>2 DEF Extends
  <2>. QED
    BY <2>4, <2>5
<1>2. CASE AnalyzeHere
  <2>1. base \in Addresses
    BY <1>2, CursorFacts, SectionFacts DEF AnalyzeHere, Sweeping, TypeOK
  <2>2. PICK e \in Extent : e = Analyzed(base) /\ e.base = base /\ e.size > 0
    BY <2>1, AnalyzedType, ImageFacts
  <2>3. symbols' = Append(symbols, e) /\ ~Known(e.base) /\ pc # "scan"
    BY <1>2, <2>2 DEF AnalyzeHere, Emplace, Sweeping
  <2>. QED
    BY <2>2, <2>3 DEF Extends, ScanWord
<1>. QED
  BY <1>1, <1>2

LEMMA CallsKept ==
  ASSUME \A b : Known(b) => Known(b)', image' = image
  PROVE  \A k, n : CallsKnown(k, n) => CallsKnown(k, n)'
BY DEF CallsKnown

LEMMA StepBoundary == TypeOK /\ BoundaryInv /\ [Next]_vars => BoundaryInv'
<1> SUFFICES ASSUME TypeOK, BoundaryInv, [Next]_vars PROVE BoundaryInv'
  OBVIOUS
<1>1. CASE UNCHANGED vars
  BY <1>1 DEF vars, BoundaryInv, WellFormed, PdataSettled, Settled, Given, Known, Candidates
<1>2. CASE AddGiven
  BY <1>2, AddGivenBoundary
<1>3. CASE EndGiven
  BY <1>3, EndGivenBoundary
<1>4. CASE AddPdata
  BY <1>4, AddPdataBoundary
<1>5. CASE EndPdata
  BY <1>5, BoundaryKept DEF EndPdata, EnterSection, Extends
<1>6. CASE ScanWord
  BY <1>6, AnalysisExtends, BoundaryKept DEF ScanWord
<1>7. CASE AnalyzeHere
  BY <1>7, AnalysisExtends, BoundaryKept DEF AnalyzeHere, Sweeping
<1>8. CASE EndScan \/ SkipInvalid \/ SkipKnown
  BY <1>8, BoundaryKept DEF EndScan, SkipInvalid, SkipKnown, Sweeping, Extends
<1>9. CASE EndSweep
  BY <1>9, BoundaryKept DEF EndSweep, EnterSection, Extends
<1>10. CASE Terminated
  BY <1>1, <1>10 DEF Terminated
<1>. QED
  BY <1>1, <1>2, <1>3, <1>4, <1>5, <1>6, <1>7, <1>8, <1>9, <1>10 DEF Next

\* Entering a section when the calls of all earlier ones are known.
LEMMA EnterSectionCalls ==
  ASSUME TypeOK, NEW k \in Nat, EnterSection(k), UNCHANGED <<image, symbols>>,
         \A l \in DOMAIN Sections : l < k => CallsKnown(l, Sections[l].size),
         DOMAIN Sections = 1 .. k - 1 \/ k \in DOMAIN Sections
  PROVE  CallInv'
<1>1. \A l, n : CallsKnown(l, n) => CallsKnown(l, n)'
  <2>1. \A b : Known(b) => Known(b)'
    BY DEF Known, Candidates
  <2>. QED
    BY <2>1, CallsKept
<1>2. section' = k /\ data' = 0
  BY DEF EnterSection
<1>3. CASE k \in DOMAIN Sections
  <2>1. pc' = "scan"
    BY <1>3 DEF EnterSection
  <2>2. CallsKnown(k, 0)'
    BY <1>3, SectionFacts DEF CallsKnown, Span
  <2>. QED
    BY <1>1, <1>2, <1>3, <2>1, <2>2 DEF CallInv, CallsKnown
<1>4. CASE DOMAIN Sections = 1 .. k - 1
  <2>1. k \notin DOMAIN Sections
    BY <1>4
  <2>2. pc' = "done"
    BY <2>1 DEF EnterSection
  <2>3. \A l \in DOMAIN Sections : l < k
    BY <1>4
  <2>. QED
    BY <1>1, <1>2, <2>2, <2>3 DEF CallInv
<1>. QED
  BY <1>3, <1>4

LEMMA StepCalls == TypeOK /\ CallInv /\ [Next]_vars => CallInv'
<1> SUFFICES ASSUME TypeOK, CallInv, [Next]_vars PROVE CallInv'
  OBVIOUS
<1>1. ASSUME UNCHANGED <<image, symbols>> PROVE \A k, n : CallsKnown(k, n) => CallsKnown(k, n)'
  <2>1. \A b : Known(b) => Known(b)'
    BY <1>1 DEF Known, Candidates
  <2>. QED
    BY <1>1, <2>1, CallsKept
<1>2. CASE AddGiven \/ EndGiven \/ AddPdata
  <2>1. pc' \in {"given", "pdata"}
    BY <1>2 DEF AddGiven, EndGiven, AddPdata
  <2>. QED
    BY <2>1 DEF CallInv
<1>3. CASE EndPdata
  <2>1. DOMAIN Sections = 1 .. Len(Sections) /\ Len(Sections) \in Nat
    BY DiscoveryAssumption
  <2>2. 1 \in DOMAIN Sections \/ DOMAIN Sections = 1 .. 1 - 1
    BY <2>1
  <2>3. \A l \in DOMAIN Sections : ~(l < 1)
    BY <2>1
  <2>. QED
    BY <1>3, <2>2, <2>3, EnterSectionCalls DEF EndPdata
<1>4. CASE ScanWord
  <2>1. \A k, n : CallsKnown(k, n) => CallsKnown(k, n)'
    BY <1>4, AnalysisExtends, ExtendsKeeps, CallsKept DEF ScanWord
  <2>2. /\ image' = image /\ pc = "scan" /\ pc' = "scan" /\ section' = section
        /\ data' = data + 1 /\ section \in DOMAIN Sections /\ data \in Nat
        /\ base = Sections[section].base
    BY <1>4 DEF ScanWord, TypeOK
  <2>3. PICK k \in DOMAIN Sections, n \in Nat : k = section /\ n = data
    BY <2>2
  <2>4. CallsKnown(k, n)'
    BY <2>1, <2>2, <2>3 DEF CallInv
  <2>5. ASSUME NEW a \in Span(k), a < Sections[k].base + (n + 1), image.code[a].op = "call",
               Covers(Sections[k], image.code[a].target)
        PROVE  Known(image.code[a].target)'
    <3>1. a < Sections[k].base + n \/ a = Sections[k].base + n
      <4>1. Sections[k].base \in Nat /\ a \in Nat
        BY SectionFacts
      <4>. QED
        BY <2>5, <4>1
    <3>2. CASE a < Sections[k].base + n
      BY <2>2, <2>4, <2>5, <3>2 DEF CallsKnown
    <3>3. CASE a = Sections[k].base + n
      <4>1. PICK t : t = image.code[a].target
        OBVIOUS
      <4>2. Known(t)'
        BY <1>4, <2>2, <2>3, <2>5, <3>3, <4>1, AnalysisExtends
      <4>. QED
        BY <2>2, <4>1, <4>2
    <3>. QED
      BY <3>1, <3>2, <3>3
  <2>6. CallsKnown(k, n + 1)'
    BY <2>2, <2>5 DEF CallsKnown
  <2>7. ASSUME NEW l \in DOMAIN Sections, l < section PROVE CallsKnown(l, Sections[l].size)'
    BY <2>1, <2>2, <2>7 DEF CallInv
  <2>8. CallsKnown(section, data)'
    BY <2>2, <2>3, <2>6 DEF CallsKnown
  <2>. QED
    BY <2>2, <2>7, <2>8 DEF CallInv, CallsKnown
<1>5. CASE EndScan
  <2>1. /\ UNCHANGED <<image, symbols, section>> /\ pc = "scan" /\ pc' = "sweep"
        /\ section \in DOMAIN Sections /\ data >= Sections[section].size /\ data \in Nat
    BY <1>5 DEF EndScan, TypeOK
  <2>2. CallsKnown(section, Sections[section].size)
    <3>1. \A a \in Span(section) :
            a < Sections[section].base + Sections[section].size => a < Sections[section].base + data
      BY <2>1, SectionFacts DEF Span
    <3>. QED
      BY <2>1, <3>1 DEF CallInv, CallsKnown
  <2>3. ASSUME NEW l \in DOMAIN Sections, l < section \/ l = section
        PROVE  CallsKnown(l, Sections[l].size)
    BY <2>1, <2>2, <2>3 DEF CallInv
  <2>. QED
    BY <1>1, <2>1, <2>3 DEF CallInv
<1>6. CASE SkipInvalid \/ SkipKnown \/ AnalyzeHere
  <2>1. /\ image' = image /\ pc = "sweep" /\ pc' = "sweep" /\ section' = section
    BY <1>6 DEF SkipInvalid, SkipKnown, AnalyzeHere, Sweeping
  <2>2. \A b : Known(b) => Known(b)'
    BY <1>6, AnalysisExtends, ExtendsKeeps DEF SkipInvalid, SkipKnown, Extends
  <2>3. \A k, n : CallsKnown(k, n) => CallsKnown(k, n)'
    BY <2>1, <2>2, CallsKept
  <2>. QED
    BY <2>1, <2>3 DEF CallInv
<1>7. CASE EndSweep
  <2>1. /\ section \in DOMAIN Sections /\ DOMAIN Sections = 1 .. Len(Sections)
        /\ Len(Sections) \in Nat /\ pc = "sweep"
    BY <1>7, SectionFacts DEF EndSweep, TypeOK
  <2>2. section + 1 \in Nat
        /\ (section + 1 \in DOMAIN Sections \/ DOMAIN Sections = 1 .. (section + 1) - 1)
    BY <2>1
  <2>3. \A l \in DOMAIN Sections : l < section + 1 => l < section \/ l = section
    BY <2>1
  <2>4. \A l \in DOMAIN Sections : l < section + 1 => CallsKnown(l, Sections[l].size)
    BY <2>1, <2>3 DEF CallInv
  <2>5. PICK k \in Nat : k = section + 1
    BY <2>2
  <2>6. EnterSection(k)
    BY <1>7, <2>5 DEF EndSweep
  <2>. QED
    BY <1>7, <2>2, <2>4, <2>5, <2>6, EnterSectionCalls DEF EndSweep
<1>8. CASE UNCHANGED vars
  BY <1>8 DEF vars, CallInv, CallsKnown, Known, Candidates
<1>9. CASE Terminated
  BY <1>8, <1>9 DEF Terminated
<1>. QED
  BY <1>2, <1>3, <1>4, <1>5, <1>6, <1>7, <1>8, <1>9 DEF Next

LEMMA InitBoundary == Init => BoundaryInv /\ CallInv
<1> SUFFICES ASSUME Init PROVE BoundaryInv /\ CallInv
  OBVIOUS
<1>1. image \in Image /\ image.given \in Seq(Extent)
  BY DiscoveryAssumption DEF Init, Image
<1>2. \A i \in DOMAIN image.given : ~(i < 1)
  BY <1>1
<1>. QED
  BY <1>2 DEF Init, BoundaryInv, CallInv, Given

-----------------------------------------------------------------------------
(* Theorems.                                                               *)

LEMMA InvariantHolds == Spec => [](Inv /\ UniqueInv)
<1>1. Inv /\ UniqueInv /\ [Next]_vars => (Inv /\ UniqueInv)'
  BY StepInv, StepUnique DEF Inv
<1>. QED
  BY <1>1, InitInv, PTL DEF Spec

\* The analysis keeps its types, and its two cursors, an address and an
\* offset into the section's data, stay together.
THEOREM TypeCorrect == Spec => []TypeOK
BY InvariantHolds, PTL DEF Inv

\* Whatever the boundaries that are given and whatever the analysis answers,
\* every word of every code section ends up in a function, in an import or in
\* a run that the TOML file declares invalid.
THEOREM NoCodeIsLost == Spec => []CodeIsCovered
BY InvariantHolds, PTL DEF Inv, CoverInv

\* With usable given boundaries, no two functions begin at one address.
THEOREM NoFunctionTwice == Spec => []UniqueFunctions
BY InvariantHolds, PTL DEF UniqueInv

LEMMA BoundaryHolds == Spec => [](Inv /\ BoundaryInv /\ CallInv)
<1>1. Inv /\ BoundaryInv /\ CallInv /\ [Next]_vars => (Inv /\ BoundaryInv /\ CallInv)'
  BY StepInv, StepBoundary, StepCalls DEF Inv
<1>. QED
  BY <1>1, InitInv, InitBoundary, PTL DEF Spec

\* A boundary of the TOML file is the one that is used wherever its address is
\* looked up, however it overlaps .pdata, calls or other functions; and so is
\* one of .pdata unless an earlier table or entry has its address.
THEOREM BoundariesAreKept == Spec => []GivenBoundariesWin
<1>1. Inv /\ BoundaryInv => GivenBoundariesWin
  <2> SUFFICES ASSUME Inv, BoundaryInv, pc = "done", WellFormed PROVE GivenBoundariesWin
    BY DEF GivenBoundariesWin
  <2>1. \A x : Settled(x) => Found(x.base) = x
    BY SettledIsFound DEF Inv, TypeOK
  <2>2. \A i \in DOMAIN image.given : Settled(image.given[i])
    BY DEF BoundaryInv
  <2>3. \A i \in DOMAIN image.pdata : PdataSettled(i)
    BY DEF BoundaryInv
  <2>. QED
    BY <2>1, <2>2, <2>3 DEF GivenBoundariesWin, PdataSettled
<1>. QED
  BY <1>1, BoundaryHolds, PTL

\* No call inside a section is printed as a comment for want of a symbol,
\* whatever the given boundaries leave out.
THEOREM CallsResolve == Spec => []LocalCallsResolve
<1>1. Inv /\ CallInv => LocalCallsResolve
  <2> SUFFICES ASSUME CallInv, pc = "done", NEW k \in DOMAIN Sections, NEW a \in Span(k),
                      image.code[a].op = "call", Covers(Sections[k], image.code[a].target)
               PROVE  Known(image.code[a].target)
    BY DEF LocalCallsResolve, Span
  <2>1. CallsKnown(k, Sections[k].size)
    BY DEF CallInv
  <2>2. a < Sections[k].base + Sections[k].size
    BY SectionFacts DEF Span
  <2>. QED
    BY <2>1, <2>2 DEF CallsKnown
<1>. QED
  BY <1>1, BoundaryHolds, PTL
=============================================================================
