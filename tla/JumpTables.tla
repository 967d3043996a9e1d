----------------------------- MODULE JumpTables -----------------------------
(***************************************************************************)
(* XenonAnalyse: the code sections of an image are searched for the four   *)
(* ways in which the compiler jumps through a table, the bounds check in    *)
(* front of a match tells the index and the number of labels, the labels    *)
(* are read from the table, and all is written to the TOML file that        *)
(* RecompilerConfig::Load reads.  What Translation takes for granted of     *)
(* the jump tables (its WellFormed) is what comes out here.                 *)
(***************************************************************************)
EXTENDS Integers, Sequences, FiniteSetsExt

CONSTANTS
  ScanLimit,  \* the words ScanTable looks at: 32
  Half,       \* the values of half a word: 2^16
  Images      \* records [sections, first, words, tables, bytes]

ASSUME JumpTablesAssumption ==
  /\ ScanLimit \in Nat
  /\ Half \in Nat \ {0}
  /\ \A m \in Images : /\ m.sections \in Seq([base : Nat \ {0}, size : Nat, code : BOOLEAN])
                       /\ m.sections # <<>>

VARIABLES
  image,    \* fixed: sections [base, size, code]; the instructions of words from
            \* address first on, and the bytes of tables from address tables on
  stage,    \* "scan", "write", "loaded"
  pattern,  \* the pattern being searched for, and
  section,  \* the section it is searched in,
  data,     \* from this address on
  switches, \* the tables found, in the order they are printed
  config    \* RecompilerConfig.switchTables, by base

vars == <<image, stage, pattern, section, data, switches, config>>

\* No address: nullptr, and the base of a table that was not found.
None == 0

\* What Disassemble makes of a word; of what is no instruction, nothing.
NoInstruction == [id |-> "none", operands |-> <<>>]
Disassemble(address) ==
  LET k == (address - image.first) \div 4 + 1
  IN  IF k \in DOMAIN image.words THEN image.words[k] ELSE NoInstruction
Operand(address, n) == Disassemble(address).operands[n + 1]

\* The patterns in the order of the searches.
Patterns == <<
  [type |-> "ABSOLUTE",    ids |-> <<"lis", "addi", "rlwinm", "lwzx", "mtctr", "bctr">>],
  [type |-> "COMPUTED",    ids |-> <<"lis", "addi", "lbzx", "rlwinm", "lis", "addi", "add", "mtctr">>],
  [type |-> "BYTEOFFSET",  ids |-> <<"lis", "addi", "lbzx", "lis", "addi", "add", "mtctr">>],
  [type |-> "SHORTOFFSET", ids |-> <<"lis", "addi", "rlwinm", "lhzx", "lis", "addi", "add", "mtctr">>]>>

\* The words behind the end of the section are compared like those in it.
Matches(ids, address) ==
  \A c \in DOMAIN ids : Disassemble(address + 4 * (c - 1)).id = ids[c]

\* A faulty variant: a match that ends behind the section is none.
SearchMask_Inside(from, to, ids) ==
  LET found == {a \in from .. to - 4 * Len(ids) : (a - from) % 4 = 0 /\ Matches(ids, a)}
  IN  IF found = {} THEN None ELSE Min(found)

\* The first match between two addresses.
SearchMask(from, to, ids) ==
  LET found == {a \in from .. to - 4 : (a - from) % 4 = 0 /\ Matches(ids, a)}
  IN  IF found = {} THEN None ELSE Min(found)

-----------------------------------------------------------------------------
\* A faulty variant: the nearest cmplwi on whatever field.
ScanTable_AnyField(base) ==
  LET at(i) == Disassemble(base - 4 * i)
      branches == {i \in 0 .. ScanLimit - 1 : at(i).id \in {"bgt", "bgtlr", "ble", "blelr"}}
      compares == {i \in Min(branches) + 1 .. ScanLimit - 1 : at(i).id = "cmplwi"}
  IN  IF branches = {} \/ compares = {} THEN [base |-> None]
      ELSE LET compare == at(Min(compares))
           IN  [base |-> base, r |-> compare.operands[2], count |-> compare.operands[3] + 1]

\* From the match backwards: the field of the first branch on greater or its
\* opposite, then the first cmplwi of that field.  Words in front of the
\* section are looked at, too.
ScanTable(base) ==
  LET at(i) == Disassemble(base - 4 * i)
      branches == {i \in 0 .. ScanLimit - 1 : at(i).id \in {"bgt", "bgtlr", "ble", "blelr"}}
      cr == at(Min(branches)).operands[1]
      compares == {i \in Min(branches) + 1 .. ScanLimit - 1 :
                     at(i).id = "cmplwi" /\ at(i).operands[1] = cr}
  IN  IF branches = {} \/ compares = {} THEN [base |-> None]
      ELSE LET compare == at(Min(compares))
           IN  [base |-> base, r |-> compare.operands[2], count |-> compare.operands[3] + 1]

\* What a lis and the addi behind it make.
Address(lis) == (Operand(lis, 1) * Half + Operand(lis + 4, 2)) % (Half * Half)

\* Entry i of n bytes, the first byte the highest, of the table at an address.
Entry(address, n, i) ==
  LET byte(k) == image.bytes[address - image.tables + n * i + k]
  IN  CASE n = 1 -> byte(1)
        [] n = 2 -> byte(1) * 256 + byte(2)
        [] n = 4 -> ((byte(1) * 256 + byte(2)) * 256 + byte(3)) * 256 + byte(4)

\* The label of index i.
Label(type, base, i) ==
  LET offsets == Address(base)
      Sum(a, b) == (a + b) % (Half * Half)
  IN  CASE type = "ABSOLUTE"    -> Entry(offsets, 4, i)
        [] type = "COMPUTED"    -> Sum(Address(base + 16), Entry(offsets, 1, i) * 2 ^ Operand(base + 12, 2))
        [] type = "BYTEOFFSET"  -> Sum(Address(base + 12), Entry(offsets, 1, i))
        [] type = "SHORTOFFSET" -> Sum(Address(base + 16), Entry(offsets, 2, i))

ReadTable(type, table) ==
  [base |-> table.base, r |-> table.r,
   labels |-> [i \in 1 .. table.count |-> Label(type, table.base, i - 1)]]

-----------------------------------------------------------------------------
Init ==
  /\ image \in Images
  /\ stage = "scan"
  /\ pattern = 1
  /\ section = 1
  /\ data = image.sections[1].base
  /\ switches = <<>>
  /\ config = << >>

Section == image.sections[section]

Found == IF ~Section.code THEN None
         ELSE SearchMask(data, Section.base + 4 * Section.size, Patterns[pattern].ids)

\* A match: its table, if its bounds check was found.
ScanMatch ==
  /\ stage = "scan"
  /\ \E base \in {Found} \ {None} : \E table \in {ScanTable(base)} :
       /\ IF table.base = None THEN UNCHANGED switches
          ELSE \E read \in {ReadTable(Patterns[pattern].type, table)} : switches' = Append(switches, read)
       /\ data' = base + 4
  /\ UNCHANGED <<image, stage, pattern, section, config>>

\* No match is left in the section: the next one, or the next pattern.
ScanSection ==
  /\ stage = "scan"
  /\ Found = None
  /\ IF section < Len(image.sections)
     THEN /\ section' = section + 1
          /\ data' = image.sections[section + 1].base
          /\ UNCHANGED <<stage, pattern>>
     ELSE IF pattern < Len(Patterns)
     THEN /\ pattern' = pattern + 1
          /\ section' = 1
          /\ data' = image.sections[1].base
          /\ UNCHANGED stage
     ELSE stage' = "write" /\ UNCHANGED <<pattern, section, data>>
  /\ UNCHANGED <<image, switches, config>>

\* The file is written, and RecompilerConfig::Load reads it; of two tables
\* with the same base it keeps the first.
LoadTables ==
  /\ stage = "write"
  /\ config' = [b \in {switches[i].base : i \in DOMAIN switches} |->
                  LET first == switches[Min({i \in DOMAIN switches : switches[i].base = b})]
                  IN  [r |-> first.r, labels |-> first.labels]]
  /\ stage' = "loaded"
  /\ UNCHANGED <<image, pattern, section, data, switches>>

Next == ScanMatch \/ ScanSection \/ LoadTables

Spec == Init /\ [][Next]_vars /\ WF_vars(Next)

-----------------------------------------------------------------------------
\* The addresses of a section's words.
Words(s) == {s.base + 4 * k : k \in 0 .. s.size - 1}
CodeWords == UNION {Words(image.sections[n]) : n \in {m \in DOMAIN image.sections : image.sections[m].code}}

\* A jump through a table: a pattern, and a bounds check in front of it.
IsJump(p, a) == Matches(Patterns[p].ids, a) /\ ScanTable(a).base # None
Switch(p, a) == ReadTable(Patterns[p].type, ScanTable(a))

\* Searching one pattern after another, from behind the last match on, loses
\* no jump and takes nothing else for one: what is loaded are the jumps in the
\* sections of code, each with the table that its own pattern reads, also if
\* jumps are in each other or sections overlap.
FindsEveryJump ==
  stage = "loaded" =>
    /\ DOMAIN config = {a \in CodeWords : \E p \in DOMAIN Patterns : IsJump(p, a)}
    /\ \A a \in DOMAIN config : \A p \in DOMAIN Patterns :
         IsJump(p, a) => config[a] = [r |-> Switch(p, a).r, labels |-> Switch(p, a).labels]
=============================================================================
