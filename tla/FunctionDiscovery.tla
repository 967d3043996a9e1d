------------------------- MODULE FunctionDiscovery -------------------------
(***************************************************************************)
(* Recompiler::Analyse: which functions are recompiled, and where each one *)
(* begins and ends.  Boundaries come, in this order, from the register     *)
(* restore and save helpers and the functions of the TOML file, from the   *)
(* .pdata section, from the targets of calls, and from a linear sweep that *)
(* analyses whatever is left.  image.symbols remembers every boundary and  *)
(* is what the recompiler asks when it prints a call.                      *)
(*                                                                         *)
(* Addresses and sizes are counted in instruction words.                   *)
(***************************************************************************)
EXTENDS Integers, Sequences, FiniteSets

CONSTANTS
  Sections, \* the code sections in address order, [base, size]
  Images    \* the inputs: an executable and its TOML file

Addresses == UNION {s.base .. s.base + s.size - 1 : s \in {Sections[k] : k \in DOMAIN Sections}}

Extent == [base : Nat, size : Nat]

\* "call": bl; "invalid": its value is a key of invalidInstructions, and size
\* words are to be skipped; "other": anything else.
Word == [op : {"call", "invalid", "other"}, target : Int, size : Nat \ {0}]

\* One family of helpers, such as __restgprlr_14 to __restgprlr_31: an entry
\* for each register, stride words apart, that falls through the later ones
\* into a common tail.
Helpers(first, count, stride, tail) ==
  [i \in 1 .. count |-> [base |-> first + (i - 1) * stride,
                         size |-> (count - i + 1) * stride + tail]]

\* given: the helpers, then config.functions in the order of their hash map;
\* analyzed: what Function::Analyze answers at an address (FunctionAnalyzer:
\* at least one word, at most one word past the section).
Image == [imports : Seq(Extent), given : Seq(Extent), pdata : Seq(Extent),
          code : [Addresses -> Word], analyzed : [Addresses -> Nat \ {0}]]

ASSUME DiscoveryAssumption ==
  /\ Sections \in Seq([base : Nat, size : Nat \ {0}])
  /\ \A k, l \in DOMAIN Sections :
       k < l => Sections[k].base + Sections[k].size <= Sections[l].base
  /\ Images \subseteq Image

VARIABLES
  image,     \* the input, fixed
  pc,        \* "given", "pdata", "scan", "sweep" or "done"
  index,     \* of the next entry of given or pdata
  section,   \* index of the section that is scanned or swept
  data,      \* data - section.data
  base,      \* the local variable base
  functions, \* sequence of extents
  symbols    \* image.symbols in the order of insertion

vars == <<image, pc, index, section, data, base, functions, symbols>>

-----------------------------------------------------------------------------
(* The symbol table.                                                       *)

\* A faulty lookup that looks for a symbol around the address.
Enclosing(address) ==
  {i \in DOMAIN symbols :
     symbols[i].base <= address /\ address < symbols[i].base + symbols[i].size}

\* A faulty lookup that finds empty symbols.
Beginning(address) == {i \in DOMAIN symbols : symbols[i].base = address}

\* The symbols among which SymbolTable::find chooses.  equal_range yields
\* those whose address is the one asked for, and an empty symbol is passed
\* over.
Candidates(address) ==
  {i \in DOMAIN symbols : symbols[i].base = address /\ symbols[i].size > 0}

Known(address) == Candidates(address) # {}

\* find: all candidates are equally close, and the last inserted one wins.
Found(address) ==
  symbols[CHOOSE i \in Candidates(address) : \A j \in Candidates(address) : j <= i]

Emplace(extent) ==
  /\ functions' = Append(functions, extent)
  /\ symbols' = Append(symbols, extent)

-----------------------------------------------------------------------------
(* Given boundaries.                                                       *)

AddGiven ==
  /\ pc = "given"
  /\ index <= Len(image.given)
  /\ Emplace(image.given[index])
  /\ index' = index + 1
  /\ UNCHANGED <<image, pc, section, data, base>>

EndGiven ==
  /\ pc = "given"
  /\ index > Len(image.given)
  /\ pc' = "pdata"
  /\ index' = 1
  /\ UNCHANGED <<image, section, data, base, functions, symbols>>

\* A faulty variant that takes every entry.
AddEveryPdata ==
  /\ pc = "pdata"
  /\ index <= Len(image.pdata)
  /\ Emplace(image.pdata[index])
  /\ index' = index + 1
  /\ UNCHANGED <<image, pc, section, data, base>>

AddPdata ==
  /\ pc = "pdata"
  /\ index <= Len(image.pdata)
  /\ IF Known(image.pdata[index].base)
     THEN UNCHANGED <<functions, symbols>>
     ELSE Emplace(image.pdata[index])
  /\ index' = index + 1
  /\ UNCHANGED <<image, pc, section, data, base>>

\* The places of the functions that are sorted up to the one at place i.
UpTo(s, i) ==
  {j \in DOMAIN s : s[j].base < s[i].base \/ (s[j].base = s[i].base /\ j <= i)}

\* std::sort by base.  (Functions at one base keep their order here.)
Sorted(s) ==
  [n \in DOMAIN s |-> s[CHOOSE i \in DOMAIN s : Cardinality(UpTo(s, i)) = n]]

\* Section k is entered, or the sections are exhausted and the functions are
\* sorted.
EnterSection(k) ==
  /\ section' = k
  /\ data' = 0
  /\ IF k \in DOMAIN Sections
     THEN pc' = "scan" /\ base' = Sections[k].base /\ UNCHANGED functions
     ELSE pc' = "done" /\ functions' = Sorted(functions) /\ UNCHANGED base

EndPdata ==
  /\ pc = "pdata"
  /\ index > Len(image.pdata)
  /\ EnterSection(1)
  /\ UNCHANGED <<image, index, symbols>>

-----------------------------------------------------------------------------
(* One section.                                                            *)

\* A faulty variant that leaves out the last word.
WithinButLast(address) ==
  /\ Sections[section].base <= address
  /\ address < Sections[section].base + Sections[section].size - 1

Within(address) ==
  /\ Sections[section].base <= address
  /\ address < Sections[section].base + Sections[section].size

Analyzed(address) == [base |-> address, size |-> image.analyzed[address]]

\* A faulty variant that analyses every call's target.
ScanEveryCall ==
  /\ pc = "scan"
  /\ data < Sections[section].size
  /\ LET word == image.code[base + data] IN
     IF word.op = "call" /\ Within(word.target)
     THEN Emplace(Analyzed(word.target))
     ELSE UNCHANGED <<functions, symbols>>
  /\ data' = data + 1
  /\ UNCHANGED <<image, pc, index, section, base>>

\* A call to an address inside the section that no symbol begins at.
ScanWord ==
  /\ pc = "scan"
  /\ data < Sections[section].size
  /\ LET word == image.code[base + data] IN
     IF word.op = "call" /\ Within(word.target) /\ ~Known(word.target)
     THEN Emplace(Analyzed(word.target))
     ELSE UNCHANGED <<functions, symbols>>
  /\ data' = data + 1
  /\ UNCHANGED <<image, pc, index, section, base>>

EndScan ==
  /\ pc = "scan"
  /\ data >= Sections[section].size
  /\ pc' = "sweep"
  /\ data' = 0
  /\ UNCHANGED <<image, index, section, base, functions, symbols>>

Advance(n) == data' = data + n /\ base' = base + n

\* The word under the cursor.
Here == image.code[Sections[section].base + data]

Sweeping == pc = "sweep" /\ data < Sections[section].size

SkipInvalid ==
  /\ Sweeping
  /\ Here.op = "invalid"
  /\ Advance(Here.size)
  /\ UNCHANGED <<image, pc, index, section, functions, symbols>>

SkipKnown ==
  /\ Sweeping
  /\ Here.op # "invalid"
  /\ Known(base)
  /\ Advance(Found(base).size)
  /\ UNCHANGED <<image, pc, index, section, functions, symbols>>

AnalyzeHere ==
  /\ Sweeping
  /\ Here.op # "invalid"
  /\ ~Known(base)
  /\ Emplace(Analyzed(base))
  /\ Advance(image.analyzed[base])
  /\ UNCHANGED <<image, pc, index, section>>

EndSweep ==
  /\ pc = "sweep"
  /\ data >= Sections[section].size
  /\ EnterSection(section + 1)
  /\ UNCHANGED <<image, index, symbols>>

Terminated == pc = "done" /\ UNCHANGED vars

Init ==
  /\ image \in Images
  /\ pc = "given"
  /\ index = 1
  /\ section = 0
  /\ data = 0
  /\ base = 0
  /\ functions = <<>>
  /\ symbols = image.imports

Next ==
  \/ AddGiven
  \/ EndGiven
  \/ AddPdata
  \/ EndPdata
  \/ ScanWord
  \/ EndScan
  \/ SkipInvalid
  \/ SkipKnown
  \/ AnalyzeHere
  \/ EndSweep
  \/ Terminated

Spec == Init /\ [][Next]_vars

FairSpec == Spec /\ WF_vars(Next)

-----------------------------------------------------------------------------
(* Properties.                                                             *)

Covers(extent, address) ==
  extent.base <= address /\ address < extent.base + extent.size

\* The type of every variable; base and data name the same word.
TypeOK ==
  /\ image \in Image
  /\ pc \in {"given", "pdata", "scan", "sweep", "done"}
  /\ index \in Nat \ {0}
  /\ section \in 0 .. Len(Sections) + 1
  /\ pc \in {"scan", "sweep"} => section \in DOMAIN Sections
  /\ data \in Nat
  /\ base \in Nat
  /\ pc = "scan" => base = Sections[section].base
  /\ pc = "sweep" => base = Sections[section].base + data
  /\ functions \in Seq(Extent)
  /\ symbols \in Seq(Extent)

\* What covers an address: a function that is recompiled, an import's thunk,
\* or a run that the TOML file declares not to be code.
Accounted(address) ==
  \/ \E i \in DOMAIN functions : Covers(functions[i], address)
  \/ \E i \in DOMAIN image.imports : Covers(image.imports[i], address)
  \/ \E a \in Addresses :
       /\ image.code[a].op = "invalid"
       /\ Covers([base |-> a, size |-> image.code[a].size], address)

\* No code is lost: when the analysis is over, every word of every code
\* section is accounted for, whatever overlaps the boundaries have.
CodeIsCovered ==
  pc = "done" => \A a \in Addresses : Accounted(a)

\* Every call to an address of the caller's own section finds a symbol to
\* call; without one the recompiler prints a comment instead of a call.
LocalCallsResolve ==
  pc = "done" =>
    \A k \in DOMAIN Sections :
      \A a \in Sections[k].base .. Sections[k].base + Sections[k].size - 1 :
        image.code[a].op = "call" /\ Covers(Sections[k], image.code[a].target) =>
          Known(image.code[a].target)

\* The given boundaries are usable: they are not empty, and those of the
\* TOML file are distinct and are no imports.
WellFormed ==
  /\ \A i \in DOMAIN image.given : image.given[i].size > 0
  /\ \A i \in DOMAIN image.pdata : image.pdata[i].size > 0
  /\ \A i, j \in DOMAIN image.given :
       image.given[i].base = image.given[j].base => i = j
  /\ \A i \in DOMAIN image.given, j \in DOMAIN image.imports :
       image.given[i].base # image.imports[j].base
  /\ \A j \in DOMAIN image.imports : image.imports[j].size > 0

\* No function is defined twice: two functions at one address would get one
\* name in the output.
UniqueFunctions ==
  WellFormed =>
    \A i, j \in DOMAIN functions : functions[i].base = functions[j].base => i = j

\* A boundary that the TOML file gives is never replaced by .pdata or by the
\* analysis, nor one of .pdata by the analysis ("the recompiler TOML file
\* allows users to manually define function boundaries", README.md:140).
GivenBoundariesWin ==
  pc = "done" /\ WellFormed =>
    /\ \A i \in DOMAIN image.given : image.given[i] = Found(image.given[i].base)
    /\ \A i \in DOMAIN image.pdata :
         \/ image.pdata[i] = Found(image.pdata[i].base)
         \/ \E j \in DOMAIN image.given : image.given[j].base = image.pdata[i].base
         \/ \E j \in DOMAIN image.imports : image.imports[j].base = image.pdata[i].base
         \/ \E j \in 1 .. i - 1 : image.pdata[j].base = image.pdata[i].base

\* The analysis ends.
Termination == <>(pc = "done")

=============================================================================
