------------------------ MODULE MCFunctionDiscovery ------------------------
(***************************************************************************)
(* Instances of FunctionDiscovery: two code sections, every placement of   *)
(* calls and of runs that are no code, and a few tables of boundaries.     *)
(***************************************************************************)
EXTENDS FunctionDiscovery

CONSTANTS Calls \* targets of calls

\* A section of four words, a gap, and a section of two.
MCSections == <<[base |-> 1, size |-> 4], [base |-> 6, size |-> 2]>>

MCOther == [op |-> "other", target |-> 0, size |-> 1]

MCInvalid(n) == [op |-> "invalid", target |-> 0, size |-> n]

MCCall(t) == [op |-> "call", target |-> t, size |-> 1]

\* Calls at every other word and runs that are no code in between.
MCCodes ==
  {c \in [Addresses -> {MCOther, MCInvalid(2)} \cup {MCCall(t) : t \in Calls}] :
     \A a \in Addresses :
       IF a \in {1, 3, 6} THEN c[a].op # "invalid" ELSE c[a].op # "call"}

\* What the function analyzer may answer.
MCAnalyzed ==
  {[a \in Addresses |-> n] : n \in {1, 2}} \cup {[a \in Addresses |-> 1 + (a % 2)]}

E(address, size) == [base |-> address, size |-> size]

\* Tables: nothing; an import; a helper family with an overlapping .pdata
\* entry; a function of the TOML file that .pdata contradicts; .pdata with a
\* repeated and with an empty entry.
MCTables ==
  {[imports |-> <<>>, given |-> <<>>, pdata |-> <<>>],
   [imports |-> <<E(6, 2)>>, given |-> <<>>, pdata |-> <<E(1, 2)>>],
   [imports |-> <<>>, given |-> Helpers(1, 2, 1, 1), pdata |-> <<E(3, 2)>>],
   [imports |-> <<>>, given |-> <<E(2, 3)>>, pdata |-> <<E(2, 1), E(4, 1)>>],
   [imports |-> <<>>, given |-> <<>>, pdata |-> <<E(2, 2), E(2, 1)>>],
   [imports |-> <<>>, given |-> <<>>, pdata |-> <<E(2, 0)>>]}

MCImages ==
  {[imports |-> t.imports, given |-> t.given, pdata |-> t.pdata,
    code |-> c, analyzed |-> f] : t \in MCTables, c \in MCCodes, f \in MCAnalyzed}
=============================================================================
