---------------------------- MODULE MCTranslation ----------------------------
(***************************************************************************)
(* Instances of Translation: functions in which one word is any            *)
(* instruction, the others are of a few kinds and the last one ends the    *)
(* function; and functions with jumps through the count register, with     *)
(* every listing of their jump tables.                                     *)
(***************************************************************************)
EXTENDS Translation

MCConditions == {{"lt"}, {"gt", "so"}, {"eq"}, {"eq", "so"}}

\* 0 is the function itself, -1 is in front of it, the others are behind it.
MCFunctions == {-1, 0, 5, 6}

MCElided == {6}

Any ==
       [op : {"compute", "bctrl", "bnectr", "blr", "bdzlr"}]
  \cup [op : {"b"}, target : {-1, 0, 2, 5, 6}]
  \cup [op : {"bl"}, target : {0, 5, 6}]
  \cup [op : {"bc"}, mnemonic : CondMnemonics, target : {1, 5}]
  \cup [op : {"bc"}, mnemonic : {"bne"}, target : {-1, 6}]
  \cup [op : {"bclr"}, mnemonic : CondMnemonics]
  \cup [op : {"bd"}, mnemonic : CountMnemonics \ {"bdzf"}, bit : {"eq"}, target : {0, 2}]
  \cup [op : {"bd"}, mnemonic : {"bdzf"}, bit : {"lt", "so"}, target : {1}]

Common == {[op |-> "compute"], [op |-> "bl", target |-> 5]}

Ends == {[op |-> "blr"], [op |-> "b", target |-> 0]}

Last == Length - 1

OneOfAny ==
  {[code |-> [w \in Words |-> IF w = Last THEN end ELSE IF w = place THEN any ELSE others[w]],
    tables |-> <<>>] :
     any \in Any, place \in 0 .. Last - 1, end \in Ends, others \in [0 .. Last - 1 -> Common]}

LabelSets == {<<Last, 0>>, <<1>>}

Jumping == [op : {"compute"}] \cup [op : {"bctr"}, labels : LabelSets \cup {<<>>}]

Listings(c) ==
  LET Labelled == {c[w].labels : w \in {v \in Words : c[v].op = "bctr"}} \ {<<>>}
  IN  UNION {[B -> Labelled] : B \in SUBSET Words}

Jumps ==
  {p \in UNION {{[code |-> c, tables |-> t] : t \in Listings(c)} : c \in [Words -> Jumping]} :
     WellFormed(p)}

\* The addend of a switch without a case below zero.
MCSubtract == {0, -1}

MCPrograms == OneOfAny \cup Jumps
=============================================================================
