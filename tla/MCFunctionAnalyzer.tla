------------------------- MODULE MCFunctionAnalyzer -------------------------
(***************************************************************************)
(* Instances of FunctionAnalyzer: every instruction stream of a few words. *)
(***************************************************************************)
EXTENDS FunctionAnalyzer

CONSTANTS Targets,   \* where branches may go
          Kinds      \* the kinds of word a stream is made of

MCMemoryStart == -1

MCTargets == {-1, 0, 1, 2, 3, 5}

Branches(op) == {[op |-> op, target |-> t] : t \in Targets}

Plain(op) == [op |-> op, target |-> 0]

MCInstructions ==
  {Plain(op) : op \in Kinds \ {"bc", "b"}}
    \cup UNION {Branches(op) : op \in Kinds \cap {"bc", "b"}}

\* The word before the entry ends the function it belongs to, as the last
\* word of a function does.
MCBefore == {Plain("return"), [op |-> "b", target |-> 0]}

\* The words of a stream p that control may reach from offset 0.
MCNext(p, o) ==
  {t \in {o + 1, p[o].target} :
     \/ t = o + 1 /\ p[o].op \in {"straight", "bc", "condreturn"}
     \/ t = p[o].target /\ p[o].op \in {"bc", "b"}}

MCReached(p) ==
  LET step(S) == S \cup {t \in Offsets : \E o \in S : t \in MCNext(p, o)}
  IN  step(step(step(step(step({0})))))

\* Words that control cannot reach are all the same word, but for word 1,
\* which is read before the walk.
MCTidy(p) ==
  \A o \in Offsets \ (MCReached(p) \cup {1}) : p[o] = Plain("return")

\* The word behind the section leads nowhere but to the entry, and at most one
\* conditional branch leads before it.
MCBehind == {p \in MCInstructions : p.target = 0}

MCPrograms ==
  {p \in [Offsets -> MCInstructions] :
     /\ \A o \in MemoryStart .. -1 : p[o] \in MCBefore
     /\ p[CodeWords] \in MCBehind
     /\ \A o, q \in Offsets :
          (\A w \in {o, q} : p[w].op = "bc" /\ p[w].target < 0) => o = q
     /\ MCTidy(p)}
=============================================================================
