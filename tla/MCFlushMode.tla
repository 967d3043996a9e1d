----------------------------- MODULE MCFlushMode -----------------------------
(***************************************************************************)
(* Instances of FlushMode: every function of a few words over a set of     *)
(* words that has one of each kind, every branch target, and hooks that    *)
(* fall through, jump and return.                                          *)
(***************************************************************************)
EXTENDS FlushMode

NoHook == [place |-> "none", fpscr |-> FALSE, goesOn |-> TRUE,
           returns |-> FALSE, jumps |-> {}]

Plain(kind) == [kind |-> kind, targets |-> {}, hook |-> NoHook]

\* return_on_true and jump_address_on_false
HookedBefore(kind, w) ==
  [kind |-> kind, targets |-> {},
   hook |-> [place |-> "before", fpscr |-> TRUE, goesOn |-> FALSE,
             returns |-> TRUE, jumps |-> {w}]]

\* jump_address_on_true with after_instruction
HookedAfter(kind, w) ==
  [kind |-> kind, targets |-> {},
   hook |-> [place |-> "after", fpscr |-> TRUE, goesOn |-> TRUE,
             returns |-> FALSE, jumps |-> {w}]]

MCInstructions ==
  {Plain(kind) : kind \in Kinds \ {"jump", "cond"}}
    \cup {[Plain(kind) EXCEPT !.targets = {w}] : kind \in {"jump", "cond"}, w \in Words}
    \cup {[Plain("jump") EXCEPT !.targets = Words]}
    \cup {HookedBefore("int", 1)}
    \cup {HookedAfter(kind, w) : kind \in {"fpu", "vmx"}, w \in {0, 1}}

MCPrograms == [Words -> MCInstructions]
=============================================================================
