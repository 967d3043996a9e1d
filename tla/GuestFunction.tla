--------------------------- MODULE GuestFunction ---------------------------
(***************************************************************************)
(* What the processor does in one invocation of a guest function, as far   *)
(* as control goes: which word is next, which functions are called, and    *)
(* when the function returns.  This is what recompiled code promises; the  *)
(* module Translation is what the recompiler makes of it.                  *)
(*                                                                         *)
(* Addresses are counted in words from the function's first word.  A word  *)
(* is a record: op with the fields that op needs, see Instruction in       *)
(* Translation.                                                            *)
(***************************************************************************)
EXTENDS Integers, Sequences

CONSTANTS
  Length,     \* words of the function
  Modulus,    \* values of the count register
  Conditions, \* values of the condition field: the bits that are set
  Elided,     \* functions that only move registers the caller keeps itself
  Codes       \* the functions

VARIABLES
  code,   \* the function, fixed
  at,     \* "running" or "returned"
  word,   \* the next word
  cr,     \* the condition field
  ctr,    \* the count register
  called  \* the last call, and the parity of the number of calls

vars == <<code, at, word, cr, ctr, called>>

Init ==
  /\ code \in Codes
  /\ at = "running"
  /\ word = 0
  /\ cr \in Conditions
  /\ ctr \in 0 .. Modulus - 1
  /\ called = [to |-> 0, parity |-> 0]

At(ops) == at = "running" /\ code[word].op \in ops

After(t) == IF t \in Elided THEN called ELSE [to |-> t, parity |-> 1 - called.parity]

\* Control passes to address t: in this function, or in another one, which
\* returns to this one's caller.
Transfer(t) ==
  IF t \in 0 .. Length - 1
  THEN word' = t /\ UNCHANGED <<at, called>>
  ELSE at' = "returned" /\ called' = After(t) /\ UNCHANGED word

LeaveWith(calls) == at' = "returned" /\ called' = calls /\ UNCHANGED word

\* Whether a branch on the condition field is taken.
Taken(mnemonic) ==
  CASE mnemonic = "beq" -> "eq" \in cr
    [] mnemonic = "bne" -> "eq" \notin cr
    [] mnemonic = "blt" -> "lt" \in cr
    [] mnemonic = "bge" -> "lt" \notin cr
    [] mnemonic = "bgt" -> "gt" \in cr
    [] mnemonic = "ble" -> "gt" \notin cr
    [] mnemonic = "bso" -> "so" \in cr
    [] mnemonic = "bns" -> "so" \notin cr

\* Whether a branch that leaves n in the count register is taken.
TakenOnCount(mnemonic, bit, n) ==
  CASE mnemonic = "bdz"   -> n = 0
    [] mnemonic = "bdnz"  -> n # 0
    [] mnemonic = "bdnzf" -> n # 0 /\ bit \notin cr
    [] mnemonic = "bdnzt" -> n # 0 /\ bit \in cr
    [] mnemonic = "bdzf"  -> n = 0 /\ bit \notin cr

\* Anything may be computed.
Compute ==
  /\ At({"compute"})
  /\ cr' \in Conditions
  /\ ctr' \in 0 .. Modulus - 1
  /\ Transfer(word + 1)
  /\ UNCHANGED code

Branch ==
  /\ At({"b"})
  /\ Transfer(code[word].target)
  /\ UNCHANGED <<code, cr, ctr>>

CondBranch ==
  /\ At({"bc"})
  /\ Transfer(IF Taken(code[word].mnemonic) THEN code[word].target ELSE word + 1)
  /\ UNCHANGED <<code, cr, ctr>>

CondReturn ==
  /\ At({"bclr"})
  /\ IF Taken(code[word].mnemonic) THEN LeaveWith(called) ELSE Transfer(word + 1)
  /\ UNCHANGED <<code, cr, ctr>>

CountBranch ==
  /\ At({"bd"})
  /\ ctr' = (ctr + Modulus - 1) % Modulus
  /\ Transfer(IF TakenOnCount(code[word].mnemonic, code[word].bit, ctr')
              THEN code[word].target ELSE word + 1)
  /\ UNCHANGED <<code, cr>>

CountReturn ==
  /\ At({"bdzlr"})
  /\ ctr' = (ctr + Modulus - 1) % Modulus
  /\ IF ctr' = 0 THEN LeaveWith(called) ELSE Transfer(word + 1)
  /\ UNCHANGED <<code, cr>>

\* A callee comes back with any condition and count.
BranchAndLink ==
  /\ At({"bl", "bctrl"})
  /\ called' = After(IF code[word].op = "bl" THEN code[word].target ELSE ctr)
  /\ cr' \in Conditions
  /\ ctr' \in 0 .. Modulus - 1
  /\ word' = word + 1
  /\ UNCHANGED <<code, at>>

\* The jump of a jump table: the compare before it lets only an index through
\* that has a label.
TableJump ==
  /\ At({"bctr"})
  /\ \E i \in DOMAIN code[word].labels : Transfer(code[word].labels[i])
  /\ UNCHANGED <<code, cr, ctr>>

BranchToCount ==
  /\ At({"bctr", "bnectr"})
  /\ code[word].op = "bctr" => code[word].labels = <<>>
  /\ IF code[word].op = "bctr" \/ Taken("bne")
     THEN LeaveWith(After(ctr)) ELSE Transfer(word + 1)
  /\ UNCHANGED <<code, cr, ctr>>

Return ==
  /\ At({"blr"})
  /\ LeaveWith(called)
  /\ UNCHANGED <<code, cr, ctr>>

Next ==
  \/ Compute
  \/ Branch \/ CondBranch \/ CountBranch \/ TableJump \/ BranchToCount
  \/ BranchAndLink
  \/ CondReturn \/ CountReturn \/ Return

Spec == Init /\ [][Next]_vars
=============================================================================
