------------------------------ MODULE FlushMode ------------------------------
(***************************************************************************)
(* Denormal flushing in recompiled code.  The guest FPU keeps denormals,   *)
(* the guest vector unit flushes them, and both run on one host unit whose *)
(* MXCSR says which.  The recompiler tracks, while it prints a function,   *)
(* the mode every word will find (csrState in Recompiler::Recompile) and   *)
(* prints a switch only where the mode may differ; the printed code then   *)
(* runs against the cached copy of MXCSR in PPCFPSCRRegister.              *)
(*                                                                         *)
(* A behaviour prints one guest function word by word and then runs one    *)
(* invocation of it.  Its callees, its caller and its mid-asm hooks are    *)
(* the environment: they may leave any mode behind, through the cached     *)
(* copy as recompiled code does.                                           *)
(***************************************************************************)
EXTENDS Integers

CONSTANTS
  Length,       \* words of the function
  Programs,     \* the functions that may be printed
  HookMoves,    \* may a hook that is handed ctx.fpscr change the mode?
  LongJmpKeeps  \* does the host's longjmp leave MXCSR as it finds it?

Words == 0 .. Length - 1

\* What a word does, as far as the mode and control flow are concerned:
\* "int" (neither), "fpu" and "vmx" (compute), "mffs", "mtfsf", "call" (bl,
\* bctrl), "setjmp" (bl to setjmp_address), "jump" (b, or bctr with a switch
\* table: to one of targets), "cond" (conditional: to one of targets or on),
\* "condreturn" (conditional return or tail call), "return".
Kinds == {"int", "fpu", "vmx", "mffs", "mtfsf", "call", "setjmp",
          "jump", "cond", "condreturn", "return"}

\* A mid-asm hook is printed before or after the word's own code.  Depending
\* on its configuration and its answer control goes on, leaves the function
\* or jumps; fpscr says that it is handed ctx.fpscr.
Hooks == [place : {"none", "before", "after"}, fpscr : BOOLEAN,
          goesOn : BOOLEAN, returns : BOOLEAN, jumps : SUBSET Words]

Instruction == [kind : Kinds, targets : SUBSET Words, hook : Hooks]

ASSUME FlushAssumption ==
  /\ Length \in Nat \ {0}
  /\ Programs \subseteq [Words -> Instruction]
  /\ HookMoves \in BOOLEAN
  /\ LongJmpKeeps \in BOOLEAN

\* FlushMask has two bits, flush-to-zero and denormals-are-zero.
FlushMask == {"FZ", "DAZ"}

Modes == SUBSET FlushMask

\* The tracked state: known to be off, known to be on, or not known.
CSRStates == {"Unknown", "FPU", "VMX"}

Switches == {"none", "enable", "disable",
             "enableUnconditional", "disableUnconditional"}

VARIABLES
  code,     \* the function, fixed
  word,     \* the word being printed, then the word being run
  csrState, \* the tracked state after the words printed so far
  tracked,  \* tracked[w]: csrState when word w was reached
  printed,  \* printed[w]: the mode switch printed in front of word w
  at,       \* "print", "before", "switch", "body", "after", "returned"
  csr,      \* ctx.fpscr.csr & FlushMask
  host,     \* MXCSR & FlushMask
  jmpbuf    \* where setjmp was called and what it saved

vars == <<code, word, csrState, tracked, printed, at, csr, host, jmpbuf>>

printVars == <<csrState, tracked, printed>>

-----------------------------------------------------------------------------
(* Printing.                                                               *)

Branches(w, t) == code[w].kind \in {"jump", "cond"} /\ t \in code[w].targets

HookJumps(w, t) == code[w].hook.place # "none" /\ t \in code[w].hook.jumps

\* A faulty variant that forgets the jumps of mid-asm hooks.
BranchLabels == {t \in Words : \E w \in Words : Branches(w, t)}

\* The words that some goto of the printed function names.
Labels == {t \in Words : \E w \in Words : Branches(w, t) \/ HookJumps(w, t)}

\* printSetFlushMode
SwitchFor(kind, state) ==
  CASE kind = "fpu" /\ state = "Unknown" -> "disable"
    [] kind = "fpu" /\ state = "VMX"     -> "disableUnconditional"
    [] kind = "vmx" /\ state = "Unknown" -> "enable"
    [] kind = "vmx" /\ state = "FPU"     -> "enableUnconditional"
    [] OTHER -> "none"

\* A faulty variant that trusts the callee to preserve the mode.
AfterQuietCall(kind, state) ==
  CASE kind = "fpu" -> "FPU"
    [] kind = "vmx" -> "VMX"
    [] OTHER -> state

\* csrState behind a word.
After(kind, state) ==
  CASE kind = "fpu" -> "FPU"
    [] kind = "vmx" -> "VMX"
    [] kind \in {"call", "setjmp"} -> "Unknown"
    [] OTHER -> state

PrintWord ==
  /\ at = "print"
  /\ word < Length
  /\ LET state == IF word \in Labels THEN "Unknown" ELSE csrState
         kind  == code[word].kind
     IN  /\ tracked' = [tracked EXCEPT ![word] = state]
         /\ printed' = [printed EXCEPT ![word] = SwitchFor(kind, state)]
         /\ csrState' = After(kind, state)
  /\ word' = word + 1
  /\ UNCHANGED <<code, at, csr, host, jmpbuf>>

-----------------------------------------------------------------------------
(* Running.                                                                *)

\* A caller enters with any mode that its cached copy knows of.
Enter ==
  /\ at = "print"
  /\ word = Length
  /\ \E mode \in Modes : csr' = mode /\ host' = mode
  /\ word' = 0
  /\ at' = "before"
  /\ UNCHANGED <<code, printVars, jmpbuf>>

\* A faulty variant that runs on behind the last word.
GoToUnchecked(w) == word' = w /\ at' = "before"

\* Control passes to word w, or off the end of the function.
GoTo(w) ==
  IF w < Length THEN word' = w /\ at' = "before"
                ELSE word' = word /\ at' = "returned"

Leave == word' = word /\ at' = "returned"

\* A hook runs, may switch the mode if it was handed fpscr (enableFlushMode
\* and disableFlushMode are members of what it is handed), and takes one of
\* its ways out.
RunHook(next) ==
  LET hook == code[word].hook IN
  /\ IF hook.fpscr /\ HookMoves
     THEN \E mode \in {{}, FlushMask} : csr' = mode /\ host' = mode
     ELSE UNCHANGED <<csr, host>>
  /\ \/ hook.goesOn /\ next
     \/ hook.returns /\ Leave
     \/ \E w \in hook.jumps : GoTo(w)

BeforeHook ==
  /\ at = "before"
  /\ LET next == word' = word /\ at' = "switch" IN
     IF code[word].hook.place = "before"
     THEN RunHook(next)
     ELSE next /\ UNCHANGED <<csr, host>>
  /\ UNCHANGED <<code, printVars, jmpbuf>>

\* A faulty variant that marks the cached copy only.
EnableCachedOnly(switch) ==
  /\ csr' = FlushMask
  /\ UNCHANGED host

\* enableFlushMode, enableFlushModeUnconditional
EnableFlush(switch) ==
  \/ switch = "enable" /\ csr = FlushMask /\ UNCHANGED <<csr, host>>
  \/ /\ switch = "enableUnconditional" \/ csr # FlushMask
     /\ csr' = FlushMask
     /\ host' = csr'

\* disableFlushMode, disableFlushModeUnconditional
DisableFlush(switch) ==
  \/ switch = "disable" /\ csr = {} /\ UNCHANGED <<csr, host>>
  \/ /\ switch = "disableUnconditional" \/ csr # {}
     /\ csr' = {}
     /\ host' = csr'

SetFlushMode ==
  /\ at = "switch"
  /\ LET switch == printed[word] IN
     \/ switch \in {"enable", "enableUnconditional"} /\ EnableFlush(switch)
     \/ switch \in {"disable", "disableUnconditional"} /\ DisableFlush(switch)
     \/ switch = "none" /\ UNCHANGED <<csr, host>>
  /\ at' = "body"
  /\ UNCHANGED <<code, word, printVars, jmpbuf>>

Running(kinds) == at = "body" /\ code[word].kind \in kinds

Done == word' = word /\ at' = "after"

Compute ==
  /\ Running({"int", "fpu", "vmx"})
  /\ Done
  /\ UNCHANGED <<code, printVars, csr, host, jmpbuf>>

\* loadFromHost
MoveFromFPSCR ==
  /\ Running({"mffs"})
  /\ csr' = host
  /\ Done
  /\ UNCHANGED <<code, printVars, host, jmpbuf>>

\* storeFromGuest: sets the rounding mode and stores the cached copy whole.
MoveToFPSCR ==
  /\ Running({"mtfsf"})
  /\ host' = csr
  /\ Done
  /\ UNCHANGED <<code, printVars, csr, jmpbuf>>

\* A recompiled callee comes back in any mode its cached copy knows of.
Call ==
  /\ Running({"call"})
  /\ \E mode \in Modes : csr' = mode /\ host' = mode
  /\ Done
  /\ UNCHANGED <<code, printVars, jmpbuf>>

\* "env = ctx; temp = setjmp(...)"
SetJmp ==
  /\ Running({"setjmp"})
  /\ jmpbuf' = [set |-> TRUE, word |-> word, csr |-> csr, host |-> host]
  /\ Done
  /\ UNCHANGED <<code, printVars, csr, host>>

\* A callee, in any mode of its own, calls longjmp: setjmp returns again, and
\* "if (temp != 0) ctx = env" puts the cached copy back.
LongJmp ==
  /\ Running({"call"})
  /\ jmpbuf.set
  /\ csr' = jmpbuf.csr
  /\ \/ ~LongJmpKeeps /\ host' = jmpbuf.host
     \/ LongJmpKeeps /\ host' \in Modes
  /\ word' = jmpbuf.word
  /\ at' = "after"
  /\ UNCHANGED <<code, printVars, jmpbuf>>

Jump ==
  /\ Running({"jump", "cond"})
  /\ \E w \in code[word].targets : GoTo(w)
  /\ UNCHANGED <<code, printVars, csr, host, jmpbuf>>

NotTaken ==
  /\ Running({"cond", "condreturn"})
  /\ Done
  /\ UNCHANGED <<code, printVars, csr, host, jmpbuf>>

\* blr, a tail call, or falling off the end.
Return ==
  /\ Running({"return", "condreturn"})
  /\ Leave
  /\ UNCHANGED <<code, printVars, csr, host, jmpbuf>>

AfterHook ==
  /\ at = "after"
  /\ IF code[word].hook.place = "after"
     THEN RunHook(GoTo(word + 1))
     ELSE GoTo(word + 1) /\ UNCHANGED <<csr, host>>
  /\ UNCHANGED <<code, printVars, jmpbuf>>

Terminated == at = "returned" /\ UNCHANGED vars

Init ==
  /\ code \in Programs
  /\ word = 0
  /\ csrState = "Unknown"
  /\ tracked = [w \in Words |-> "Unknown"]
  /\ printed = [w \in Words |-> "none"]
  /\ at = "print"
  /\ csr = {}
  /\ host = {}
  /\ jmpbuf = [set |-> FALSE, word |-> 0, csr |-> {}, host |-> {}]

Next ==
  \/ PrintWord
  \/ Enter
  \/ BeforeHook
  \/ SetFlushMode
  \/ Compute
  \/ MoveFromFPSCR
  \/ MoveToFPSCR
  \/ Call
  \/ SetJmp
  \/ LongJmp
  \/ Jump
  \/ NotTaken
  \/ Return
  \/ AfterHook
  \/ Terminated

Spec == Init /\ [][Next]_vars

-----------------------------------------------------------------------------
(* Properties.                                                             *)

\* The type of every variable.
TypeOK ==
  /\ code \in [Words -> Instruction]
  /\ word \in 0 .. Length
  /\ at # "print" => word \in Words
  /\ csrState \in CSRStates
  /\ tracked \in [Words -> CSRStates]
  /\ printed \in [Words -> Switches]
  /\ at \in {"print", "before", "switch", "body", "after", "returned"}
  /\ csr \in Modes
  /\ host \in Modes
  /\ jmpbuf \in [set : BOOLEAN, word : Words, csr : Modes, host : Modes]

\* When a word computes, the host is in the mode its unit needs: no flushing
\* for the FPU, full flushing for the vector unit ("The FPU expects
\* denormalized numbers to remain unmodified, while VMX instructions always
\* flush them", README.md:116).
FlushModeCorrect ==
  at = "body" =>
    /\ code[word].kind = "fpu" => host = {}
    /\ code[word].kind = "vmx" => host = FlushMask

\* The cached copy is never stale: whatever path led here, a test of the
\* cached copy is a test of MXCSR.
CachedModeIsHostMode == csr = host

\* What the printer assumed of a word is so whenever the word is reached, on
\* every path that reaches it.
Is(state) ==
  /\ state = "FPU" => host = {}
  /\ state = "VMX" => host = FlushMask

TrackedStateIsTrue == at = "switch" => Is(tracked[word])

\* A switch that is printed without a test always changes the mode: the
\* printer's knowledge is never used to write MXCSR for nothing.
UnconditionalIsNeeded ==
  at = "switch" =>
    /\ printed[word] = "enableUnconditional" => host = {}
    /\ printed[word] = "disableUnconditional" => host = FlushMask
=============================================================================
