---------------------------- MODULE VectorProofs ----------------------------
(***************************************************************************)
(* Theorems about what becomes of the floating-point and vector units of    *)
(* the console. FlushMode: of every function, of any length, every word     *)
(* computes in the mode its unit needs, if hooks leave the mode alone and   *)
(* longjmp restores it. VectorUnit: every sequence of vector instructions   *)
(* that the code accounts for the reversal in does what the console does,   *)
(* whatever the registers and the memory hold.                              *)
(***************************************************************************)
EXTENDS FlushMode, VectorUnit, TLAPS

-----------------------------------------------------------------------------
(* The flush mode.                                                          *)

\* The printer has followed csrState word by word, forgetting it at labels.
PrintedSoFar(w) == at # "print" \/ w < word

PrintInv ==
  /\ at = "print" /\ word = 0 => csrState = "Unknown"
  /\ at = "print" /\ word > 0 =>
       csrState = After(code[word - 1].kind, tracked[word - 1])
  /\ \A w \in Words : PrintedSoFar(w) =>
       /\ w \in Labels => tracked[w] = "Unknown"
       /\ w \notin Labels /\ w = 0 => tracked[w] = "Unknown"
       /\ w \notin Labels /\ w > 0 =>
            tracked[w] = After(code[w - 1].kind, tracked[w - 1])
       /\ printed[w] = SwitchFor(code[w].kind, tracked[w])

\* What was tracked is so, from the moment a word is reached to its end.
RunInv ==
  /\ csr = host
  /\ at \in {"before", "switch"} => Is(tracked[word])
  /\ at \in {"body", "after"} /\ code[word].kind \in {"fpu", "vmx"} =>
       Is(After(code[word].kind, tracked[word]))
  /\ at = "body" => Is(tracked[word]) \/ code[word].kind \in {"fpu", "vmx"}
  /\ at = "after" => Is(After(code[word].kind, tracked[word]))
  /\ jmpbuf.set => jmpbuf.csr = jmpbuf.host /\ code[jmpbuf.word].kind = "setjmp"

Inv == TypeOK /\ PrintInv /\ RunInv

\* The environment the theorems assume.
Quiet == ~HookMoves /\ ~LongJmpKeeps

-----------------------------------------------------------------------------
(* The operators.                                                          *)

LEMMA AfterType ==
  ASSUME NEW kind \in Kinds, NEW state \in CSRStates
  PROVE  After(kind, state) \in CSRStates
BY DEF After, CSRStates

LEMMA SwitchType ==
  ASSUME NEW kind, NEW state
  PROVE  SwitchFor(kind, state) \in Switches
BY DEF SwitchFor, Switches

LEMMA LabelsOfJumps ==
  ASSUME TypeOK, NEW w \in Words, code[w].kind \in {"jump", "cond"}
  PROVE  code[w].targets \subseteq Labels /\ code[w].targets \subseteq Words
<1>1. code[w] \in Instruction
  BY DEF TypeOK
<1>. QED
  BY <1>1 DEF Labels, Branches, Instruction

LEMMA LabelsOfHooks ==
  ASSUME TypeOK, NEW w \in Words, code[w].hook.place # "none"
  PROVE  code[w].hook.jumps \subseteq Labels /\ code[w].hook.jumps \subseteq Words
<1>1. code[w] \in Instruction
  BY DEF TypeOK
<1>. QED
  BY <1>1 DEF Labels, HookJumps, Instruction, Hooks

-----------------------------------------------------------------------------
(* The invariant.                                                          *)

LEMMA InitInv == Init => Inv
<1> SUFFICES ASSUME Init PROVE Inv
  OBVIOUS
<1> USE FlushAssumption DEF Init
<1>1. TypeOK
  BY DEF TypeOK, Words, CSRStates, Switches, Modes
<1>2. PrintInv
  BY DEF PrintInv, PrintedSoFar, Words
<1>3. RunInv
  BY DEF RunInv
<1>. QED
  BY <1>1, <1>2, <1>3 DEF Inv

\* A hook leaves the mode alone and goes where goto may go.
LEMMA HookIsQuiet ==
  ASSUME TypeOK, Quiet, NEW next, word \in Words,
         code[word].hook.place # "none", RunHook(next)
  PROVE  /\ csr' = csr /\ host' = host
         /\ \/ next
            \/ Leave
            \/ \E w \in Labels : w \in Words /\ GoTo(w)
<1>1. UNCHANGED <<csr, host>>
  BY DEF RunHook, Quiet
<1>2. next \/ Leave \/ \E w \in code[word].hook.jumps : GoTo(w)
  BY DEF RunHook
<1>. QED
  BY <1>1, <1>2, LabelsOfHooks

\* The tracked state of the word after w, if nothing jumps there.
LEMMA NextTracked ==
  ASSUME TypeOK, PrintInv, at # "print", NEW w \in Words, w + 1 \in Words,
         Is(After(code[w].kind, tracked[w]))
  PROVE  Is(tracked[w + 1])
<1>1. CASE w + 1 \in Labels
  BY <1>1 DEF PrintInv, PrintedSoFar, Is
<1>2. CASE w + 1 \notin Labels
  <2>1. w + 1 > 0 /\ (w + 1) - 1 = w
    BY DEF Words
  <2>. QED
    BY <1>2, <2>1 DEF PrintInv, PrintedSoFar
<1>. QED
  BY <1>1, <1>2

LEMMA TypeStep == ASSUME TypeOK, [Next]_vars PROVE TypeOK'
<1> USE FlushAssumption
<1>1. CASE PrintWord
  <2>1. word \in Words /\ code[word].kind \in Kinds
    BY <1>1 DEF PrintWord, TypeOK, Words, Instruction
  <2>2. tracked'[word] \in CSRStates /\ csrState' \in CSRStates
    BY <1>1, <2>1, AfterType DEF PrintWord, TypeOK, CSRStates
  <2>3. printed' \in [Words -> Switches]
    BY <1>1, SwitchType DEF PrintWord, TypeOK
  <2>4. tracked' \in [Words -> CSRStates]
    BY <1>1 DEF PrintWord, TypeOK, CSRStates
  <2>5. word' \in 0 .. Length
    BY <1>1 DEF PrintWord, TypeOK
  <2>. QED
    BY <1>1, <2>2, <2>3, <2>4, <2>5 DEF PrintWord, TypeOK
<1>2. CASE Enter
  BY <1>2 DEF Enter, TypeOK, Words, printVars
<1>3. ASSUME at # "print", \/ GoTo(word + 1) \/ Leave \/ \E w \in Words : GoTo(w)
      PROVE  word' \in Words /\ at' \in {"before", "returned"}
  BY <1>3 DEF GoTo, Leave, TypeOK, Words
<1>4. ASSUME at # "print", NEW next, RunHook(next), code[word].hook.place # "none"
      PROVE  /\ csr' \in Modes /\ host' \in Modes
             /\ next \/ Leave \/ \E w \in Words : GoTo(w)
  <2>1. word \in Words
    BY <1>4 DEF TypeOK
  <2>2. code[word].hook.jumps \subseteq Words
    BY <1>4, <2>1, LabelsOfHooks
  <2>3. csr' \in Modes /\ host' \in Modes
    BY <1>4 DEF RunHook, TypeOK, Modes
  <2>. QED
    BY <1>4, <2>2, <2>3 DEF RunHook
<1>5. CASE BeforeHook
  <2>1. at # "print" /\ word \in Words
    BY <1>5 DEF BeforeHook, TypeOK
  <2>2. CASE code[word].hook.place = "before"
    <3>1. RunHook(word' = word /\ at' = "switch")
      BY <1>5, <2>2 DEF BeforeHook
    <3>2. /\ csr' \in Modes /\ host' \in Modes
          /\ (word' = word /\ at' = "switch") \/ Leave \/ \E w \in Words : GoTo(w)
      BY <1>4, <2>1, <2>2, <3>1
    <3>3. word' \in Words /\ at' \in {"before", "switch", "returned"}
      BY <1>3, <2>1, <3>2
    <3>. QED
      BY <1>5, <3>2, <3>3 DEF BeforeHook, TypeOK, printVars, Words
  <2>3. CASE code[word].hook.place # "before"
    BY <1>5, <2>1, <2>3 DEF BeforeHook, TypeOK, printVars
  <2>. QED
    BY <2>2, <2>3
<1>6. CASE SetFlushMode
  BY <1>6 DEF SetFlushMode, EnableFlush, DisableFlush, TypeOK, printVars, Modes, FlushMask
<1>7. CASE Compute \/ MoveFromFPSCR \/ MoveToFPSCR \/ Call
  BY <1>7 DEF Compute, MoveFromFPSCR, MoveToFPSCR, Call, Running, Done, TypeOK, printVars
<1>8. CASE SetJmp
  BY <1>8 DEF SetJmp, Running, Done, TypeOK, printVars
<1>9. CASE LongJmp
  BY <1>9 DEF LongJmp, Running, TypeOK, printVars, Words
<1>10. CASE Jump
  <2>1. at # "print" /\ word \in Words /\ code[word].kind \in {"jump", "cond"}
    BY <1>10 DEF Jump, Running, TypeOK
  <2>2. \E w \in Words : GoTo(w)
    BY <1>10, <2>1, LabelsOfJumps DEF Jump
  <2>3. word' \in Words /\ at' \in {"before", "returned"}
    BY <1>3, <2>1, <2>2
  <2>. QED
    BY <1>10, <2>3 DEF Jump, TypeOK, printVars, Words
<1>11. CASE NotTaken \/ Return
  BY <1>11 DEF NotTaken, Return, Running, Done, Leave, TypeOK, printVars
<1>12. CASE AfterHook
  <2>1. at # "print" /\ word \in Words
    BY <1>12 DEF AfterHook, TypeOK
  <2>2. /\ csr' \in Modes /\ host' \in Modes
        /\ GoTo(word + 1) \/ Leave \/ \E w \in Words : GoTo(w)
    <3>1. CASE code[word].hook.place = "after"
      <4>1. RunHook(GoTo(word + 1))
        BY <1>12, <3>1 DEF AfterHook
      <4>. QED
        BY <1>4, <2>1, <3>1, <4>1
    <3>2. CASE code[word].hook.place # "after"
      BY <1>12, <3>2 DEF AfterHook, TypeOK
    <3>. QED
      BY <3>1, <3>2
  <2>3. word' \in Words /\ at' \in {"before", "returned"}
    BY <1>3, <2>1, <2>2
  <2>. QED
    BY <1>12, <2>2, <2>3 DEF AfterHook, TypeOK, printVars, Words
<1>13. CASE UNCHANGED vars
  BY <1>13 DEF vars, TypeOK
<1>. QED
  BY <1>1, <1>2, <1>5, <1>6, <1>7, <1>8, <1>9, <1>10, <1>11, <1>12, <1>13
  DEF Next, Terminated

\* Printing one more word extends what is known of the words printed.
LEMMA PrintStep == ASSUME TypeOK, PrintInv, [Next]_vars PROVE PrintInv'
<1> USE FlushAssumption
<1>1. CASE PrintWord
  <2>1. word \in Words /\ word' = word + 1 /\ at = "print" /\ at' = "print"
    BY <1>1 DEF PrintWord, TypeOK, Words
  <2>2. code' = code /\ Labels' = Labels
    BY <1>1 DEF PrintWord, Labels, Branches, HookJumps
  <2>3. tracked'[word] = IF word \in Labels THEN "Unknown" ELSE csrState
    BY <1>1, <2>1 DEF PrintWord, TypeOK
  <2>4. csrState' = After(code[word].kind, tracked'[word])
    BY <1>1, <2>1, <2>3 DEF PrintWord
  <2>5. printed'[word] = SwitchFor(code[word].kind, tracked'[word])
    BY <1>1, <2>1, <2>3 DEF PrintWord, TypeOK
  <2>6. \A w \in Words : w # word => tracked'[w] = tracked[w] /\ printed'[w] = printed[w]
    BY <1>1 DEF PrintWord, TypeOK
  <2>7. at' = "print" /\ word' > 0 =>
          csrState' = After(code'[word' - 1].kind, tracked'[word' - 1])
    BY <2>1, <2>2, <2>4 DEF Words
  <2>8. ASSUME NEW w \in Words, PrintedSoFar(w)'
        PROVE  /\ w \in Labels => tracked'[w] = "Unknown"
               /\ w \notin Labels /\ w = 0 => tracked'[w] = "Unknown"
               /\ w \notin Labels /\ w > 0 =>
                    tracked'[w] = After(code[w - 1].kind, tracked'[w - 1])
               /\ printed'[w] = SwitchFor(code[w].kind, tracked'[w])
    <3>1. CASE w = word
      <4>1. w \notin Labels /\ w = 0 => tracked'[w] = "Unknown"
        BY <2>1, <2>3, <3>1 DEF PrintInv
      <4>2. ASSUME w \notin Labels, w > 0
            PROVE  tracked'[w] = After(code[w - 1].kind, tracked'[w - 1])
        <5>1. w - 1 \in Words /\ w - 1 # word
          BY <3>1, <4>2 DEF Words
        <5>2. tracked'[w] = After(code[w - 1].kind, tracked[w - 1])
          BY <2>1, <2>3, <3>1, <4>2 DEF PrintInv
        <5>. QED
          BY <2>6, <5>1, <5>2
      <4>. QED
        BY <2>3, <2>5, <3>1, <4>1, <4>2
    <3>2. CASE w # word
      <4>1. PrintedSoFar(w)
        BY <2>1, <2>8, <3>2 DEF PrintedSoFar, Words
      <4>2. w > 0 => w - 1 \in Words /\ w - 1 # word
        BY <2>1, <2>8, <3>2 DEF PrintedSoFar, Words
      <4>. QED
        BY <2>6, <3>2, <4>1, <4>2 DEF PrintInv
    <3>. QED
      BY <3>1, <3>2
  <2>. QED
    BY <2>1, <2>2, <2>7, <2>8 DEF PrintInv, Words
<1>2. CASE Enter
  <2>1. UNCHANGED <<code, csrState, tracked, printed>> /\ at' = "before"
    BY <1>2 DEF Enter, printVars
  <2>2. \A w \in Words : PrintedSoFar(w)
    BY <1>2 DEF Enter, PrintedSoFar, Words
  <2>. QED
    BY <2>1, <2>2 DEF PrintInv, Labels, Branches, HookJumps
<1>3. ASSUME at # "print", at' # "print", UNCHANGED <<code, printVars>>
      PROVE  PrintInv'
  BY <1>3 DEF PrintInv, PrintedSoFar, Labels, Branches, HookJumps, printVars
<1>4. CASE UNCHANGED vars
  BY <1>4 DEF vars, PrintInv, PrintedSoFar, Labels, Branches, HookJumps
<1>5. CASE BeforeHook \/ AfterHook
  BY <1>3, <1>5 DEF BeforeHook, AfterHook, RunHook, GoTo, Leave
<1>6. CASE SetFlushMode
  BY <1>3, <1>6 DEF SetFlushMode
<1>7. CASE Compute \/ MoveFromFPSCR \/ MoveToFPSCR \/ Call \/ SetJmp \/ LongJmp
  BY <1>3, <1>7 DEF Compute, MoveFromFPSCR, MoveToFPSCR, Call, SetJmp, LongJmp, Running, Done
<1>8. CASE Jump \/ NotTaken \/ Return
  BY <1>3, <1>8 DEF Jump, NotTaken, Return, Running, Done, GoTo, Leave
<1>. QED
  BY <1>1, <1>2, <1>4, <1>5, <1>6, <1>7, <1>8 DEF Next, Terminated

\* Reaching a word by a goto or from the word before it, what was tracked of
\* it is so.
LEMMA ReachedIsTracked ==
  ASSUME TypeOK, PrintInv, at # "print", NEW w \in Words, code' = code,
         tracked' = tracked, host' = host, GoTo(w), w \in Labels \/ Is(tracked[w])
  PROVE  word' = w /\ at' = "before" /\ Is(tracked[w])'
<1>1. w < Length
  BY FlushAssumption DEF Words
<1>2. word' = w /\ at' = "before"
  BY <1>1 DEF GoTo
<1>3. w \in Labels => tracked[w] = "Unknown"
  BY DEF PrintInv, PrintedSoFar
<1>. QED
  BY <1>2, <1>3 DEF Is

\* Whichever way control leaves a finished word or a hook, the invariant
\* holds where it arrives.
LEMMA ArrivalInv ==
  ASSUME Inv, at # "print",
         UNCHANGED <<code, printVars, csr, host, jmpbuf>>,
         Leave \/ \E w \in Labels : w \in Words /\ GoTo(w)
  PROVE  RunInv'
<1> USE DEF Inv
<1>1. UNCHANGED <<code, tracked>> /\ csr' = host' /\ jmpbuf' = jmpbuf
  BY DEF RunInv, printVars
<1>2. CASE Leave
  BY <1>1, <1>2 DEF Leave, RunInv
<1>3. ASSUME NEW w \in Labels, w \in Words, GoTo(w)
      PROVE  RunInv'
  <2>1. word' = w /\ at' = "before" /\ Is(tracked[w])'
    BY <1>1, <1>3, ReachedIsTracked
  <2>. QED
    BY <1>1, <2>1 DEF RunInv
<1>. QED
  BY <1>2, <1>3

LEMMA FallThroughInv ==
  ASSUME Inv, at = "after", UNCHANGED <<code, printVars, csr, host, jmpbuf>>,
         GoTo(word + 1)
  PROVE  RunInv'
<1> USE DEF Inv
<1>1. UNCHANGED <<code, tracked, host>> /\ csr' = host' /\ jmpbuf' = jmpbuf
  BY DEF RunInv, printVars
<1>2. word \in Words /\ word \in Nat
  BY FlushAssumption DEF TypeOK, Words
<1>3. CASE word + 1 \in Words
  <2>1. Is(After(code[word].kind, tracked[word]))
    BY DEF RunInv
  <2>2. Is(tracked[word + 1])
    BY <1>2, <1>3, <2>1, NextTracked
  <2>3. word' = word + 1 /\ at' = "before"
    BY <1>2, <1>3, FlushAssumption DEF GoTo, Words
  <2>4. Is(tracked'[word'])
    BY <1>1, <2>2, <2>3 DEF Is
  <2>. QED
    BY <1>1, <2>3, <2>4 DEF RunInv, Is
<1>4. CASE word + 1 \notin Words
  <2>1. at' = "returned"
    BY <1>2, <1>4, FlushAssumption DEF GoTo, Words
  <2>. QED
    BY <1>1, <2>1 DEF RunInv
<1>. QED
  BY <1>3, <1>4

LEMMA RunStep == ASSUME Inv, Quiet, [Next]_vars PROVE RunInv'
<1> USE DEF Inv
<1>1. CASE PrintWord
  BY <1>1 DEF PrintWord, RunInv
<1>2. CASE Enter
  <2>1. 0 \in Words
    BY FlushAssumption DEF Words
  <2>2. tracked[0] = "Unknown"
    <3>1. PrintedSoFar(0)
      BY <1>2, <2>1, FlushAssumption DEF Enter, PrintedSoFar
    <3>. QED
      BY <2>1, <3>1 DEF PrintInv
  <2>. QED
    BY <1>2, <2>2 DEF Enter, RunInv, Is, printVars
<1>3. CASE BeforeHook
  <2>1. at # "print" /\ word \in Words
    BY <1>3 DEF BeforeHook, TypeOK
  <2>2. ASSUME word' = word, at' = "switch", UNCHANGED <<csr, host>>
        PROVE  RunInv'
    BY <1>3, <2>2 DEF BeforeHook, RunInv, Is, printVars
  <2>3. CASE code[word].hook.place = "before"
    <3>1. RunHook(word' = word /\ at' = "switch")
      BY <1>3, <2>3 DEF BeforeHook
    <3>2. /\ UNCHANGED <<csr, host>>
          /\ \/ word' = word /\ at' = "switch"
             \/ Leave
             \/ \E w \in Labels : w \in Words /\ GoTo(w)
      BY <2>1, <2>3, <3>1, HookIsQuiet
    <3>3. UNCHANGED <<code, printVars, csr, host, jmpbuf>>
      BY <1>3, <3>2 DEF BeforeHook
    <3>. QED
      BY <2>1, <2>2, <3>2, <3>3, ArrivalInv
  <2>4. CASE code[word].hook.place # "before"
    BY <1>3, <2>2, <2>4 DEF BeforeHook
  <2>. QED
    BY <2>3, <2>4
<1>4. CASE SetFlushMode
  <2>1. /\ word \in Words /\ code[word].kind \in Kinds /\ tracked[word] \in CSRStates
        /\ Is(tracked[word]) /\ csr = host
        /\ printed[word] = SwitchFor(code[word].kind, tracked[word])
    BY <1>4 DEF SetFlushMode, TypeOK, Instruction, RunInv, PrintInv, PrintedSoFar
  <2>2. CASE code[word].kind = "fpu"
    <3>1. csr' = {} /\ host' = {}
      BY <1>4, <2>1, <2>2 DEF SetFlushMode, SwitchFor, DisableFlush, Is, CSRStates
    <3>. QED
      BY <1>4, <2>2, <3>1 DEF SetFlushMode, RunInv, After, Is, printVars
  <2>3. CASE code[word].kind = "vmx"
    <3>1. csr' = FlushMask /\ host' = FlushMask
      BY <1>4, <2>1, <2>3 DEF SetFlushMode, SwitchFor, EnableFlush, Is, CSRStates
    <3>. QED
      BY <1>4, <2>3, <3>1 DEF SetFlushMode, RunInv, After, Is, printVars
  <2>4. CASE code[word].kind \notin {"fpu", "vmx"}
    <3>1. UNCHANGED <<csr, host>>
      BY <1>4, <2>1, <2>4 DEF SetFlushMode, SwitchFor
    <3>. QED
      BY <1>4, <2>1, <2>4, <3>1 DEF SetFlushMode, RunInv, Is, printVars
  <2>. QED
    BY <2>2, <2>3, <2>4
<1>5. CASE Compute \/ MoveFromFPSCR \/ MoveToFPSCR \/ NotTaken
  BY <1>5 DEF Compute, MoveFromFPSCR, MoveToFPSCR, NotTaken, Running, Done, RunInv,
     After, Is, printVars
<1>6. CASE Call
  BY <1>6 DEF Call, Running, Done, RunInv, After, Is, printVars
<1>7. CASE SetJmp
  BY <1>7 DEF SetJmp, Running, Done, RunInv, After, Is, printVars
<1>8. CASE LongJmp
  BY <1>8 DEF LongJmp, Quiet, Running, RunInv, After, Is, printVars
<1>9. CASE Jump
  <2>1. at # "print" /\ word \in Words /\ code[word].kind \in {"jump", "cond"}
    BY <1>9 DEF Jump, Running, TypeOK
  <2>2. \E w \in Labels : w \in Words /\ GoTo(w)
    BY <1>9, <2>1, LabelsOfJumps DEF Jump
  <2>3. UNCHANGED <<code, printVars, csr, host, jmpbuf>>
    BY <1>9 DEF Jump
  <2>. QED
    BY <2>1, <2>2, <2>3, ArrivalInv
<1>10. CASE Return
  BY <1>10 DEF Return, Running, Leave, RunInv, printVars
<1>11. CASE AfterHook
  <2>1. at = "after" /\ word \in Words
    BY <1>11 DEF AfterHook, TypeOK
  <2>2. CASE code[word].hook.place = "after"
    <3>1. RunHook(GoTo(word + 1))
      BY <1>11, <2>2 DEF AfterHook
    <3>2. /\ UNCHANGED <<csr, host>>
          /\ \/ GoTo(word + 1)
             \/ Leave
             \/ \E w \in Labels : w \in Words /\ GoTo(w)
      BY <2>1, <2>2, <3>1, HookIsQuiet
    <3>3. UNCHANGED <<code, printVars, csr, host, jmpbuf>>
      BY <1>11, <3>2 DEF AfterHook
    <3>. QED
      BY <2>1, <3>2, <3>3, ArrivalInv, FallThroughInv
  <2>3. CASE code[word].hook.place # "after"
    BY <1>11, <2>1, <2>3, FallThroughInv DEF AfterHook
  <2>. QED
    BY <2>2, <2>3
<1>12. CASE UNCHANGED vars
  BY <1>12 DEF vars, RunInv, Is
<1>. QED
  BY <1>1, <1>2, <1>3, <1>4, <1>5, <1>6, <1>7, <1>8, <1>9, <1>10, <1>11, <1>12
  DEF Next, Terminated

-----------------------------------------------------------------------------
(* The theorems.                                                           *)

\* Every variable keeps its type, whatever hooks and longjmp do.
THEOREM TypeCorrect == Spec => []TypeOK
<1>1. Init => TypeOK
  BY InitInv DEF Inv
<1>2. TypeOK /\ [Next]_vars => TypeOK'
  BY TypeStep
<1>. QED
  BY <1>1, <1>2, PTL DEF Spec

LEMMA Invariance == Quiet => (Spec => []Inv)
<1> SUFFICES ASSUME Quiet PROVE Spec => []Inv
  OBVIOUS
<1>1. Init => Inv
  BY InitInv
<1>2. Inv /\ [Next]_vars => Inv'
  BY TypeStep, PrintStep, RunStep DEF Inv
<1>. QED
  BY <1>1, <1>2, PTL DEF Spec

\* In every recompiled function, FPU words run without flushing and vector
\* words with it (recompiler.cpp:424, ppc_context.h:232).
THEOREM FlushModeIsCorrect == Quiet => (Spec => []FlushModeCorrect)
<1> SUFFICES ASSUME Quiet PROVE Spec => []FlushModeCorrect
  OBVIOUS
<1>1. Inv => FlushModeCorrect
  BY DEF Inv, RunInv, FlushModeCorrect, After, Is
<1>. QED
  BY <1>1, Invariance, PTL

\* The cached copy of MXCSR is never stale, and so a recompiled function hands
\* its caller what the model assumes of a callee.
THEOREM CacheIsCoherent == Quiet => (Spec => []CachedModeIsHostMode)
<1> SUFFICES ASSUME Quiet PROVE Spec => []CachedModeIsHostMode
  OBVIOUS
<1>1. Inv => CachedModeIsHostMode
  BY DEF Inv, RunInv, CachedModeIsHostMode
<1>. QED
  BY <1>1, Invariance, PTL

\* What the printer tracked holds on every path, and a switch printed without
\* a test is never redundant.
THEOREM TrackingIsSound == Quiet => (Spec => [](TrackedStateIsTrue /\ UnconditionalIsNeeded))
<1> SUFFICES ASSUME Quiet PROVE Spec => [](TrackedStateIsTrue /\ UnconditionalIsNeeded)
  OBVIOUS
<1>1. Inv => TrackedStateIsTrue
  BY DEF Inv, RunInv, TrackedStateIsTrue
<1>2. Inv => UnconditionalIsNeeded
  <2> SUFFICES ASSUME Inv, at = "switch" PROVE UnconditionalIsNeeded
    BY DEF UnconditionalIsNeeded
  <2>1. /\ printed[word] = SwitchFor(code[word].kind, tracked[word])
        /\ Is(tracked[word])
    BY DEF Inv, PrintInv, PrintedSoFar, RunInv, TypeOK
  <2>. QED
    BY <2>1 DEF UnconditionalIsNeeded, SwitchFor, Is
<1>. QED
  BY <1>1, <1>2, Invariance, PTL

-----------------------------------------------------------------------------
(* The vectors: the tables of both sides.                                 *)

\* What Over has, and where from.
LEMMA OverIs ==
  ASSUME NEW f, NEW g
  PROVE  /\ DOMAIN Over(f, g) = DOMAIN f \cup DOMAIN g
         /\ \A m \in DOMAIN f : Over(f, g)[m] = f[m]
         /\ \A m \in DOMAIN g : m \notin DOMAIN f => Over(f, g)[m] = g[m]
BY DEF Over

LEMMA GuestOver == \A f, g : Guest!Over(f, g) = Over(f, g)
BY DEF Guest!Over, Over

\* Every table that Lanes is put together from is there, and nothing else is:
\* no mnemonic is in two of them.
LEMMA HostRows ==
  /\ \A m \in DOMAIN LanesAdd : m \in DOMAIN Lanes /\ Lanes[m] = LanesAdd[m]
  /\ \A m \in DOMAIN LanesConvert : m \in DOMAIN Lanes /\ Lanes[m] = LanesConvert[m]
  /\ \A m \in DOMAIN LanesMinMax : m \in DOMAIN Lanes /\ Lanes[m] = LanesMinMax[m]
  /\ \A m \in DOMAIN LanesMultiply : m \in DOMAIN Lanes /\ Lanes[m] = LanesMultiply[m]
  /\ \A m \in DOMAIN LanesRound : m \in DOMAIN Lanes /\ Lanes[m] = LanesRound[m]
  /\ \A m \in DOMAIN LanesSplatSub : m \in DOMAIN Lanes /\ Lanes[m] = LanesSplatSub[m]
  /\ \A m \in DOMAIN LanesSubtract : m \in DOMAIN Lanes /\ Lanes[m] = LanesSubtract[m]
  /\ \A m \in DOMAIN LanesLate : m \in DOMAIN Lanes /\ Lanes[m] = LanesLate[m]
  /\ \A m \in DOMAIN LanesMisc : m \in DOMAIN Lanes /\ Lanes[m] = LanesMisc[m]
  /\ \A m \in DOMAIN Lanes :
       m \in DOMAIN LanesAdd \/ m \in DOMAIN LanesConvert \/ m \in DOMAIN LanesMinMax \/ m \in DOMAIN LanesMultiply
       \/ m \in DOMAIN LanesRound \/ m \in DOMAIN LanesSplatSub \/ m \in DOMAIN LanesSubtract \/ m \in DOMAIN LanesLate
       \/ m \in DOMAIN LanesMisc
<1>1. DOMAIN LanesAdd = {"vaddfp", "vaddshs", "vaddubm", "vaddubs", "vadduhm",
                         "vadduwm", "vadduws", "vand", "vandc", "vavgsb", "vavgsh",
                         "vavgub", "vavguh"} BY DEF LanesAdd
<1>2. DOMAIN LanesConvert = {"vctsxs", "vctuxs", "vcfsx", "vcfux"} BY DEF LanesConvert
<1>3. DOMAIN LanesMinMax = {"vexptefp", "vlogefp", "vmaddfp", "vmaxfp", "vmaxsh",
                      "vmaxsw", "vmaxuh", "vminfp", "vminsh", "vminuh"} BY DEF LanesMinMax
<1>4. DOMAIN LanesMultiply = {"vmulfp128", "vnmsubfp", "vnor", "vor"} BY DEF LanesMultiply
<1>5. DOMAIN LanesRound = {"vrefp", "vrfim", "vrfin", "vrfiz"} BY DEF LanesRound
<1>6. DOMAIN LanesSplatSub = {"vspltisb", "vspltish", "vspltisw"} BY DEF LanesSplatSub
<1>7. DOMAIN LanesSubtract = {"vsubfp", "vsubshs", "vsubsws", "vsububs", "vsubuhm"} BY DEF LanesSubtract
<1>8. DOMAIN LanesLate = {"vaddsbs", "vaddsws", "vadduhs", "vminsw", "vavgsw",
                    "vsubsbs", "vsububm"} BY DEF LanesLate
<1>9. DOMAIN LanesMisc = {"vrsqrtefp", "vxor"} BY DEF LanesMisc
<1> DEFINE L8 == Over(LanesLate, LanesMisc)
           L7 == Over(LanesSubtract, L8)
           L6 == Over(LanesSplatSub, L7)
           L5 == Over(LanesRound, L6)
           L4 == Over(LanesMultiply, L5)
           L3 == Over(LanesMinMax, L4)
           L2 == Over(LanesConvert, L3)
           L1 == Over(LanesAdd, L2)
<1> HIDE DEF L1, L2, L3, L4, L5, L6, L7, L8
<1>20. Lanes = L1 BY DEF Lanes, L1, L2, L3, L4, L5, L6, L7, L8
<1>21. /\ DOMAIN L8 = DOMAIN LanesLate \cup DOMAIN LanesMisc
       /\ \A m \in DOMAIN LanesLate : L8[m] = LanesLate[m]
       /\ \A m \in DOMAIN LanesMisc : m \notin DOMAIN LanesLate => L8[m] = LanesMisc[m]
  BY OverIs DEF L8
<1>22. /\ DOMAIN L7 = DOMAIN LanesSubtract \cup DOMAIN L8
       /\ \A m \in DOMAIN LanesSubtract : L7[m] = LanesSubtract[m]
       /\ \A m \in DOMAIN L8 : m \notin DOMAIN LanesSubtract => L7[m] = L8[m]
  BY OverIs DEF L7
<1>23. /\ DOMAIN L6 = DOMAIN LanesSplatSub \cup DOMAIN L7
       /\ \A m \in DOMAIN LanesSplatSub : L6[m] = LanesSplatSub[m]
       /\ \A m \in DOMAIN L7 : m \notin DOMAIN LanesSplatSub => L6[m] = L7[m]
  BY OverIs DEF L6
<1>24. /\ DOMAIN L5 = DOMAIN LanesRound \cup DOMAIN L6
       /\ \A m \in DOMAIN LanesRound : L5[m] = LanesRound[m]
       /\ \A m \in DOMAIN L6 : m \notin DOMAIN LanesRound => L5[m] = L6[m]
  BY OverIs DEF L5
<1>25. /\ DOMAIN L4 = DOMAIN LanesMultiply \cup DOMAIN L5
       /\ \A m \in DOMAIN LanesMultiply : L4[m] = LanesMultiply[m]
       /\ \A m \in DOMAIN L5 : m \notin DOMAIN LanesMultiply => L4[m] = L5[m]
  BY OverIs DEF L4
<1>26. /\ DOMAIN L3 = DOMAIN LanesMinMax \cup DOMAIN L4
       /\ \A m \in DOMAIN LanesMinMax : L3[m] = LanesMinMax[m]
       /\ \A m \in DOMAIN L4 : m \notin DOMAIN LanesMinMax => L3[m] = L4[m]
  BY OverIs DEF L3
<1>27. /\ DOMAIN L2 = DOMAIN LanesConvert \cup DOMAIN L3
       /\ \A m \in DOMAIN LanesConvert : L2[m] = LanesConvert[m]
       /\ \A m \in DOMAIN L3 : m \notin DOMAIN LanesConvert => L2[m] = L3[m]
  BY OverIs DEF L2
<1>28. /\ DOMAIN L1 = DOMAIN LanesAdd \cup DOMAIN L2
       /\ \A m \in DOMAIN LanesAdd : L1[m] = LanesAdd[m]
       /\ \A m \in DOMAIN L2 : m \notin DOMAIN LanesAdd => L1[m] = L2[m]
  BY OverIs DEF L1
<1>50. \A m \in DOMAIN LanesAdd : m \in DOMAIN Lanes /\ Lanes[m] = LanesAdd[m]
  BY <1>1, <1>2, <1>3, <1>4, <1>5, <1>6, <1>7, <1>8, <1>9, <1>20, <1>21, <1>22, <1>23, <1>24, <1>25, <1>26, <1>27, <1>28
<1>51. \A m \in DOMAIN LanesConvert : m \in DOMAIN Lanes /\ Lanes[m] = LanesConvert[m]
  BY <1>1, <1>2, <1>3, <1>4, <1>5, <1>6, <1>7, <1>8, <1>9, <1>20, <1>21, <1>22, <1>23, <1>24, <1>25, <1>26, <1>27, <1>28
<1>52. \A m \in DOMAIN LanesMinMax : m \in DOMAIN Lanes /\ Lanes[m] = LanesMinMax[m]
  BY <1>1, <1>2, <1>3, <1>4, <1>5, <1>6, <1>7, <1>8, <1>9, <1>20, <1>21, <1>22, <1>23, <1>24, <1>25, <1>26, <1>27, <1>28
<1>53. \A m \in DOMAIN LanesMultiply : m \in DOMAIN Lanes /\ Lanes[m] = LanesMultiply[m]
  BY <1>1, <1>2, <1>3, <1>4, <1>5, <1>6, <1>7, <1>8, <1>9, <1>20, <1>21, <1>22, <1>23, <1>24, <1>25, <1>26, <1>27, <1>28
<1>54. \A m \in DOMAIN LanesRound : m \in DOMAIN Lanes /\ Lanes[m] = LanesRound[m]
  BY <1>1, <1>2, <1>3, <1>4, <1>5, <1>6, <1>7, <1>8, <1>9, <1>20, <1>21, <1>22, <1>23, <1>24, <1>25, <1>26, <1>27, <1>28
<1>55. \A m \in DOMAIN LanesSplatSub : m \in DOMAIN Lanes /\ Lanes[m] = LanesSplatSub[m]
  BY <1>1, <1>2, <1>3, <1>4, <1>5, <1>6, <1>7, <1>8, <1>9, <1>20, <1>21, <1>22, <1>23, <1>24, <1>25, <1>26, <1>27, <1>28
<1>56. \A m \in DOMAIN LanesSubtract : m \in DOMAIN Lanes /\ Lanes[m] = LanesSubtract[m]
  BY <1>1, <1>2, <1>3, <1>4, <1>5, <1>6, <1>7, <1>8, <1>9, <1>20, <1>21, <1>22, <1>23, <1>24, <1>25, <1>26, <1>27, <1>28
<1>57. \A m \in DOMAIN LanesLate : m \in DOMAIN Lanes /\ Lanes[m] = LanesLate[m]
  BY <1>1, <1>2, <1>3, <1>4, <1>5, <1>6, <1>7, <1>8, <1>9, <1>20, <1>21, <1>22, <1>23, <1>24, <1>25, <1>26, <1>27, <1>28
<1>58. \A m \in DOMAIN LanesMisc : m \in DOMAIN Lanes /\ Lanes[m] = LanesMisc[m]
  BY <1>1, <1>2, <1>3, <1>4, <1>5, <1>6, <1>7, <1>8, <1>9, <1>20, <1>21, <1>22, <1>23, <1>24, <1>25, <1>26, <1>27, <1>28
<1>. QED BY <1>20, <1>21, <1>22, <1>23, <1>24, <1>25, <1>26, <1>27, <1>28, <1>50, <1>51, <1>52, <1>53, <1>54, <1>55, <1>56,
            <1>57, <1>58

\* Likewise the tables of Lanewise.
LEMMA GuestRows ==
  /\ \A m \in DOMAIN Guest!Add : m \in DOMAIN Guest!Lanewise /\ Guest!Lanewise[m] = Guest!Add[m]
  /\ \A m \in DOMAIN Guest!Subtract : m \in DOMAIN Guest!Lanewise /\ Guest!Lanewise[m] = Guest!Subtract[m]
  /\ \A m \in DOMAIN Guest!BitOps : m \in DOMAIN Guest!Lanewise /\ Guest!Lanewise[m] = Guest!BitOps[m]
  /\ \A m \in DOMAIN Guest!Average : m \in DOMAIN Guest!Lanewise /\ Guest!Lanewise[m] = Guest!Average[m]
  /\ \A m \in DOMAIN Guest!MinMax : m \in DOMAIN Guest!Lanewise /\ Guest!Lanewise[m] = Guest!MinMax[m]
  /\ \A m \in DOMAIN Guest!Float : m \in DOMAIN Guest!Lanewise /\ Guest!Lanewise[m] = Guest!Float[m]
  /\ \A m \in DOMAIN Guest!Splat : m \in DOMAIN Guest!Lanewise /\ Guest!Lanewise[m] = Guest!Splat[m]
  /\ \A m \in DOMAIN Guest!Lanewise :
       m \in DOMAIN Guest!Add \/ m \in DOMAIN Guest!Subtract \/ m \in DOMAIN Guest!BitOps \/ m \in DOMAIN Guest!Average
       \/ m \in DOMAIN Guest!MinMax \/ m \in DOMAIN Guest!Float \/ m \in DOMAIN Guest!Splat
<1>1. DOMAIN Guest!Add = {"vaddfp", "vaddshs", "vaddubm", "vaddubs", "vadduhm", "vadduwm",
              "vadduws", "vaddsbs", "vaddsws", "vadduhs"} BY DEF Guest!Add
<1>2. DOMAIN Guest!Subtract = {"vsubfp", "vsubshs", "vsubsws", "vsububs", "vsubuhm",
                   "vsubsbs", "vsububm"} BY DEF Guest!Subtract
<1>3. DOMAIN Guest!BitOps = {"vand", "vandc", "vor", "vnor", "vxor"} BY DEF Guest!BitOps
<1>4. DOMAIN Guest!Average = {"vavgsb", "vavgsh", "vavgsw", "vavgub", "vavguh"} BY DEF Guest!Average
<1>5. DOMAIN Guest!MinMax = {"vmaxfp", "vmaxsh", "vmaxsw", "vmaxuh", "vminfp", "vminsh",
                 "vminuh", "vminsw"} BY DEF Guest!MinMax
<1>6. DOMAIN Guest!Float = {"vctsxs", "vctuxs", "vcfsx", "vcfux", "vexptefp", "vlogefp",
                "vrefp", "vrsqrtefp", "vrfim", "vrfin", "vrfiz", "vmulfp128"} BY DEF Guest!Float
<1>7. DOMAIN Guest!Splat = {"vspltisb", "vspltish", "vspltisw"} BY DEF Guest!Splat
<1> DEFINE L6 == Over(Guest!Float, Guest!Splat)
           L5 == Over(Guest!MinMax, L6)
           L4 == Over(Guest!Average, L5)
           L3 == Over(Guest!BitOps, L4)
           L2 == Over(Guest!Subtract, L3)
           L1 == Over(Guest!Add, L2)
<1> HIDE DEF L1, L2, L3, L4, L5, L6
<1>20. Guest!Lanewise = L1 BY GuestOver DEF Guest!Lanewise, L1, L2, L3, L4, L5, L6
<1>21. /\ DOMAIN L6 = DOMAIN Guest!Float \cup DOMAIN Guest!Splat
       /\ \A m \in DOMAIN Guest!Float : L6[m] = Guest!Float[m]
       /\ \A m \in DOMAIN Guest!Splat : m \notin DOMAIN Guest!Float => L6[m] = Guest!Splat[m]
  BY OverIs DEF L6
<1>22. /\ DOMAIN L5 = DOMAIN Guest!MinMax \cup DOMAIN L6
       /\ \A m \in DOMAIN Guest!MinMax : L5[m] = Guest!MinMax[m]
       /\ \A m \in DOMAIN L6 : m \notin DOMAIN Guest!MinMax => L5[m] = L6[m]
  BY OverIs DEF L5
<1>23. /\ DOMAIN L4 = DOMAIN Guest!Average \cup DOMAIN L5
       /\ \A m \in DOMAIN Guest!Average : L4[m] = Guest!Average[m]
       /\ \A m \in DOMAIN L5 : m \notin DOMAIN Guest!Average => L4[m] = L5[m]
  BY OverIs DEF L4
<1>24. /\ DOMAIN L3 = DOMAIN Guest!BitOps \cup DOMAIN L4
       /\ \A m \in DOMAIN Guest!BitOps : L3[m] = Guest!BitOps[m]
       /\ \A m \in DOMAIN L4 : m \notin DOMAIN Guest!BitOps => L3[m] = L4[m]
  BY OverIs DEF L3
<1>25. /\ DOMAIN L2 = DOMAIN Guest!Subtract \cup DOMAIN L3
       /\ \A m \in DOMAIN Guest!Subtract : L2[m] = Guest!Subtract[m]
       /\ \A m \in DOMAIN L3 : m \notin DOMAIN Guest!Subtract => L2[m] = L3[m]
  BY OverIs DEF L2
<1>26. /\ DOMAIN L1 = DOMAIN Guest!Add \cup DOMAIN L2
       /\ \A m \in DOMAIN Guest!Add : L1[m] = Guest!Add[m]
       /\ \A m \in DOMAIN L2 : m \notin DOMAIN Guest!Add => L1[m] = L2[m]
  BY OverIs DEF L1
<1>50. \A m \in DOMAIN Guest!Add : m \in DOMAIN Guest!Lanewise /\ Guest!Lanewise[m] = Guest!Add[m]
  BY <1>1, <1>2, <1>3, <1>4, <1>5, <1>6, <1>7, <1>20, <1>21, <1>22, <1>23, <1>24, <1>25, <1>26
<1>51. \A m \in DOMAIN Guest!Subtract : m \in DOMAIN Guest!Lanewise /\ Guest!Lanewise[m] = Guest!Subtract[m]
  BY <1>1, <1>2, <1>3, <1>4, <1>5, <1>6, <1>7, <1>20, <1>21, <1>22, <1>23, <1>24, <1>25, <1>26
<1>52. \A m \in DOMAIN Guest!BitOps : m \in DOMAIN Guest!Lanewise /\ Guest!Lanewise[m] = Guest!BitOps[m]
  BY <1>1, <1>2, <1>3, <1>4, <1>5, <1>6, <1>7, <1>20, <1>21, <1>22, <1>23, <1>24, <1>25, <1>26
<1>53. \A m \in DOMAIN Guest!Average : m \in DOMAIN Guest!Lanewise /\ Guest!Lanewise[m] = Guest!Average[m]
  BY <1>1, <1>2, <1>3, <1>4, <1>5, <1>6, <1>7, <1>20, <1>21, <1>22, <1>23, <1>24, <1>25, <1>26
<1>54. \A m \in DOMAIN Guest!MinMax : m \in DOMAIN Guest!Lanewise /\ Guest!Lanewise[m] = Guest!MinMax[m]
  BY <1>1, <1>2, <1>3, <1>4, <1>5, <1>6, <1>7, <1>20, <1>21, <1>22, <1>23, <1>24, <1>25, <1>26
<1>55. \A m \in DOMAIN Guest!Float : m \in DOMAIN Guest!Lanewise /\ Guest!Lanewise[m] = Guest!Float[m]
  BY <1>1, <1>2, <1>3, <1>4, <1>5, <1>6, <1>7, <1>20, <1>21, <1>22, <1>23, <1>24, <1>25, <1>26
<1>56. \A m \in DOMAIN Guest!Splat : m \in DOMAIN Guest!Lanewise /\ Guest!Lanewise[m] = Guest!Splat[m]
  BY <1>1, <1>2, <1>3, <1>4, <1>5, <1>6, <1>7, <1>20, <1>21, <1>22, <1>23, <1>24, <1>25, <1>26
<1>. QED BY <1>20, <1>21, <1>22, <1>23, <1>24, <1>25, <1>26, <1>50, <1>51, <1>52, <1>53, <1>54, <1>55, <1>56

\* The rows of the host's tables, and of the guest's.
LEMMA LanesAddRows ==
  /\ Lanes["vaddfp"] = Row("addf", 4, <<1, 2>>)
  /\ Lanes["vaddshs"] = Row("adds_s", 2, <<1, 2>>)
  /\ Lanes["vaddubm"] = Row("add", 1, <<1, 2>>)
  /\ Lanes["vaddubs"] = Row("adds_u", 1, <<1, 2>>)
  /\ Lanes["vadduhm"] = Row("add", 2, <<1, 2>>)
  /\ Lanes["vadduwm"] = Row("add", 4, <<1, 2>>)
  /\ Lanes["vadduws"] = Row("adds_u", 4, <<1, 2>>)
  /\ Lanes["vand"] = Row("and", 1, <<1, 2>>)
  /\ Lanes["vandc"] = Row("andnot", 1, <<2, 1>>)
  /\ Lanes["vavgsb"] = Row("avg_s", 1, <<1, 2>>)
  /\ Lanes["vavgsh"] = Row("avg_s", 2, <<1, 2>>)
  /\ Lanes["vavgub"] = Row("avg_u", 1, <<1, 2>>)
  /\ Lanes["vavguh"] = Row("avg_u", 2, <<1, 2>>)
BY HostRows DEF LanesAdd

LEMMA LanesConvertRows ==
  /\ Lanes["vctsxs"] = Row("to_s", 4, <<1>>)
  /\ Lanes["vctuxs"] = Row("to_u", 4, <<1>>)
  /\ Lanes["vcfsx"] = Row("from_s", 4, <<1>>)
  /\ Lanes["vcfux"] = Row("from_u", 4, <<1>>)
BY HostRows DEF LanesConvert

LEMMA LanesMinMaxRows ==
  /\ Lanes["vexptefp"] = Row("exp2", 4, <<1>>)
  /\ Lanes["vlogefp"] = Row("log2", 4, <<1>>)
  /\ Lanes["vmaddfp"] = Row("madd", 4, <<1, 2, 3>>)
  /\ Lanes["vmaxfp"] = Row("maxf", 4, <<1, 2>>)
  /\ Lanes["vmaxsh"] = Row("max_s", 2, <<1, 2>>)
  /\ Lanes["vmaxsw"] = Row("max_s", 4, <<1, 2>>)
  /\ Lanes["vmaxuh"] = Row("max_u", 2, <<1, 2>>)
  /\ Lanes["vminfp"] = Row("minf", 4, <<1, 2>>)
  /\ Lanes["vminsh"] = Row("min_s", 2, <<1, 2>>)
  /\ Lanes["vminuh"] = Row("min_u", 2, <<1, 2>>)
BY HostRows DEF LanesMinMax

LEMMA LanesMultiplyRows ==
  /\ Lanes["vmulfp128"] = Row("mulf", 4, <<1, 2>>)
  /\ Lanes["vnmsubfp"] = Row("nmsub", 4, <<1, 2, 3>>)
  /\ Lanes["vnor"] = Row("nor", 1, <<1, 2>>)
  /\ Lanes["vor"] = Row("or", 1, <<1, 2>>)
BY HostRows DEF LanesMultiply

LEMMA LanesRoundRows ==
  /\ Lanes["vrefp"] = Row("recip", 4, <<1>>)
  /\ Lanes["vrfim"] = Row("floor", 4, <<1>>)
  /\ Lanes["vrfin"] = Row("nearest", 4, <<1>>)
  /\ Lanes["vrfiz"] = Row("trunc_f", 4, <<1>>)
BY HostRows DEF LanesRound

LEMMA LanesSplatSubRows ==
  /\ Lanes["vspltisb"] = Row("imm", 1, <<>>)
  /\ Lanes["vspltish"] = Row("imm", 2, <<>>)
  /\ Lanes["vspltisw"] = Row("imm", 4, <<>>)
BY HostRows DEF LanesSplatSub

LEMMA LanesSubtractRows ==
  /\ Lanes["vsubfp"] = Row("subf", 4, <<1, 2>>)
  /\ Lanes["vsubshs"] = Row("subs_s", 2, <<1, 2>>)
  /\ Lanes["vsubsws"] = Row("subs_s", 4, <<1, 2>>)
  /\ Lanes["vsububs"] = Row("subs_u", 1, <<1, 2>>)
  /\ Lanes["vsubuhm"] = Row("sub", 2, <<1, 2>>)
BY HostRows DEF LanesSubtract

LEMMA LanesLateRows ==
  /\ Lanes["vaddsbs"] = Row("adds_s", 1, <<1, 2>>)
  /\ Lanes["vaddsws"] = Row("adds_s", 4, <<1, 2>>)
  /\ Lanes["vadduhs"] = Row("adds_u", 2, <<1, 2>>)
  /\ Lanes["vminsw"] = Row("min_s", 4, <<1, 2>>)
  /\ Lanes["vavgsw"] = Row("avg_s_wrapping", 4, <<1, 2>>)
  /\ Lanes["vsubsbs"] = Row("subs_s", 1, <<1, 2>>)
  /\ Lanes["vsububm"] = Row("sub", 1, <<1, 2>>)
BY HostRows DEF LanesLate

LEMMA LanesMiscRows ==
  /\ Lanes["vrsqrtefp"] = Row("rsqrt", 4, <<1>>)
  /\ Lanes["vxor"] = Row("xor", 1, <<1, 2>>)
BY HostRows DEF LanesMisc

LEMMA GuestAddRows ==
  /\ Guest!Lanewise["vaddfp"] = <<"addf", 4>>
  /\ Guest!Lanewise["vaddshs"] = <<"adds_s", 2>>
  /\ Guest!Lanewise["vaddubm"] = <<"add", 1>>
  /\ Guest!Lanewise["vaddubs"] = <<"adds_u", 1>>
  /\ Guest!Lanewise["vadduhm"] = <<"add", 2>>
  /\ Guest!Lanewise["vadduwm"] = <<"add", 4>>
  /\ Guest!Lanewise["vadduws"] = <<"adds_u", 4>>
  /\ Guest!Lanewise["vaddsbs"] = <<"adds_s", 1>>
  /\ Guest!Lanewise["vaddsws"] = <<"adds_s", 4>>
  /\ Guest!Lanewise["vadduhs"] = <<"adds_u", 2>>
BY GuestRows DEF Guest!Add

LEMMA GuestSubtractRows ==
  /\ Guest!Lanewise["vsubfp"] = <<"subf", 4>>
  /\ Guest!Lanewise["vsubshs"] = <<"subs_s", 2>>
  /\ Guest!Lanewise["vsubsws"] = <<"subs_s", 4>>
  /\ Guest!Lanewise["vsububs"] = <<"subs_u", 1>>
  /\ Guest!Lanewise["vsubuhm"] = <<"sub", 2>>
  /\ Guest!Lanewise["vsubsbs"] = <<"subs_s", 1>>
  /\ Guest!Lanewise["vsububm"] = <<"sub", 1>>
BY GuestRows DEF Guest!Subtract

LEMMA GuestBitOpsRows ==
  /\ Guest!Lanewise["vand"] = <<"and", 1>>
  /\ Guest!Lanewise["vandc"] = <<"andc", 1>>
  /\ Guest!Lanewise["vor"] = <<"or", 1>>
  /\ Guest!Lanewise["vnor"] = <<"nor", 1>>
  /\ Guest!Lanewise["vxor"] = <<"xor", 1>>
BY GuestRows DEF Guest!BitOps

LEMMA GuestAverageRows ==
  /\ Guest!Lanewise["vavgsb"] = <<"avg_s", 1>>
  /\ Guest!Lanewise["vavgsh"] = <<"avg_s", 2>>
  /\ Guest!Lanewise["vavgsw"] = <<"avg_s", 4>>
  /\ Guest!Lanewise["vavgub"] = <<"avg_u", 1>>
  /\ Guest!Lanewise["vavguh"] = <<"avg_u", 2>>
BY GuestRows DEF Guest!Average

LEMMA GuestMinMaxRows ==
  /\ Guest!Lanewise["vmaxfp"] = <<"maxf", 4>>
  /\ Guest!Lanewise["vmaxsh"] = <<"max_s", 2>>
  /\ Guest!Lanewise["vmaxsw"] = <<"max_s", 4>>
  /\ Guest!Lanewise["vmaxuh"] = <<"max_u", 2>>
  /\ Guest!Lanewise["vminfp"] = <<"minf", 4>>
  /\ Guest!Lanewise["vminsh"] = <<"min_s", 2>>
  /\ Guest!Lanewise["vminuh"] = <<"min_u", 2>>
  /\ Guest!Lanewise["vminsw"] = <<"min_s", 4>>
BY GuestRows DEF Guest!MinMax

LEMMA GuestFloatRows ==
  /\ Guest!Lanewise["vctsxs"] = <<"to_s", 4>>
  /\ Guest!Lanewise["vctuxs"] = <<"to_u", 4>>
  /\ Guest!Lanewise["vcfsx"] = <<"from_s", 4>>
  /\ Guest!Lanewise["vcfux"] = <<"from_u", 4>>
  /\ Guest!Lanewise["vexptefp"] = <<"exp2", 4>>
  /\ Guest!Lanewise["vlogefp"] = <<"log2", 4>>
  /\ Guest!Lanewise["vrefp"] = <<"recip", 4>>
  /\ Guest!Lanewise["vrsqrtefp"] = <<"rsqrt", 4>>
  /\ Guest!Lanewise["vrfim"] = <<"floor", 4>>
  /\ Guest!Lanewise["vrfin"] = <<"nearest", 4>>
  /\ Guest!Lanewise["vrfiz"] = <<"trunc_f", 4>>
  /\ Guest!Lanewise["vmulfp128"] = <<"mulf", 4>>
BY GuestRows DEF Guest!Float

LEMMA GuestSplatRows ==
  /\ Guest!Lanewise["vspltisb"] = <<"imm", 1>>
  /\ Guest!Lanewise["vspltish"] = <<"imm", 2>>
  /\ Guest!Lanewise["vspltisw"] = <<"imm", 4>>
BY GuestRows DEF Guest!Splat

LEMMA GuestMultiplyAddRows ==
  /\ DOMAIN Guest!MultiplyAdd = {"vmaddfp", "vnmsubfp"}
  /\ Guest!MultiplyAdd["vmaddfp"] = <<"madd", 4>>
  /\ Guest!MultiplyAdd["vnmsubfp"] = <<"nmsub", 4>>
BY DEF Guest!MultiplyAdd

\* What the host's row says of an instruction is what the guest's table does.
Same(m, row) ==
  LET g == IF m \in {"vmaddfp", "vnmsubfp"} THEN Guest!MultiplyAdd[m] ELSE Guest!Lanewise[m]
  IN  /\ row.w \in {1, 2, 4} /\ row.w = g[2]
      /\ IF m = "vandc" THEN row.op = "andnot" /\ row.src = <<2, 1>> /\ g[1] = "andc"
         ELSE /\ row.op # "andnot" /\ row.op = g[1]
              /\ row.src \in {<<>>, <<1>>, <<1, 2>>, <<1, 2, 3>>}

\* Table by table, row by row.
LEMMA LanesAddSame == \A m \in DOMAIN LanesAdd : m # "vavgsw" => Same(m, Lanes[m])
<1> USE LanesAddRows, GuestAddRows, GuestAverageRows, GuestBitOpsRows DEF Row, Same
<1>1. Same("vaddfp", Lanes["vaddfp"]) OBVIOUS
<1>2. Same("vaddshs", Lanes["vaddshs"]) OBVIOUS
<1>3. Same("vaddubm", Lanes["vaddubm"]) OBVIOUS
<1>4. Same("vaddubs", Lanes["vaddubs"]) OBVIOUS
<1>5. Same("vadduhm", Lanes["vadduhm"]) OBVIOUS
<1>6. Same("vadduwm", Lanes["vadduwm"]) OBVIOUS
<1>7. Same("vadduws", Lanes["vadduws"]) OBVIOUS
<1>8. Same("vand", Lanes["vand"]) OBVIOUS
<1>9. Same("vandc", Lanes["vandc"]) OBVIOUS
<1>10. Same("vavgsb", Lanes["vavgsb"]) OBVIOUS
<1>11. Same("vavgsh", Lanes["vavgsh"]) OBVIOUS
<1>12. Same("vavgub", Lanes["vavgub"]) OBVIOUS
<1>13. Same("vavguh", Lanes["vavguh"]) OBVIOUS
<1> HIDE LanesAddRows, GuestAddRows, GuestAverageRows, GuestBitOpsRows DEF Row, Same
<1>. QED BY <1>1, <1>2, <1>3, <1>4, <1>5, <1>6, <1>7, <1>8, <1>9, <1>10, <1>11, <1>12, <1>13 DEF LanesAdd

LEMMA LanesConvertSame == \A m \in DOMAIN LanesConvert : m # "vavgsw" => Same(m, Lanes[m])
<1> USE LanesConvertRows, GuestFloatRows DEF Row, Same
<1>1. Same("vctsxs", Lanes["vctsxs"]) OBVIOUS
<1>2. Same("vctuxs", Lanes["vctuxs"]) OBVIOUS
<1>3. Same("vcfsx", Lanes["vcfsx"]) OBVIOUS
<1>4. Same("vcfux", Lanes["vcfux"]) OBVIOUS
<1> HIDE LanesConvertRows, GuestFloatRows DEF Row, Same
<1>. QED BY <1>1, <1>2, <1>3, <1>4 DEF LanesConvert

LEMMA LanesMinMaxSame == \A m \in DOMAIN LanesMinMax : m # "vavgsw" => Same(m, Lanes[m])
<1> USE LanesMinMaxRows, GuestFloatRows, GuestMinMaxRows, GuestMultiplyAddRows DEF Row, Same
<1>1. Same("vexptefp", Lanes["vexptefp"]) OBVIOUS
<1>2. Same("vlogefp", Lanes["vlogefp"]) OBVIOUS
<1>3. Same("vmaddfp", Lanes["vmaddfp"]) OBVIOUS
<1>4. Same("vmaxfp", Lanes["vmaxfp"]) OBVIOUS
<1>5. Same("vmaxsh", Lanes["vmaxsh"]) OBVIOUS
<1>6. Same("vmaxsw", Lanes["vmaxsw"]) OBVIOUS
<1>7. Same("vmaxuh", Lanes["vmaxuh"]) OBVIOUS
<1>8. Same("vminfp", Lanes["vminfp"]) OBVIOUS
<1>9. Same("vminsh", Lanes["vminsh"]) OBVIOUS
<1>10. Same("vminuh", Lanes["vminuh"]) OBVIOUS
<1> HIDE LanesMinMaxRows, GuestFloatRows, GuestMinMaxRows, GuestMultiplyAddRows DEF Row, Same
<1>. QED BY <1>1, <1>2, <1>3, <1>4, <1>5, <1>6, <1>7, <1>8, <1>9, <1>10 DEF LanesMinMax

LEMMA LanesMultiplySame == \A m \in DOMAIN LanesMultiply : m # "vavgsw" => Same(m, Lanes[m])
<1> USE LanesMultiplyRows, GuestBitOpsRows, GuestFloatRows, GuestMultiplyAddRows DEF Row, Same
<1>1. Same("vmulfp128", Lanes["vmulfp128"]) OBVIOUS
<1>2. Same("vnmsubfp", Lanes["vnmsubfp"]) OBVIOUS
<1>3. Same("vnor", Lanes["vnor"]) OBVIOUS
<1>4. Same("vor", Lanes["vor"]) OBVIOUS
<1> HIDE LanesMultiplyRows, GuestBitOpsRows, GuestFloatRows, GuestMultiplyAddRows DEF Row, Same
<1>. QED BY <1>1, <1>2, <1>3, <1>4 DEF LanesMultiply

LEMMA LanesRoundSame == \A m \in DOMAIN LanesRound : m # "vavgsw" => Same(m, Lanes[m])
<1> USE LanesRoundRows, GuestFloatRows DEF Row, Same
<1>1. Same("vrefp", Lanes["vrefp"]) OBVIOUS
<1>2. Same("vrfim", Lanes["vrfim"]) OBVIOUS
<1>3. Same("vrfin", Lanes["vrfin"]) OBVIOUS
<1>4. Same("vrfiz", Lanes["vrfiz"]) OBVIOUS
<1> HIDE LanesRoundRows, GuestFloatRows DEF Row, Same
<1>. QED BY <1>1, <1>2, <1>3, <1>4 DEF LanesRound

LEMMA LanesSplatSubSame == \A m \in DOMAIN LanesSplatSub : m # "vavgsw" => Same(m, Lanes[m])
<1> USE LanesSplatSubRows, GuestSplatRows DEF Row, Same
<1>1. Same("vspltisb", Lanes["vspltisb"]) OBVIOUS
<1>2. Same("vspltish", Lanes["vspltish"]) OBVIOUS
<1>3. Same("vspltisw", Lanes["vspltisw"]) OBVIOUS
<1> HIDE LanesSplatSubRows, GuestSplatRows DEF Row, Same
<1>. QED BY <1>1, <1>2, <1>3 DEF LanesSplatSub

LEMMA LanesSubtractSame == \A m \in DOMAIN LanesSubtract : m # "vavgsw" => Same(m, Lanes[m])
<1> USE LanesSubtractRows, GuestSubtractRows DEF Row, Same
<1>1. Same("vsubfp", Lanes["vsubfp"]) OBVIOUS
<1>2. Same("vsubshs", Lanes["vsubshs"]) OBVIOUS
<1>3. Same("vsubsws", Lanes["vsubsws"]) OBVIOUS
<1>4. Same("vsububs", Lanes["vsububs"]) OBVIOUS
<1>5. Same("vsubuhm", Lanes["vsubuhm"]) OBVIOUS
<1> HIDE LanesSubtractRows, GuestSubtractRows DEF Row, Same
<1>. QED BY <1>1, <1>2, <1>3, <1>4, <1>5 DEF LanesSubtract

LEMMA LanesLateSame == \A m \in DOMAIN LanesLate : m # "vavgsw" => Same(m, Lanes[m])
<1> USE LanesLateRows, GuestAddRows, GuestAverageRows, GuestMinMaxRows, GuestSubtractRows DEF Row, Same
<1>1. Same("vaddsbs", Lanes["vaddsbs"]) OBVIOUS
<1>2. Same("vaddsws", Lanes["vaddsws"]) OBVIOUS
<1>3. Same("vadduhs", Lanes["vadduhs"]) OBVIOUS
<1>4. Same("vminsw", Lanes["vminsw"]) OBVIOUS
<1>5. Same("vsubsbs", Lanes["vsubsbs"]) OBVIOUS
<1>6. Same("vsububm", Lanes["vsububm"]) OBVIOUS
<1> HIDE LanesLateRows, GuestAddRows, GuestAverageRows, GuestMinMaxRows, GuestSubtractRows DEF Row, Same
<1>. QED BY <1>1, <1>2, <1>3, <1>4, <1>5, <1>6 DEF LanesLate

LEMMA LanesMiscSame == \A m \in DOMAIN LanesMisc : m # "vavgsw" => Same(m, Lanes[m])
<1> USE LanesMiscRows, GuestBitOpsRows, GuestFloatRows DEF Row, Same
<1>1. Same("vrsqrtefp", Lanes["vrsqrtefp"]) OBVIOUS
<1>2. Same("vxor", Lanes["vxor"]) OBVIOUS
<1> HIDE LanesMiscRows, GuestBitOpsRows, GuestFloatRows DEF Row, Same
<1>. QED BY <1>1, <1>2 DEF LanesMisc

\* vavgsw apart, which adds in 32 bits, the tables of both sides agree.
LEMMA RowsAreSame == \A m \in DOMAIN Lanes : m # "vavgsw" => Same(m, Lanes[m])
BY HostRows, LanesAddSame, LanesConvertSame, LanesMinMaxSame, LanesMultiplySame, LanesRoundSame, LanesSplatSubSame,
   LanesSubtractSame, LanesLateSame, LanesMiscSame

-----------------------------------------------------------------------------
(* What both sides share, and lanes.                                       *)

\* What both sides take from VectorTerms is the same.
LEMMA GuestZero == Guest!Zero = Zero
BY DEF Guest!Zero, Zero, Guest!Const, Const

LEMMA GuestZeroLane == \A lane : Guest!ZeroLane(lane) = ZeroLane(lane)
BY GuestZero DEF Guest!ZeroLane, ZeroLane

LEMMA GuestTerm == \A op, imm, args, k : Guest!Term(op, imm, args, k) = Term(op, imm, args, k)
BY GuestZero, GuestZeroLane DEF Guest!Term, Term

LEMMA GuestByteOf == \A bits : Guest!ByteOf(bits) = ByteOf(bits)
BY GuestZero DEF Guest!ByteOf, ByteOf, Guest!NoBit, NoBit

LEMMA GuestLaneOf == \A b : Guest!LaneOf(b) = LaneOf(b)
BY DEF Guest!LaneOf, LaneOf

LEMMA GuestBytes == Guest!Bytes = Bytes
BY DEF Guest!Bytes, Bytes

\* The lane a byte belongs to, and its place there, from either end.
LEMMA Widths ==
  ASSUME NEW w \in {1, 2, 4, 8}, NEW n \in Bytes
  PROVE  /\ 15 - n \in Bytes
         /\ n \div w \in 0 .. (16 \div w) - 1 /\ n % w \in 0 .. w - 1
         /\ n = w * (n \div w) + (n % w)
         /\ (15 - n) \div w = (16 \div w) - 1 - (n \div w)
         /\ (15 - n) % w = w - 1 - (n % w) /\ (15 - n) % w \in 0 .. w - 1
         /\ 0 \in 0 .. w - 1 /\ w \in Nat
<1>1. CASE w = 1 BY <1>1 DEF Bytes
<1>2. CASE w = 2 BY <1>2 DEF Bytes
<1>3. CASE w = 4 BY <1>3 DEF Bytes
<1>4. CASE w = 8 BY <1>4 DEF Bytes
<1>. QED BY <1>1, <1>2, <1>3, <1>4

\* Lane j of a register is lane j from the end of the register reversed: the
\* fact every instruction rests on.
LEMMA LaneReversed ==
  ASSUME NEW x, NEW w \in {1, 2, 4}, NEW j \in 0 .. (16 \div w) - 1
  PROVE  Guest!Lane(Reversed(x), w, j) = Lane(x, w, (16 \div w) - 1 - j)
<1>1. ASSUME NEW k \in 0 .. w - 1
      PROVE  Reversed(x)[w * j + (w - 1 - k)] = x[w * ((16 \div w) - 1 - j) + k]
  <2>1. w * j + (w - 1 - k) \in Bytes /\ 15 - (w * j + (w - 1 - k)) = w * ((16 \div w) - 1 - j) + k
    BY DEF Bytes
  <2>. QED BY <2>1 DEF Reversed
<1>. QED BY <1>1 DEF Guest!Lane, Lane

\* The operands y are the operands x reversed.
Mirrors(x, y) == DOMAIN x = DOMAIN y /\ \A m \in DOMAIN x : y[m] = Reversed(x[m])

-----------------------------------------------------------------------------
(* Lane by lane.                                                           *)

\* An instruction that works lane by lane does not see the order of the lanes.
LEMMA LanewiseAgrees ==
  ASSUME NEW op, op # "andnot", NEW w, w \in {1, 2, 4}, NEW imm, NEW x, NEW y, Mirrors(x, y)
  PROVE  Reversed(Lanewise(op, w, imm, x)) = Guest!LanewiseResult(<<op, w>>, imm, y)
<1>1. ASSUME NEW n \in Bytes
      PROVE  Lanewise(op, w, imm, x)[15 - n] = Guest!LanewiseResult(<<op, w>>, imm, y)[n]
  <2> DEFINE j == (15 - n) \div w
             k == (15 - n) % w
  <2>1. /\ 15 - n \in Bytes /\ n \in Guest!Bytes
        /\ n \div w \in 0 .. (16 \div w) - 1
        /\ j = (16 \div w) - 1 - (n \div w) /\ k = w - 1 - (n % w) /\ k \in 0 .. w - 1
    <3>1. w \in {1, 2, 4, 8} OBVIOUS
    <3>. QED BY <3>1, Widths, GuestBytes
  <2> HIDE DEF j, k
  <2>2. Lanewise(op, w, imm, x)[15 - n] = Term(op, imm, [m \in DOMAIN x |-> Lane(x[m], w, j)], k)
    BY <2>1 DEF Lanewise, FromLanes, j, k
  <2>3. Guest!LanewiseResult(<<op, w>>, imm, y)[n] = Guest!Term(op, imm, [m \in DOMAIN y |-> Guest!Lane(y[m], w, n \div w)], k)
    BY <2>1 DEF Guest!LanewiseResult, Guest!FromLanes
  <2>4. \A m \in DOMAIN x : Guest!Lane(y[m], w, n \div w) = Lane(x[m], w, j)
    BY <2>1, LaneReversed DEF Mirrors
  <2>5. [m \in DOMAIN y |-> Guest!Lane(y[m], w, n \div w)] = [m \in DOMAIN x |-> Lane(x[m], w, j)]
    BY <2>4 DEF Mirrors
  <2>. QED BY <2>2, <2>3, <2>5, GuestTerm
<1>. QED BY <1>1, GuestBytes DEF Reversed, Guest!LanewiseResult, Guest!FromLanes

\* _mm_andnot_si128 complements its first operand, vandc its second one.
LEMMA AndnotAgrees ==
  ASSUME NEW imm, NEW a, NEW b
  PROVE  Reversed(Lanewise("andnot", 1, imm, <<b, a>>)) = Guest!LanewiseResult(<<"andc", 1>>, imm, <<Reversed(a), Reversed(b)>>)
<1>1. ASSUME NEW n \in Bytes
      PROVE  Lanewise("andnot", 1, imm, <<b, a>>)[15 - n]
           = Guest!LanewiseResult(<<"andc", 1>>, imm, <<Reversed(a), Reversed(b)>>)[n]
  <2>1. 15 - n \in Bytes /\ n \in Guest!Bytes /\ n \div 1 = n /\ n % 1 = 0 /\ (15 - n) \div 1 = 15 - n /\ (15 - n) % 1 = 0
    BY Widths, GuestBytes DEF Bytes
  <2>2. Lanewise("andnot", 1, imm, <<b, a>>)[15 - n] = Term("andc", imm, <<Lane(a, 1, 15 - n), Lane(b, 1, 15 - n)>>, 0)
    BY <2>1 DEF Lanewise, FromLanes
  <2>3. Guest!LanewiseResult(<<"andc", 1>>, imm, <<Reversed(a), Reversed(b)>>)[n]
        = Guest!Term("andc", imm, <<Guest!Lane(Reversed(a), 1, n), Guest!Lane(Reversed(b), 1, n)>>, 0)
    BY <2>1 DEF Guest!LanewiseResult, Guest!FromLanes
  <2>4. \A x : Guest!Lane(Reversed(x), 1, n) = Lane(x, 1, 15 - n)
    <3> TAKE x
    <3>1. n \in 0 .. (16 \div 1) - 1 /\ (16 \div 1) - 1 - n = 15 - n
      BY DEF Bytes
    <3>. QED BY <3>1, LaneReversed
  <2>. QED BY <2>2, <2>3, <2>4, GuestTerm
<1>. QED BY <1>1, GuestBytes DEF Reversed, Guest!LanewiseResult, Guest!FromLanes

\* The count of a lane is its lowest byte, wherever the lane is.
LEMMA ShiftAgrees ==
  ASSUME NEW op, NEW w, w \in {1, 2, 4}, NEW a, NEW b
  PROVE  Reversed(ShiftLanes(<<op, w>>, a, b)) = Guest!ShiftResult(<<op, w>>, Reversed(a), Reversed(b))
<1>1. ASSUME NEW n \in Bytes
      PROVE  ShiftLanes(<<op, w>>, a, b)[15 - n] = Guest!ShiftResult(<<op, w>>, Reversed(a), Reversed(b))[n]
  <2> DEFINE j == (15 - n) \div w
             k == (15 - n) % w
  <2>1. /\ 15 - n \in Bytes /\ n \in Guest!Bytes
        /\ n \div w \in 0 .. (16 \div w) - 1
        /\ j = (16 \div w) - 1 - (n \div w) /\ k = w - 1 - (n % w) /\ k \in 0 .. w - 1 /\ 0 \in 0 .. w - 1
    <3>1. w \in {1, 2, 4, 8} OBVIOUS
    <3>. QED BY <3>1, Widths, GuestBytes
  <2> HIDE DEF j, k
  <2>2. ShiftLanes(<<op, w>>, a, b)[15 - n] = Term(op, 0, <<Lane(a, w, j), [z \in {0} |-> b[w * j]]>>, k)
    BY <2>1 DEF ShiftLanes, FromLanes, j, k
  <2>3. Guest!ShiftResult(<<op, w>>, Reversed(a), Reversed(b))[n]
        = Guest!Term(op, 0, <<Guest!Lane(Reversed(a), w, n \div w), [z \in {0} |-> Guest!Lane(Reversed(b), w, n \div w)[0]]>>, k)
    BY <2>1 DEF Guest!ShiftResult, Guest!FromLanes
  <2>4. Guest!Lane(Reversed(a), w, n \div w) = Lane(a, w, j) /\ Guest!Lane(Reversed(b), w, n \div w) = Lane(b, w, j)
    BY <2>1, LaneReversed
  <2>5. Lane(b, w, j)[0] = b[w * j]
    BY <2>1 DEF Lane
  <2>. QED BY <2>2, <2>3, <2>4, <2>5, GuestTerm
<1>. QED BY <1>1, GuestBytes DEF Reversed, Guest!ShiftResult, Guest!FromLanes

-----------------------------------------------------------------------------
(* Bytes that move from lane to lane.                                      *)

\* The high half of the console is the upper half of the host's register, and
\* the operands change places.
LEMMA MergeHighAgrees ==
  ASSUME NEW w \in {1, 2, 4}, NEW a, NEW b
  PROVE  Reversed(unpackhi(w, b, a)) = Guest!MergeResult(<<w, 0>>, Reversed(a), Reversed(b))
<1>1. ASSUME NEW n \in Bytes
      PROVE  unpackhi(w, b, a)[15 - n] = Guest!MergeResult(<<w, 0>>, Reversed(a), Reversed(b))[n]
  <2> DEFINE j == (15 - n) \div w
             g == n \div w
             k == (15 - n) % w
             t == (8 \div w) + (j \div 2)
  <2>1. /\ 15 - n \in Bytes /\ n \in Guest!Bytes
        /\ g \in 0 .. (16 \div w) - 1
        /\ j = (16 \div w) - 1 - g /\ k = w - 1 - (n % w) /\ k \in 0 .. w - 1
    <3>1. w \in {1, 2, 4, 8} OBVIOUS
    <3>. QED BY <3>1, Widths, GuestBytes
  <2>2. /\ 0 + (g \div 2) \in 0 .. (16 \div w) - 1
        /\ (16 \div w) - 1 - (0 + (g \div 2)) = t
        /\ j % 2 = 0 <=> g % 2 # 0
    <3> HIDE DEF j, g
    <3>1. CASE w = 1 BY <2>1, <3>1
    <3>2. CASE w = 2 BY <2>1, <3>2
    <3>3. CASE w = 4 BY <2>1, <3>3
    <3>. QED BY <3>1, <3>2, <3>3
  <2> HIDE DEF j, k, g, t
  <2>3. unpackhi(w, b, a)[15 - n] = Lane(IF j % 2 = 0 THEN b ELSE a, w, t)[k]
    BY <2>1 DEF unpackhi, FromLanes, j, k, t
  <2>4. Guest!MergeResult(<<w, 0>>, Reversed(a), Reversed(b))[n]
        = Guest!Lane(IF g % 2 = 0 THEN Reversed(a) ELSE Reversed(b), w, 0 + (g \div 2))[k]
    BY <2>1 DEF Guest!MergeResult, Guest!FromLanes, g
  <2>5. \A x : Guest!Lane(Reversed(x), w, 0 + (g \div 2)) = Lane(x, w, t)
    BY <2>2, LaneReversed
  <2>. QED BY <2>2, <2>3, <2>4, <2>5
<1>. QED BY <1>1, GuestBytes DEF Reversed, Guest!MergeResult, Guest!FromLanes

LEMMA MergeLowAgrees ==
  ASSUME NEW w \in {1, 2, 4}, NEW a, NEW b
  PROVE  Reversed(unpacklo(w, b, a)) = Guest!MergeResult(<<w, 8 \div w>>, Reversed(a), Reversed(b))
<1>1. ASSUME NEW n \in Bytes
      PROVE  unpacklo(w, b, a)[15 - n] = Guest!MergeResult(<<w, 8 \div w>>, Reversed(a), Reversed(b))[n]
  <2> DEFINE j == (15 - n) \div w
             g == n \div w
             k == (15 - n) % w
             t == j \div 2
  <2>1. /\ 15 - n \in Bytes /\ n \in Guest!Bytes
        /\ g \in 0 .. (16 \div w) - 1
        /\ j = (16 \div w) - 1 - g /\ k = w - 1 - (n % w) /\ k \in 0 .. w - 1
    <3>1. w \in {1, 2, 4, 8} OBVIOUS
    <3>. QED BY <3>1, Widths, GuestBytes
  <2>2. /\ (8 \div w) + (g \div 2) \in 0 .. (16 \div w) - 1
        /\ (16 \div w) - 1 - ((8 \div w) + (g \div 2)) = t
        /\ j % 2 = 0 <=> g % 2 # 0
    <3> HIDE DEF j, g
    <3>1. CASE w = 1 BY <2>1, <3>1
    <3>2. CASE w = 2 BY <2>1, <3>2
    <3>3. CASE w = 4 BY <2>1, <3>3
    <3>. QED BY <3>1, <3>2, <3>3
  <2> HIDE DEF j, k, g, t
  <2>3. unpacklo(w, b, a)[15 - n] = Lane(IF j % 2 = 0 THEN b ELSE a, w, t)[k]
    BY <2>1 DEF unpacklo, FromLanes, j, k, t
  <2>4. Guest!MergeResult(<<w, 8 \div w>>, Reversed(a), Reversed(b))[n]
        = Guest!Lane(IF g % 2 = 0 THEN Reversed(a) ELSE Reversed(b), w, (8 \div w) + (g \div 2))[k]
    BY <2>1 DEF Guest!MergeResult, Guest!FromLanes, g
  <2>5. \A x : Guest!Lane(Reversed(x), w, (8 \div w) + (g \div 2)) = Lane(x, w, t)
    BY <2>2, LaneReversed
  <2>. QED BY <2>2, <2>3, <2>4, <2>5
<1>. QED BY <1>1, GuestBytes DEF Reversed, Guest!MergeResult, Guest!FromLanes

\* The lanes of width w of the half that starts at lane first are widened.
LEMMA WidenAgrees ==
  ASSUME NEW w \in {1, 2}, NEW a, NEW x, NEW first,
         \/ first = 0 /\ \A i \in 0 .. 7 : x[i] = a[8 + i]
         \/ first = 8 \div w /\ \A i \in 0 .. 7 : x[i] = a[i]
  PROVE  Reversed(cvtepi(w, x)) = Guest!UnpackResult(<<w, first>>, Reversed(a))
<1>1. ASSUME NEW n \in Bytes
      PROVE  cvtepi(w, x)[15 - n] = Guest!UnpackResult(<<w, first>>, Reversed(a))[n]
  <2> DEFINE j == (15 - n) \div (2 * w)
             g == n \div (2 * w)
             k == (15 - n) % (2 * w)
             t == (16 \div w) - 1 - (first + g)
  <2>1. /\ 15 - n \in Bytes /\ n \in Guest!Bytes
        /\ g \in 0 .. (8 \div w) - 1
        /\ j = (8 \div w) - 1 - g /\ k = 2 * w - 1 - (n % (2 * w)) /\ k \in 0 .. 2 * w - 1
    <3> DEFINE d == 2 * w
    <3>1. d \in {1, 2, 4, 8} /\ 16 \div d = 8 \div w OBVIOUS
    <3> HIDE DEF d
    <3>2. /\ 15 - n \in Bytes /\ n \div d \in 0 .. (16 \div d) - 1
          /\ (15 - n) \div d = (16 \div d) - 1 - (n \div d)
          /\ (15 - n) % d = d - 1 - (n % d) /\ (15 - n) % d \in 0 .. d - 1
      BY <3>1, Widths
    <3>. QED BY <3>1, <3>2, GuestBytes DEF d
  <2>2. first + g \in 0 .. (16 \div w) - 1
    <3> HIDE DEF g
    <3>1. CASE w = 1 BY <2>1, <3>1
    <3>2. CASE w = 2 BY <2>1, <3>2
    <3>. QED BY <3>1, <3>2
  <2> HIDE DEF j, k, g, t
  <2>3. cvtepi(w, x)[15 - n] = Term("sext", 0, <<Lane(x, w, j)>>, k)
    BY <2>1 DEF cvtepi, FromLanes, j, k
  <2>4. Guest!UnpackResult(<<w, first>>, Reversed(a))[n]
        = Guest!Term("sext", 0, <<Guest!Lane(Reversed(a), w, first + g)>>, k)
    BY <2>1 DEF Guest!UnpackResult, Guest!FromLanes, g
  <2>5. Guest!Lane(Reversed(a), w, first + g) = Lane(a, w, t)
    BY <2>2, LaneReversed DEF t
  <2>6. Lane(x, w, j) = Lane(a, w, t)
    <3>1. ASSUME NEW z \in 0 .. w - 1 PROVE x[w * j + z] = a[w * t + z]
      <4>1. CASE first = 0
        <5>1. w * j + z \in 0 .. 7 /\ 8 + (w * j + z) = w * t + z
          <6>1. CASE w = 1 BY <2>1, <4>1, <6>1 DEF t
          <6>2. CASE w = 2 BY <2>1, <4>1, <6>2 DEF t
          <6>. QED BY <6>1, <6>2
        <5>2. first # 8 \div w BY <4>1
        <5>. QED BY <4>1, <5>1, <5>2
      <4>2. CASE first = 8 \div w
        <5>1. w * j + z \in 0 .. 7 /\ w * j + z = w * t + z
          <6>1. CASE w = 1 BY <2>1, <4>2, <6>1 DEF t
          <6>2. CASE w = 2 BY <2>1, <4>2, <6>2 DEF t
          <6>. QED BY <6>1, <6>2
        <5>2. first # 0 BY <4>2
        <5>. QED BY <4>2, <5>1, <5>2
      <4>. QED BY <4>1, <4>2
    <3>. QED BY <3>1 DEF Lane
  <2>. QED BY <2>3, <2>4, <2>5, <2>6, GuestTerm
<1>. QED BY <1>1, GuestBytes DEF Reversed, Guest!UnpackResult, Guest!FromLanes

LEMMA HighHalf ==
  ASSUME NEW a, NEW i \in 0 .. 7
  PROVE  unpackhi(8, a, a)[i] = a[8 + i]
<1>1. i \in Bytes /\ i \div 8 = 0 /\ i % 8 = i /\ i \in 0 .. 8 - 1 /\ (8 \div 8) + (0 \div 2) = 1 /\ 8 * 1 + i = 8 + i
  BY DEF Bytes
<1>2. unpackhi(8, a, a)[i] = Lane(a, 8, 1)[i]
  BY <1>1 DEF unpackhi, FromLanes
<1>. QED BY <1>1, <1>2 DEF Lane

\* A pack takes the lanes of both operands, which change places.
LEMMA PackAgrees ==
  ASSUME NEW op, NEW w, w \in {2, 4}, NEW a, NEW b
  PROVE  Reversed(pack(op, w, b, a)) = Guest!PackResult(<<op, w>>, Reversed(a), Reversed(b))
<1>1. ASSUME NEW n \in Bytes
      PROVE  pack(op, w, b, a)[15 - n] = Guest!PackResult(<<op, w>>, Reversed(a), Reversed(b))[n]
  <2> DEFINE h == w \div 2
             c == 16 \div w
             j == (15 - n) \div h
             g == n \div h
             k == (15 - n) % h
  <2>1. /\ 15 - n \in Bytes /\ n \in Guest!Bytes
        /\ g \in 0 .. 2 * c - 1
        /\ j = 2 * c - 1 - g /\ k = h - 1 - (n % h) /\ k \in 0 .. h - 1
    <3>1. h \in {1, 2, 4, 8} /\ 16 \div h = 2 * c OBVIOUS
    <3> HIDE DEF h, c
    <3>2. /\ 15 - n \in Bytes /\ n \div h \in 0 .. (16 \div h) - 1
          /\ (15 - n) \div h = (16 \div h) - 1 - (n \div h)
          /\ (15 - n) % h = h - 1 - (n % h) /\ (15 - n) % h \in 0 .. h - 1
      BY <3>1, Widths
    <3>. QED BY <3>1, <3>2, GuestBytes
  <2>2. c \in Nat /\ h \in Nat OBVIOUS
  <2> HIDE DEF j, k, g, h, c
  <2>3. pack(op, w, b, a)[15 - n] = Term(op, 0, <<IF j < c THEN Lane(b, w, j) ELSE Lane(a, w, j - c)>>, k)
    BY <2>1 DEF pack, FromLanes, j, k, h, c
  <2>4. Guest!PackResult(<<op, w>>, Reversed(a), Reversed(b))[n]
        = Guest!Term(op, 0, <<IF g < c THEN Guest!Lane(Reversed(a), w, g) ELSE Guest!Lane(Reversed(b), w, g - c)>>, k)
    BY <2>1 DEF Guest!PackResult, Guest!FromLanes, g, h, c
  <2>5. CASE g < c
    <3>1. g \in 0 .. c - 1 /\ c - 1 - g = j - c /\ ~(j < c)
      BY <2>1, <2>2, <2>5
    <3>2. Guest!Lane(Reversed(a), w, g) = Lane(a, w, j - c)
      BY <3>1, LaneReversed DEF c
    <3>. QED BY <2>3, <2>4, <2>5, <3>1, <3>2, GuestTerm
  <2>6. CASE ~(g < c)
    <3>1. g - c \in 0 .. c - 1 /\ c - 1 - (g - c) = j /\ j < c
      BY <2>1, <2>2, <2>6
    <3>2. Guest!Lane(Reversed(b), w, g - c) = Lane(b, w, j)
      BY <3>1, LaneReversed DEF c
    <3>. QED BY <2>3, <2>4, <2>6, <3>1, <3>2, GuestTerm
  <2>. QED BY <2>5, <2>6
<1>. QED BY <1>1, GuestBytes DEF Reversed, Guest!PackResult, Guest!FromLanes

\* Widths for lanes of four bytes, and LaneReversed with it.
LEMMA FourLanes ==
  ASSUME NEW n \in Bytes
  PROVE  /\ 15 - n \in Bytes /\ n \in Guest!Bytes
         /\ n \div 4 \in 0 .. 3 /\ (15 - n) \div 4 = 3 - (n \div 4)
         /\ (15 - n) % 4 = 3 - (n % 4) /\ (15 - n) % 4 \in 0 .. 3
         /\ \A x : \A j \in 0 .. 3 : Guest!Lane(Reversed(x), 4, j) = Lane(x, 4, 3 - j)
<1>1. 4 \in {1, 2, 4, 8} /\ 16 \div 4 = 4 OBVIOUS
<1>2. /\ 15 - n \in Bytes
      /\ n \div 4 \in 0 .. (16 \div 4) - 1 /\ (15 - n) \div 4 = (16 \div 4) - 1 - (n \div 4)
      /\ (15 - n) % 4 = 4 - 1 - (n % 4) /\ (15 - n) % 4 \in 0 .. 4 - 1
  BY <1>1, Widths
<1>3. ASSUME NEW x, NEW j \in 0 .. 3 PROVE Guest!Lane(Reversed(x), 4, j) = Lane(x, 4, 3 - j)
  <2>1. 4 \in {1, 2, 4} /\ j \in 0 .. (16 \div 4) - 1 /\ (16 \div 4) - 1 - j = 3 - j OBVIOUS
  <2>. QED BY <2>1, LaneReversed
<1>. QED BY <1>1, <1>2, <1>3, GuestBytes

LEMMA MultiplyAddAgrees ==
  ASSUME NEW m, m \notin {"vsel", "vperm"}, NEW op, Guest!MultiplyAdd[m] = <<op, 4>>, op # "andnot",
         NEW a, NEW b, NEW c
  PROVE  Reversed(Lanewise(op, 4, 0, <<a, b, c>>)) = Guest!Exec3(m, Reversed(a), Reversed(b), Reversed(c))
<1>1. ASSUME NEW n \in Bytes
      PROVE  Lanewise(op, 4, 0, <<a, b, c>>)[15 - n] = Guest!Exec3(m, Reversed(a), Reversed(b), Reversed(c))[n]
  <2> DEFINE j == (15 - n) \div 4
             k == (15 - n) % 4
             g == n \div 4
  <2>1. /\ 15 - n \in Bytes /\ n \in Guest!Bytes /\ g \in 0 .. 3 /\ j = 3 - g /\ k = 3 - (n % 4) /\ k \in 0 .. 3
        /\ \A x : \A i \in 0 .. 3 : Guest!Lane(Reversed(x), 4, i) = Lane(x, 4, 3 - i)
    BY FourLanes
  <2> HIDE DEF j, k, g
  <2>2. Lanewise(op, 4, 0, <<a, b, c>>)[15 - n] = Term(op, 0, <<Lane(a, 4, j), Lane(b, 4, j), Lane(c, 4, j)>>, k)
    BY <2>1 DEF Lanewise, FromLanes, j, k
  <2>3. Guest!Exec3(m, Reversed(a), Reversed(b), Reversed(c))[n]
        = Guest!Term(op, 0, <<Guest!Lane(Reversed(a), 4, g), Guest!Lane(Reversed(b), 4, g), Guest!Lane(Reversed(c), 4, g)>>, k)
    BY <2>1 DEF Guest!Exec3, Guest!FromLanes, g
  <2>. QED BY <2>1, <2>2, <2>3, GuestTerm
<1>. QED BY <1>1, GuestBytes DEF Reversed, Guest!Exec3, Guest!FromLanes

LEMMA SelectAgrees ==
  ASSUME NEW a, NEW b, NEW c
  PROVE  Reversed(Select(a, b, c)) = Guest!Exec3("vsel", Reversed(a), Reversed(b), Reversed(c))
<1> DEFINE X == Lanewise("andnot", 1, 0, <<c, a>>)
           Y == Lanewise("and", 1, 0, <<c, b>>)
           C(i) == [z \in {0} |-> Term("andc", 0, <<Lane(a, 1, i), Lane(c, 1, i)>>, 0)]
           A(i) == [z \in {0} |-> Term("and", 0, <<Lane(c, 1, i), Lane(b, 1, i)>>, 0)]
<1>1. ASSUME NEW i \in Bytes
      PROVE  /\ X[i] = Term("andc", 0, <<Lane(a, 1, i), Lane(c, 1, i)>>, 0)
             /\ Y[i] = Term("and", 0, <<Lane(c, 1, i), Lane(b, 1, i)>>, 0)
  <2>1. i \div 1 = i /\ i % 1 = 0 BY DEF Bytes
  <2>2. X[i] = Term("andc", 0, <<Lane(a, 1, i), Lane(c, 1, i)>>, 0)
    BY <2>1 DEF Lanewise, FromLanes
  <2>3. Y[i] = Term("and", 0, <<Lane(c, 1, i), Lane(b, 1, i)>>, 0)
    BY <2>1 DEF Lanewise, FromLanes
  <2>. QED BY <2>2, <2>3
<1> HIDE DEF X, Y
<1>2. ASSUME NEW i \in Bytes PROVE Lane(X, 1, i) = C(i) /\ Lane(Y, 1, i) = A(i)
  <2>1. 1 * i + 0 = i /\ 0 .. 1 - 1 = {0} BY DEF Bytes
  <2>. QED BY <1>1, <2>1 DEF Lane
<1>3. ASSUME NEW n \in Bytes
      PROVE  Select(a, b, c)[15 - n] = Guest!Exec3("vsel", Reversed(a), Reversed(b), Reversed(c))[n]
  <2>1. 15 - n \in Bytes /\ n \in Guest!Bytes /\ n \div 1 = n /\ n % 1 = 0 /\ (15 - n) \div 1 = 15 - n /\ (15 - n) % 1 = 0
    BY Widths, GuestBytes DEF Bytes
  <2>2. \A x : Guest!Lane(Reversed(x), 1, n) = Lane(x, 1, 15 - n)
    <3> TAKE x
    <3>1. n \in 0 .. (16 \div 1) - 1 /\ (16 \div 1) - 1 - n = 15 - n
      BY DEF Bytes
    <3>. QED BY <3>1, LaneReversed
  <2>3. Select(a, b, c)[15 - n] = Term("or", 0, <<Lane(X, 1, 15 - n), Lane(Y, 1, 15 - n)>>, 0)
    <3>1. Select(a, b, c) = Lanewise("or", 1, 0, <<X, Y>>) BY DEF Select, X, Y
    <3>. QED BY <2>1, <3>1 DEF Lanewise, FromLanes
  <2>4. Select(a, b, c)[15 - n] = Term("or", 0, <<C(15 - n), A(15 - n)>>, 0)
    BY <1>2, <2>1, <2>3
  <2>5. Guest!Exec3("vsel", Reversed(a), Reversed(b), Reversed(c))[n]
        = Guest!Term("or", 0,
             <<[z \in {0} |-> Guest!Term("andc", 0, <<Guest!Lane(Reversed(a), 1, n), Guest!Lane(Reversed(c), 1, n)>>, 0)],
               [z \in {0} |-> Guest!Term("and", 0, <<Guest!Lane(Reversed(c), 1, n), Guest!Lane(Reversed(b), 1, n)>>, 0)]>>, 0)
    BY <2>1 DEF Guest!Exec3, Guest!FromLanes
  <2>. QED BY <2>2, <2>4, <2>5, GuestTerm
<1>. QED BY <1>3, GuestBytes DEF Reversed, Guest!Exec3, Guest!FromLanes

\* The lanes 1, 2, 3 of the host are the first three of the console.
LEMMA DotAgrees ==
  ASSUME NEW a, NEW b
  PROVE  /\ Reversed(dp_ps(a, b, {1, 2, 3})) = Guest!DotProduct(3, Reversed(a), Reversed(b))
         /\ Reversed(dp_ps(a, b, {0, 1, 2, 3})) = Guest!DotProduct(4, Reversed(a), Reversed(b))
<1>1. ASSUME NEW l \in 3 .. 4, NEW lanes, lanes = {3 - i : i \in 0 .. l - 1}
      PROVE  Reversed(dp_ps(a, b, lanes)) = Guest!DotProduct(l, Reversed(a), Reversed(b))
  <2> DEFINE H == {<<Lane(a, 4, i), Lane(b, 4, i)>> : i \in lanes}
             G == {<<Guest!Lane(Reversed(a), 4, i), Guest!Lane(Reversed(b), 4, i)>> : i \in 0 .. l - 1}
  <2>1. \A i \in 0 .. l - 1 : /\ Guest!Lane(Reversed(a), 4, i) = Lane(a, 4, 3 - i)
                              /\ Guest!Lane(Reversed(b), 4, i) = Lane(b, 4, 3 - i)
    <3>1. 0 \in Bytes /\ \A i \in 0 .. l - 1 : i \in 0 .. 3 BY DEF Bytes
    <3>. QED BY <3>1, FourLanes
  <2>2. H = G
    <3>1. G = {<<Lane(a, 4, 3 - i), Lane(b, 4, 3 - i)>> : i \in 0 .. l - 1} BY <2>1
    <3>2. ASSUME NEW p \in H PROVE p \in G
      <4>1. PICK i \in lanes : p = <<Lane(a, 4, i), Lane(b, 4, i)>> BY <3>2
      <4>2. PICK g \in 0 .. l - 1 : i = 3 - g BY <1>1, <4>1
      <4>. QED BY <3>1, <4>1, <4>2
    <3>3. ASSUME NEW p \in G PROVE p \in H
      <4>1. PICK g \in 0 .. l - 1 : p = <<Lane(a, 4, 3 - g), Lane(b, 4, 3 - g)>> BY <3>1, <3>3
      <4>2. 3 - g \in lanes BY <1>1, <4>1
      <4>. QED BY <4>1, <4>2
    <3>. QED BY <3>2, <3>3
  <2>3. ASSUME NEW n \in Bytes
        PROVE  dp_ps(a, b, lanes)[15 - n] = Guest!DotProduct(l, Reversed(a), Reversed(b))[n]
    <3> HIDE DEF H, G
    <3> DEFINE k == (15 - n) % 4
    <3>1. /\ 15 - n \in Bytes /\ n \in Guest!Bytes /\ k = 3 - (n % 4) /\ k \in 0 .. 3 BY FourLanes
    <3> HIDE DEF k
    <3>2. dp_ps(a, b, lanes)[15 - n] = Term("dot", 0, H, k)
      BY <3>1 DEF dp_ps, FromLanes, H, k
    <3>3. Guest!DotProduct(l, Reversed(a), Reversed(b))[n] = Guest!Term("dot", 0, G, k)
      BY <3>1 DEF Guest!DotProduct, Guest!FromLanes, G
    <3>. QED BY <2>2, <3>2, <3>3, GuestTerm
  <2>. QED BY <2>3, GuestBytes DEF Reversed, Guest!DotProduct, Guest!FromLanes
<1>2. {1, 2, 3} = {3 - i : i \in 0 .. 3 - 1} /\ {0, 1, 2, 3} = {3 - i : i \in 0 .. 4 - 1}
  <2>1. 0 .. 3 - 1 = {0, 1, 2} /\ 0 .. 4 - 1 = {0, 1, 2, 3} OBVIOUS
  <2>. QED BY <2>1
<1>. QED BY <1>1, <1>2

\* The two bits of an immediate that choose a lane.
LEMMA Selector ==
  ASSUME NEW imm \in Nat, NEW j \in 0 .. 3
  PROVE  (imm \div 4 ^ j) % 4 \in 0 .. 3
OBVIOUS

\* Instructions that move bytes from lane to lane.
LEMMA PermuteWordsAgrees ==
  ASSUME NEW a, NEW imm \in Nat
  PROVE  Reversed(PermuteWords(a, imm)) = Guest!PermuteWords(Reversed(a), imm)
<1>1. ASSUME NEW n \in Bytes
      PROVE  PermuteWords(a, imm)[15 - n] = Guest!PermuteWords(Reversed(a), imm)[n]
  <2> DEFINE j == (15 - n) \div 4
             k == (15 - n) % 4
             q == (imm \div 4 ^ j) % 4
  <2>1. /\ 15 - n \in Bytes /\ n \in Guest!Bytes /\ j \in 0 .. 3 /\ j = 3 - (n \div 4)
        /\ k \in 0 .. 3 /\ k = 3 - (n % 4) /\ n % 4 = 3 - k
    <3>1. n \div 4 \in 0 .. 3 /\ n % 4 \in 0 .. 3 BY DEF Bytes
    <3>. QED BY <3>1, FourLanes
  <2> HIDE DEF j, k
  <2>2. q \in 0 .. 3 BY <2>1, Selector
  <2>3. q = (imm \div (4 ^ (3 - (n \div 4)))) % 4 BY <2>1
  <2> HIDE DEF q
  <2>4. PermuteWords(a, imm)[15 - n] = a[4 * (3 - q) + k]
    BY <2>1 DEF PermuteWords, shuffle_epi32, FromLanes, Lane, q, j, k
  <2>5. Guest!PermuteWords(Reversed(a), imm)[n] = Reversed(a)[4 * q + (n % 4)]
    BY <2>1, <2>3 DEF Guest!PermuteWords
  <2>6. 4 * q + (n % 4) \in Bytes /\ 15 - (4 * q + (n % 4)) = 4 * (3 - q) + k
    BY <2>1, <2>2 DEF Bytes
  <2>. QED BY <2>4, <2>5, <2>6 DEF Reversed
<1>. QED BY <1>1, GuestBytes DEF Reversed, Guest!PermuteWords

LEMMA RotateInsertAgrees ==
  ASSUME NEW d, NEW a, NEW mask, NEW z \in 0 .. 3
  PROVE  Reversed(RotateInsert(d, a, mask, z)) = Guest!RotateInsert(Reversed(d), Reversed(a), mask, z)
<1> DEFINE r == shuffle_epi32(a, LAMBDA j : (j + 4 - z) % 4)
<1>0. RotateInsert(d, a, mask, z) = blend_ps(d, r, mask)
  BY DEF RotateInsert
<1>1. ASSUME NEW n \in Bytes
      PROVE  blend_ps(d, r, mask)[15 - n] = Guest!RotateInsert(Reversed(d), Reversed(a), mask, z)[n]
  <2> DEFINE j == (15 - n) \div 4
             k == (15 - n) % 4
             g == (n + 4 * z) % 16
  <2>1. /\ 15 - n \in Bytes /\ n \in Guest!Bytes /\ j \in 0 .. 3 /\ j = 3 - (n \div 4)
        /\ k \in 0 .. 3 /\ k = 3 - (n % 4) /\ 4 * j + k = 15 - n
    <3>1. 4 * (3 - (n \div 4)) + (3 - (n % 4)) = 15 - n BY DEF Bytes
    <3>2. /\ 15 - n \in Bytes /\ n \in Guest!Bytes /\ n \div 4 \in 0 .. 3 /\ j = 3 - (n \div 4)
          /\ k \in 0 .. 3 /\ k = 3 - (n % 4)
      BY FourLanes
    <3> HIDE DEF j, k
    <3>. QED BY <3>1, <3>2
  <2>2. (j + 4 - z) % 4 \in 0 .. 3 /\ 15 - g = 4 * ((j + 4 - z) % 4) + k /\ g \in Bytes
    <3>1. CASE z = 0 BY <3>1 DEF Bytes
    <3>2. CASE z = 1 BY <3>2 DEF Bytes
    <3>3. CASE z = 2 BY <3>3 DEF Bytes
    <3>4. CASE z = 3 BY <3>4 DEF Bytes
    <3>. QED BY <3>1, <3>2, <3>3, <3>4
  <2> HIDE DEF r
  <2>3. blend_ps(d, r, mask)[15 - n] = IF (mask \div 2 ^ j) % 2 = 1 THEN r[15 - n] ELSE d[15 - n]
    <3> HIDE DEF j, k
    <3>1. blend_ps(d, r, mask)[15 - n] = Lane(IF (mask \div 2 ^ j) % 2 = 1 THEN r ELSE d, 4, j)[k]
      BY <2>1 DEF blend_ps, FromLanes, j, k
    <3>. QED BY <2>1, <3>1 DEF Lane
  <2>4. r[15 - n] = a[15 - g]
    <3> HIDE DEF j, k, g
    <3>1. r[15 - n] = Lane(a, 4, (j + 4 - z) % 4)[k]
      BY <2>1 DEF r, shuffle_epi32, FromLanes, j, k
    <3>. QED BY <2>1, <2>2, <3>1 DEF Lane
  <2>5. Guest!RotateInsert(Reversed(d), Reversed(a), mask, z)[n]
        = IF (mask \div (2 ^ (3 - (n \div 4)))) % 2 = 1 THEN Reversed(a)[g] ELSE Reversed(d)[n]
    BY <2>1 DEF Guest!RotateInsert
  <2> HIDE DEF j, k, g
  <2>. QED BY <2>1, <2>2, <2>3, <2>4, <2>5 DEF Reversed
<1>. QED BY <1>0, <1>1, GuestBytes DEF Reversed, Guest!RotateInsert

LEMMA PermuteAgrees ==
  ASSUME NEW a, NEW b, NEW c, \A n \in Bytes : c[n][2] \in Int
  PROVE  Reversed(mm_perm_epi8(a, b, c)) = Guest!Exec3("vperm", Reversed(a), Reversed(b), Reversed(c))
<1>1. ASSUME NEW n \in Bytes
      PROVE  mm_perm_epi8(a, b, c)[15 - n] = Guest!Exec3("vperm", Reversed(a), Reversed(b), Reversed(c))[n]
  <2>1. 15 - n \in Bytes /\ n \in Guest!Bytes BY GuestBytes DEF Bytes
  <2>2. PICK x \in Int : x = c[15 - n][2] BY <2>1
  <2>3. mm_perm_epi8(a, b, c)[15 - n] = IF (x \div 16) % 2 = 1 THEN b[15 - (x % 16)] ELSE a[15 - (x % 16)]
    BY <2>1, <2>2 DEF mm_perm_epi8
  <2>4. Guest!Exec3("vperm", Reversed(a), Reversed(b), Reversed(c))[n]
        = IF x % 32 < 16 THEN Reversed(a)[x % 32] ELSE Reversed(b)[(x % 32) - 16]
    <3> DEFINE p == [i \in Guest!Bytes |-> LET y == Reversed(c)[i][2] % 32
                                            IN  IF y < 16 THEN Reversed(a)[y] ELSE Reversed(b)[y - 16]]
    <3>1. Guest!Exec3("vperm", Reversed(a), Reversed(b), Reversed(c)) = p
      <4>1. "vperm" # "vsel" OBVIOUS
      <4>. QED BY <4>1, Zenon DEF Guest!Exec3
    <3>2. Reversed(c)[n] = c[15 - n] BY DEF Reversed
    <3>. QED BY <2>1, <2>2, <3>1, <3>2
  <2>5. CASE x % 32 < 16
    <3>1. x % 32 = x % 16 /\ (x \div 16) % 2 # 1 /\ x % 16 \in Bytes BY <2>5 DEF Bytes
    <3>. QED BY <2>3, <2>4, <2>5, <3>1 DEF Reversed
  <2>6. CASE ~(x % 32 < 16)
    <3>1. (x % 32) - 16 = x % 16 /\ (x \div 16) % 2 = 1 /\ x % 16 \in Bytes BY <2>6 DEF Bytes
    <3>. QED BY <2>3, <2>4, <2>6, <3>1 DEF Reversed
  <2>. QED BY <2>5, <2>6
<1>. QED BY <1>1, GuestBytes DEF Reversed, Guest!Exec3

LEMMA ShiftDoubleAgrees ==
  ASSUME NEW a, NEW b, NEW sh \in 0 .. 15
  PROVE  Reversed(ShiftDouble(a, b, sh)) = Guest!ShiftDouble(Reversed(a), Reversed(b), sh)
<1>1. ASSUME NEW n \in Bytes
      PROVE  ShiftDouble(a, b, sh)[15 - n] = Guest!ShiftDouble(Reversed(a), Reversed(b), sh)[n]
  <2>1. 15 - n \in Bytes /\ n \in Guest!Bytes BY GuestBytes DEF Bytes
  <2>2. CASE n + sh < 16
    <3>1. /\ ~((15 - n) + (16 - sh) < 16) /\ (15 - n) + (16 - sh) < 32
          /\ (15 - n) + (16 - sh) - 16 = 15 - (n + sh) /\ n + sh \in Bytes
      BY <2>2 DEF Bytes
    <3>2. ShiftDouble(a, b, sh)[15 - n] = a[15 - (n + sh)] BY <2>1, <3>1 DEF ShiftDouble, alignr_epi8
    <3>3. Guest!ShiftDouble(Reversed(a), Reversed(b), sh)[n] = Reversed(a)[n + sh] BY <2>1, <2>2 DEF Guest!ShiftDouble
    <3>. QED BY <3>1, <3>2, <3>3 DEF Reversed
  <2>3. CASE ~(n + sh < 16)
    <3>1. (15 - n) + (16 - sh) < 16 /\ (15 - n) + (16 - sh) = 15 - (n + sh - 16) /\ n + sh - 16 \in Bytes
      BY <2>3 DEF Bytes
    <3>2. ShiftDouble(a, b, sh)[15 - n] = b[15 - (n + sh - 16)] BY <2>1, <3>1 DEF ShiftDouble, alignr_epi8
    <3>3. Guest!ShiftDouble(Reversed(a), Reversed(b), sh)[n] = Reversed(b)[n + sh - 16] BY <2>1, <2>3 DEF Guest!ShiftDouble
    <3>. QED BY <3>1, <3>2, <3>3 DEF Reversed
  <2>. QED BY <2>2, <2>3
<1>. QED BY <1>1, GuestBytes DEF Reversed, Guest!ShiftDouble

LEMMA SplatByteAgrees ==
  ASSUME NEW a, NEW imm \in 0 .. 15
  PROVE  Reversed(SplatByte(a, imm)) = Guest!SplatByte(Reversed(a), imm)
<1>1. ASSUME NEW n \in Bytes PROVE SplatByte(a, imm)[15 - n] = Guest!SplatByte(Reversed(a), imm)[n]
  <2>1. 15 - n \in Bytes /\ n \in Guest!Bytes /\ imm \in Bytes BY GuestBytes DEF Bytes
  <2>. QED BY <2>1 DEF SplatByte, Guest!SplatByte, Reversed
<1>. QED BY <1>1, GuestBytes DEF Reversed, Guest!SplatByte

LEMMA SplatHalfAgrees ==
  ASSUME NEW a, NEW imm \in 0 .. 7
  PROVE  Reversed(SplatHalf(a, imm)) = Guest!SplatHalf(Reversed(a), imm)
<1>1. ASSUME NEW n \in Bytes PROVE SplatHalf(a, imm)[15 - n] = Guest!SplatHalf(Reversed(a), imm)[n]
  <2>1. 15 - n \in Bytes /\ n \in Guest!Bytes BY GuestBytes DEF Bytes
  <2>2. SplatHalf(a, imm)[15 - n] = a[2 * (7 - imm) + ((15 - n) % 2)] BY <2>1 DEF SplatHalf
  <2>3. Guest!SplatHalf(Reversed(a), imm)[n] = Reversed(a)[2 * imm + (n % 2)] BY <2>1 DEF Guest!SplatHalf
  <2>4. 2 * imm + (n % 2) \in Bytes /\ 15 - (2 * imm + (n % 2)) = 2 * (7 - imm) + ((15 - n) % 2) BY DEF Bytes
  <2>. QED BY <2>2, <2>3, <2>4 DEF Reversed
<1>. QED BY <1>1, GuestBytes DEF Reversed, Guest!SplatHalf

LEMMA SplatWordAgrees ==
  ASSUME NEW a, NEW imm \in 0 .. 3
  PROVE  Reversed(SplatWord(a, imm)) = Guest!SplatWord(Reversed(a), imm)
<1>1. ASSUME NEW n \in Bytes PROVE SplatWord(a, imm)[15 - n] = Guest!SplatWord(Reversed(a), imm)[n]
  <2>1. 15 - n \in Bytes /\ n \in Guest!Bytes /\ (15 - n) % 4 \in 0 .. 3 BY FourLanes
  <2>2. SplatWord(a, imm)[15 - n] = a[4 * (3 - imm) + ((15 - n) % 4)]
    BY <2>1 DEF SplatWord, shuffle_epi32, FromLanes, Lane
  <2>3. Guest!SplatWord(Reversed(a), imm)[n] = Reversed(a)[4 * imm + (n % 4)] BY <2>1 DEF Guest!SplatWord
  <2>4. 4 * imm + (n % 4) \in Bytes /\ 15 - (4 * imm + (n % 4)) = 4 * (3 - imm) + ((15 - n) % 4) BY DEF Bytes
  <2>. QED BY <2>2, <2>3, <2>4 DEF Reversed
<1>. QED BY <1>1, GuestBytes DEF Reversed, Guest!SplatWord

\* The bits of a, s places further to the left, with zeros behind them.
Moved(B, a, s) ==
  \A p \in 0 .. 127 : B[p] = IF p - s \in 0 .. 127 THEN <<a[(p - s) \div 8], (p - s) % 8>> ELSE NoBit

\* Bits n places to the left, byte by byte, are what a shift by n bits leaves.
LEMMA BitsAgree ==
  ASSUME NEW a, NEW s \in Int, NEW B, Moved(B, a, s)
  PROVE  Reversed(FromBits(B)) = Guest!ShiftBits(Reversed(a), s)
<1>1. ASSUME NEW n \in Bytes
      PROVE  FromBits(B)[15 - n] = Guest!ShiftBits(Reversed(a), s)[n]
  <2>1. 15 - n \in Bytes /\ n \in Guest!Bytes BY GuestBytes DEF Bytes
  <2> DEFINE H == [t \in 0 .. 7 |-> B[8 * (15 - n) + t]]
             G == [t \in 0 .. 7 |-> LET p == 8 * (15 - n) + t - s
                                    IN  IF p \in 0 .. 127 THEN <<Reversed(a)[15 - (p \div 8)], p % 8>> ELSE Guest!NoBit]
  <2>2. ASSUME NEW t \in 0 .. 7 PROVE H[t] = G[t]
    <3> DEFINE p == 8 * (15 - n) + t - s
    <3>1. 8 * (15 - n) + t \in 0 .. 127 /\ (8 * (15 - n) + t) - s = p BY DEF Bytes
    <3>2. p \in Int BY DEF Bytes
    <3>3. G[t] = IF p \in 0 .. 127 THEN <<Reversed(a)[15 - (p \div 8)], p % 8>> ELSE Guest!NoBit OBVIOUS
    <3> HIDE DEF p, G
    <3>4. H[t] = IF p \in 0 .. 127 THEN <<a[p \div 8], p % 8>> ELSE NoBit BY <3>1 DEF Moved
    <3>5. Guest!NoBit = NoBit BY GuestZero DEF Guest!NoBit, NoBit
    <3>6. p \in 0 .. 127 => Reversed(a)[15 - (p \div 8)] = a[p \div 8]
      <4> SUFFICES ASSUME p \in 0 .. 127 PROVE Reversed(a)[15 - (p \div 8)] = a[p \div 8] OBVIOUS
      <4>1. 15 - (p \div 8) \in Bytes /\ 15 - (15 - (p \div 8)) = p \div 8 BY DEF Bytes
      <4>. QED BY <4>1 DEF Reversed
    <3>. QED BY <3>3, <3>4, <3>5, <3>6
  <2>3. H = G BY <2>2
  <2>4. FromBits(B)[15 - n] = ByteOf(H) BY <2>1 DEF FromBits
  <2>5. Guest!ShiftBits(Reversed(a), s)[n] = Guest!ByteOf(G) BY <2>1 DEF Guest!ShiftBits
  <2>. QED BY <2>3, <2>4, <2>5, GuestByteOf
<1>. QED BY <1>1, GuestBytes DEF Reversed, Guest!ShiftBits

\* Where the bits of a register come from: the shifts of mm_vsl and mm_vsr.
LEMMA NoShift ==
  ASSUME NEW a
  PROVE  Reversed(a) = Guest!ShiftBits(Reversed(a), 0)
<1>1. ASSUME NEW n \in Bytes PROVE a[15 - n] = Guest!ShiftBits(Reversed(a), 0)[n]
  <2>1. 15 - n \in Bytes /\ n \in Guest!Bytes BY GuestBytes DEF Bytes
  <2> DEFINE G == [t \in 0 .. 7 |-> LET p == 8 * (15 - n) + t - 0
                                    IN  IF p \in 0 .. 127 THEN <<Reversed(a)[15 - (p \div 8)], p % 8>> ELSE Guest!NoBit]
             H == [t \in 0 .. 7 |-> <<a[15 - n], t>>]
  <2>2. ASSUME NEW t \in 0 .. 7 PROVE G[t] = H[t]
    <3>1. /\ 8 * (15 - n) + t - 0 \in 0 .. 127 /\ (8 * (15 - n) + t - 0) \div 8 = 15 - n
          /\ (8 * (15 - n) + t - 0) % 8 = t /\ 15 - (15 - n) = n
      BY DEF Bytes
    <3>. QED BY <3>1 DEF Reversed
  <2>3. G = H BY <2>2
  <2>4. Guest!ShiftBits(Reversed(a), 0)[n] = Guest!ByteOf(G) BY <2>1 DEF Guest!ShiftBits
  <2>5. ByteOf(H) = a[15 - n]
    <3>1. H[0][1] = a[15 - n] OBVIOUS
    <3>. QED BY <3>1 DEF ByteOf
  <2>. QED BY <2>3, <2>4, <2>5, GuestByteOf
<1>. QED BY <1>1, GuestBytes DEF Reversed, Guest!ShiftBits

LEMMA ShiftLeftAgrees ==
  ASSUME NEW a, NEW b, b[15][2] \in Int
  PROVE  Reversed(mm_vsl(a, b)) = Guest!ShiftBits(Reversed(a), b[15][2] % 8)
<1>1. PICK s \in 0 .. 7 : s = b[15][2] % 8 OBVIOUS
<1>2. CASE s = 0
  <2>1. mm_vsl(a, b) = a BY <1>1, <1>2 DEF mm_vsl
  <2>. QED BY <1>1, <1>2, <2>1, NoShift
<1>3. CASE s # 0
  <2> DEFINE x == Bits(a)
             L == slli_epi64(x, s)
             T == slli_si128(x, 8)
             R == srli_epi64(T, 64 - s)
             B == OrBits(L, R)
  <2>1. mm_vsl(a, b) = FromBits(B) BY <1>1, <1>3 DEF mm_vsl
  <2>2. \A p \in 0 .. 127 : x[p] = <<a[p \div 8], p % 8>> BY DEF Bits
  <2> HIDE DEF x
  <2>3. \A p \in 0 .. 127 : L[p] = IF (p % 64) >= s THEN x[p - s] ELSE NoBit BY DEF slli_epi64
  <2>4. \A p \in 0 .. 127 : T[p] = IF p >= 64 THEN x[p - 64] ELSE NoBit BY DEF slli_si128
  <2> HIDE DEF T
  <2>5. \A p \in 0 .. 127 : R[p] = IF (p % 64) + (64 - s) < 64 THEN T[p + (64 - s)] ELSE NoBit BY DEF srli_epi64
  <2> HIDE DEF L, R
  <2>6. \A p \in 0 .. 127 : B[p] = IF L[p] = NoBit THEN R[p] ELSE L[p] BY DEF OrBits
  <2> HIDE DEF B
  <2>7. ASSUME NEW p \in 0 .. 127
        PROVE  B[p] = IF p - s \in 0 .. 127 THEN <<a[(p - s) \div 8], (p - s) % 8>> ELSE NoBit
    <3>1. CASE (p % 64) >= s
      <4>1. p - s \in 0 .. 127 /\ ~((p % 64) + (64 - s) < 64) BY <3>1
      <4>2. L[p] = x[p - s] /\ R[p] = NoBit BY <2>3, <2>5, <3>1, <4>1
      <4>. QED BY <2>2, <2>6, <4>1, <4>2
    <3>2. CASE ~((p % 64) >= s) /\ p >= 64
      <4>1. p - s \in 0 .. 127 /\ (p % 64) + (64 - s) < 64 /\ p + (64 - s) \in 0 .. 127 /\ p + (64 - s) >= 64
            /\ (p + (64 - s)) - 64 = p - s
        BY <1>3, <3>2
      <4>2. L[p] = NoBit /\ R[p] = x[p - s] BY <2>3, <2>4, <2>5, <3>2, <4>1
      <4>. QED BY <2>2, <2>6, <4>1, <4>2
    <3>3. CASE ~((p % 64) >= s) /\ ~(p >= 64)
      <4>1. p - s \notin 0 .. 127 /\ (p % 64) + (64 - s) < 64 /\ p + (64 - s) \in 0 .. 127 /\ ~(p + (64 - s) >= 64)
        BY <1>3, <3>3
      <4>2. L[p] = NoBit /\ R[p] = NoBit BY <2>3, <2>4, <2>5, <3>3, <4>1
      <4>. QED BY <2>6, <4>1, <4>2
    <3>. QED BY <3>1, <3>2, <3>3
  <2>8. Moved(B, a, s) BY <2>7 DEF Moved
  <2>. QED BY <1>1, <2>1, <2>8, BitsAgree
<1>. QED BY <1>2, <1>3

\* The lane that insert_ps puts in has the bits that cross from one half of
\* the register into the other.
LEMMA RightShiftPlaces ==
  ASSUME NEW s \in 0 .. 7, NEW p \in 0 .. 127
  PROVE  /\ p \in 32 .. 63 => /\ p - 32 \in 0 .. 127 /\ ((p - 32) % 64) + s < 64 /\ (p - 32) + s \in 0 .. 127
                              /\ (p - 32) + s + 32 < 128 /\ (p - 32) + s + 32 = p + s /\ p + s \in 0 .. 127
         /\ p \notin 32 .. 63 => ((p % 64) + s < 64 <=> p + s \in 0 .. 127)
         /\ p - (-s) = p + s
<1>1. ASSUME p \in 32 .. 63 PROVE (p - 32) % 64 = p - 32 BY <1>1
<1>2. ASSUME p \in 0 .. 31 PROVE p % 64 = p BY <1>2
<1>3. ASSUME p \in 64 .. 127 PROVE p % 64 = p - 64 BY <1>3
<1>4. ASSUME p \notin 32 .. 63 PROVE (p % 64) + s < 64 <=> p + s \in 0 .. 127
  <2>1. p \in 0 .. 31 \/ p \in 64 .. 127 BY <1>4
  <2>. QED BY <1>2, <1>3, <2>1
<1>. QED BY <1>1, <1>4

LEMMA ShiftRightAgrees ==
  ASSUME NEW a, NEW b, b[0][2] \in Int
  PROVE  Reversed(mm_vsr(a, b)) = Guest!ShiftBits(Reversed(a), -(b[0][2] % 8))
<1>1. PICK s \in 0 .. 7 : s = b[0][2] % 8 OBVIOUS
<1> DEFINE w == Bits(a)
           x == srli_epi64(w, s)
           T == srli_si128(w, 4)
           y == srli_epi64(T, s)
           B == [p \in 0 .. 127 |-> IF p \in 32 .. 63 THEN y[p - 32] ELSE x[p]]
<1>2. mm_vsr(a, b) = FromBits(B) BY <1>1 DEF mm_vsr
<1>3. \A p \in 0 .. 127 : w[p] = <<a[p \div 8], p % 8>> BY DEF Bits
<1> HIDE DEF w
<1>4. \A p \in 0 .. 127 : x[p] = IF (p % 64) + s < 64 THEN w[p + s] ELSE NoBit BY DEF srli_epi64
<1>5. \A p \in 0 .. 127 : T[p] = IF p + 32 < 128 THEN w[p + 32] ELSE NoBit BY DEF srli_si128
<1> HIDE DEF T
<1>6. \A p \in 0 .. 127 : y[p] = IF (p % 64) + s < 64 THEN T[p + s] ELSE NoBit BY DEF srli_epi64
<1> HIDE DEF x, y
<1>7. \A p \in 0 .. 127 : B[p] = IF p \in 32 .. 63 THEN y[p - 32] ELSE x[p] OBVIOUS
<1> HIDE DEF B
<1>8. ASSUME NEW p \in 0 .. 127
      PROVE  B[p] = IF p - (-s) \in 0 .. 127 THEN <<a[(p - (-s)) \div 8], (p - (-s)) % 8>> ELSE NoBit
  <2>1. PICK q \in Int : q = p + s /\ q = p - (-s) BY RightShiftPlaces
  <2>2. B[p] = IF q \in 0 .. 127 THEN w[q] ELSE NoBit
    <3>1. CASE p \in 32 .. 63
      <4>1. /\ p - 32 \in 0 .. 127 /\ ((p - 32) % 64) + s < 64 /\ (p - 32) + s \in 0 .. 127
            /\ (p - 32) + s + 32 < 128 /\ (p - 32) + s + 32 = q /\ q \in 0 .. 127
        BY <2>1, <3>1, RightShiftPlaces
      <4> DEFINE c == p - 32
                 e == c + s
      <4>2. c \in 0 .. 127 /\ (c % 64) + s < 64 /\ e \in 0 .. 127 /\ e + 32 < 128 /\ e + 32 = q BY <4>1
      <4>3. B[p] = y[c] BY <1>7, <3>1
      <4> HIDE DEF c
      <4>4. y[c] = T[e] BY <1>6, <4>2
      <4> HIDE DEF e
      <4>5. T[e] = w[q] BY <1>5, <4>2
      <4>. QED BY <4>1, <4>3, <4>4, <4>5
    <3>2. CASE p \notin 32 .. 63
      <4>1. (p % 64) + s < 64 <=> q \in 0 .. 127 BY <2>1, <3>2, RightShiftPlaces
      <4>2. B[p] = x[p] BY <1>7, <3>2
      <4>. QED BY <1>4, <2>1, <4>1, <4>2
    <3>. QED BY <3>1, <3>2
  <2>3. B[p] = IF q \in 0 .. 127 THEN <<a[q \div 8], q % 8>> ELSE NoBit BY <1>3, <2>2
  <2>. QED BY <2>1, <2>3
<1>9. Moved(B, a, -s) BY <1>8 DEF Moved
<1>10. -s \in Int OBVIOUS
<1>. QED BY <1>1, <1>2, <1>9, <1>10, BitsAgree

\* Unpacking colours and shorts.
LEMMA UnpackColourAgrees ==
  ASSUME NEW a
  PROVE  Reversed(UnpackColour(a)) = Guest!UnpackColour(Reversed(a))
<1>1. ASSUME NEW n \in Bytes PROVE UnpackColour(a)[15 - n] = Guest!UnpackColour(Reversed(a))[n]
  <2> DEFINE j == (15 - n) \div 4
             k == (15 - n) % 4
             g == n \div 4
             c == 12 + ((g + 1) % 4)
  <2>1. /\ 15 - n \in Bytes /\ n \in Guest!Bytes /\ g \in 0 .. 3 /\ j = 3 - g /\ k = 3 - (n % 4) /\ k \in 0 .. 3
    BY FourLanes
  <2> HIDE DEF j, k, g
  <2>2. <<3, 0, 1, 2>>[j + 1] = 15 - c /\ c \in Bytes
    <3>1. CASE g = 0 BY <2>1, <3>1 DEF Bytes
    <3>2. CASE g = 1 BY <2>1, <3>2 DEF Bytes
    <3>3. CASE g = 2 BY <2>1, <3>3 DEF Bytes
    <3>4. CASE g = 3 BY <2>1, <3>4 DEF Bytes
    <3>. QED BY <2>1, <3>1, <3>2, <3>3, <3>4
  <2> HIDE DEF c
  <2>3. UnpackColour(a)[15 - n] = Term("unpack_colour", 0, <<[z \in {0} |-> a[<<3, 0, 1, 2>>[j + 1]]]>>, k)
    BY <2>1 DEF UnpackColour, FromLanes, j, k
  <2>4. Guest!UnpackColour(Reversed(a))[n] = Guest!Term("unpack_colour", 0, <<[z \in {0} |-> Reversed(a)[c]]>>, k)
    BY <2>1 DEF Guest!UnpackColour, Guest!FromLanes, g, c
  <2>5. Reversed(a)[c] = a[<<3, 0, 1, 2>>[j + 1]] BY <2>2 DEF Reversed
  <2>. QED BY <2>3, <2>4, <2>5, GuestTerm
<1>. QED BY <1>1, GuestBytes DEF Reversed, Guest!UnpackColour, Guest!FromLanes

LEMMA UnpackShortsAgrees ==
  ASSUME NEW a
  PROVE  Reversed(UnpackShorts(a)) = Guest!UnpackShorts(Reversed(a))
<1>1. ASSUME NEW n \in Bytes PROVE UnpackShorts(a)[15 - n] = Guest!UnpackShorts(Reversed(a))[n]
  <2> DEFINE j == (15 - n) \div 4
             k == (15 - n) % 4
             g == n \div 4
  <2>1. /\ 15 - n \in Bytes /\ n \in Guest!Bytes /\ g \in 0 .. 3 /\ j = 3 - g /\ k = 3 - (n % 4) /\ k \in 0 .. 3
    BY FourLanes
  <2> HIDE DEF j, k, g
  <2>2. UnpackShorts(a)[15 - n] = IF j >= 2 THEN Term("short_plus_3", 0, <<Lane(a, 2, j - 2)>>, k)
                                  ELSE Term(IF j = 1 THEN "float_0" ELSE "float_1", 0, <<>>, k)
    BY <2>1 DEF UnpackShorts, FromLanes, j, k
  <2>3. Guest!UnpackShorts(Reversed(a))[n]
       = IF g < 2 THEN Guest!Term("short_plus_3", 0, <<Guest!Lane(Reversed(a), 2, 6 + g)>>, k)
                                             ELSE Guest!Term(IF g = 2 THEN "float_0" ELSE "float_1", 0, <<>>, k)
    BY <2>1 DEF Guest!UnpackShorts, Guest!FromLanes, g
  <2>4. g < 2 => Guest!Lane(Reversed(a), 2, 6 + g) = Lane(a, 2, j - 2)
    <3> SUFFICES ASSUME g < 2 PROVE Guest!Lane(Reversed(a), 2, 6 + g) = Lane(a, 2, j - 2) OBVIOUS
    <3>1. 6 + g \in 0 .. (16 \div 2) - 1 /\ (16 \div 2) - 1 - (6 + g) = j - 2 BY <2>1
    <3>. QED BY <3>1, LaneReversed
  <2>5. (j >= 2 <=> g < 2) /\ (j = 1 <=> g = 2) BY <2>1
  <2>. QED BY <2>2, <2>3, <2>4, <2>5, GuestTerm
<1>. QED BY <1>1, GuestBytes DEF Reversed, Guest!UnpackShorts, Guest!FromLanes

-----------------------------------------------------------------------------
(* Loads. *)

LEMMA GuestConst == \A n : Guest!Const(n) = Const(n)
BY DEF Guest!Const, Const

LEMMA LineAgrees ==
  ASSUME NEW ea \in Nat
  PROVE  Reversed(LoadLine(ea)) = Guest!LoadResult("lvx", ea)
<1>1. PICK o \in 0 .. 15 : o = ea % 16 OBVIOUS
<1>2. Guest!LoadResult("lvx", ea) = [n \in Guest!Bytes |-> mem[ea - o + n]]
  BY <1>1 DEF Guest!LoadResult
<1>3. ASSUME NEW n \in Bytes PROVE LoadLine(ea)[15 - n] = mem[ea - o + n]
  <2> DEFINE line == [i \in Bytes |-> mem[ea - o + i]]
  <2>1. 15 - n \in Bytes /\ ~(15 - n < 0) /\ 15 - ((15 - n) - 0) = n /\ ~(n >= 128) /\ n % 16 = n BY DEF Bytes
  <2>2. VectorMaskL(0)[15 - n] = n BY <2>1 DEF VectorMaskL
  <2>3. LoadLine(ea) = shuffle_epi8(line, VectorMaskL(0)) BY <1>1 DEF LoadLine
  <2>4. line[n] = mem[ea - o + n] OBVIOUS
  <2> HIDE DEF line
  <2>. QED BY <2>1, <2>2, <2>3, <2>4 DEF shuffle_epi8
<1>. QED BY <1>2, <1>3, GuestBytes DEF Reversed

LEMMA LoadAgrees ==
  ASSUME NEW ea \in Nat, NEW m \in {"lvlx", "lvrx", "lvsl", "lvsr"}
  PROVE  Reversed(Load(m, ea)) = Guest!LoadResult(m, ea)
<1>1. PICK o \in 0 .. 15 : o = ea % 16 OBVIOUS
<1> DEFINE line == [i \in Bytes |-> mem[ea - o + i]]
<1>2. CASE m = "lvlx"
  <2>1. Load(m, ea) = shuffle_epi8(line, VectorMaskL(o)) BY <1>1, <1>2 DEF Load
  <2>2. Guest!LoadResult(m, ea) = [n \in Guest!Bytes |-> IF n < 16 - o THEN mem[ea + n] ELSE Guest!Zero]
    BY <1>1, <1>2 DEF Guest!LoadResult
  <2>3. ASSUME NEW n \in Bytes PROVE Load(m, ea)[15 - n] = IF n < 16 - o THEN mem[ea + n] ELSE Zero
    <3>1. 15 - n \in Bytes BY DEF Bytes
    <3>2. VectorMaskL(o)[15 - n] = IF 15 - n < o THEN 255 ELSE 15 - ((15 - n) - o) BY <3>1 DEF VectorMaskL
    <3>3. CASE n < 16 - o
      <4>1. ~(15 - n < o) /\ 15 - ((15 - n) - o) = n + o /\ n + o \in Bytes /\ ~(n + o >= 128) /\ (n + o) % 16 = n + o
        BY <3>3 DEF Bytes
      <4>2. line[n + o] = mem[ea + n]
        <5>1. ea - o + (n + o) = ea + n BY DEF Bytes
        <5>. QED BY <4>1, <5>1
      <4> HIDE DEF line
      <4>. QED BY <2>1, <3>1, <3>2, <3>3, <4>1, <4>2 DEF shuffle_epi8
    <3>4. CASE ~(n < 16 - o)
      <4>1. 15 - n < o BY <3>4 DEF Bytes
      <4> HIDE DEF line
      <4>. QED BY <2>1, <3>1, <3>2, <3>4, <4>1 DEF shuffle_epi8
    <3>. QED BY <3>3, <3>4
  <2>. QED BY <2>2, <2>3, GuestBytes, GuestZero DEF Reversed
<1>3. CASE m = "lvrx"
  <2>2. Guest!LoadResult(m, ea) = [n \in Guest!Bytes |-> IF n >= 16 - o THEN mem[ea - 16 + n] ELSE Guest!Zero]
    BY <1>1, <1>3 DEF Guest!LoadResult
  <2>3. ASSUME NEW n \in Bytes PROVE Load(m, ea)[15 - n] = IF n >= 16 - o THEN mem[ea - 16 + n] ELSE Zero
    <3>1. 15 - n \in Bytes BY DEF Bytes
    <3>2. VectorMaskR(o)[15 - n] = IF 15 - n < o THEN o - 1 - (15 - n) ELSE 255 BY <3>1 DEF VectorMaskR
    <3>3. CASE n >= 16 - o
      <4>0. o # 0 BY <3>3 DEF Bytes
      <4>1. 15 - n < o /\ o - 1 - (15 - n)
           = n + o - 16 /\ n + o - 16 \in Bytes /\ ~(n + o - 16 >= 128) /\ (n + o - 16) % 16 = n + o - 16
        BY <3>3 DEF Bytes
      <4>2. line[n + o - 16] = mem[ea - 16 + n]
        <5>1. ea - o + (n + o - 16) = ea - 16 + n BY DEF Bytes
        <5>. QED BY <4>1, <5>1
      <4>3. Load(m, ea) = shuffle_epi8(line, VectorMaskR(o)) BY <1>1, <1>3, <4>0 DEF Load
      <4> HIDE DEF line
      <4>. QED BY <3>1, <3>2, <3>3, <4>1, <4>2, <4>3 DEF shuffle_epi8
    <3>4. CASE ~(n >= 16 - o) /\ o # 0
      <4>1. ~(15 - n < o) BY <3>4 DEF Bytes
      <4>3. Load(m, ea) = shuffle_epi8(line, VectorMaskR(o)) BY <1>1, <1>3, <3>4 DEF Load
      <4> HIDE DEF line
      <4>. QED BY <3>1, <3>2, <3>4, <4>1, <4>3 DEF shuffle_epi8
    <3>5. CASE ~(n >= 16 - o) /\ o = 0
      <4>3. Load(m, ea) = [i \in Bytes |-> Zero] BY <1>1, <1>3, <3>5 DEF Load
      <4>. QED BY <3>1, <3>5, <4>3
    <3>. QED BY <3>3, <3>4, <3>5
  <2>. QED BY <2>2, <2>3, GuestBytes, GuestZero DEF Reversed
<1>4. CASE m = "lvsl"
  <2>1. Load(m, ea) = VectorShiftTableL(o) BY <1>1, <1>4 DEF Load
  <2>2. Guest!LoadResult(m, ea) = [n \in Guest!Bytes |-> Guest!Const(o + n)] BY <1>1, <1>4 DEF Guest!LoadResult
  <2>3. ASSUME NEW n \in Bytes PROVE VectorShiftTableL(o)[15 - n] = Const(o + n)
    <3>1. 15 - n \in Bytes /\ 15 - (15 - n) + o = o + n BY DEF Bytes
    <3>. QED BY <3>1 DEF VectorShiftTableL
  <2>. QED BY <2>1, <2>2, <2>3, GuestBytes, GuestConst DEF Reversed
<1>5. CASE m = "lvsr"
  <2>1. Load(m, ea) = VectorShiftTableR(o) BY <1>1, <1>5 DEF Load
  <2>2. Guest!LoadResult(m, ea) = [n \in Guest!Bytes |-> Guest!Const(16 - o + n)] BY <1>1, <1>5 DEF Guest!LoadResult
  <2>3. ASSUME NEW n \in Bytes PROVE VectorShiftTableR(o)[15 - n] = Const(16 - o + n)
    <3>1. 15 - n \in Bytes /\ 31 - (15 - n) - o = 16 - o + n BY DEF Bytes
    <3>. QED BY <3>1 DEF VectorShiftTableR
  <2>. QED BY <2>1, <2>2, <2>3, GuestBytes, GuestConst DEF Reversed
<1>. QED BY <1>2, <1>3, <1>4, <1>5

-----------------------------------------------------------------------------
(* Writes lane by lane. *)

\* Register d of file is changed to x, and nothing else is.
Sets(after, file, d, x) ==
  /\ DOMAIN after = DOMAIN file
  /\ after[d] = x
  /\ \A r \in DOMAIN file \ {d} : after[r] = file[r]

\* What is left in the destination by four lanes of two bytes.
Four(x, first, h) == [b \in Bytes |-> IF (b \div 2) - first \in 0 .. 3 THEN h[(b \div 2) - first][b % 2] ELSE x[b]]

\* Four lanes written one after the other leave all four of them.
LEMMA FourLanesSet ==
  ASSUME NEW file, NEW d \in DOMAIN file, NEW first \in {0, 4}, NEW h, NEW f1, NEW f2, NEW f3, NEW f4,
         f1 = WriteLane(file, d, 2, first, h[0]), f2 = WriteLane(f1, d, 2, first + 1, h[1]),
         f3 = WriteLane(f2, d, 2, first + 2, h[2]), f4 = WriteLane(f3, d, 2, first + 3, h[3])
  PROVE  Sets(f4, file, d, Four(file[d], first, h))
<1> DEFINE x1 == [b \in Bytes |-> IF b \div 2 = first THEN h[0][b % 2] ELSE file[d][b]]
           x2 == [b \in Bytes |-> IF b \div 2 = first + 1 THEN h[1][b % 2] ELSE f1[d][b]]
           x3 == [b \in Bytes |-> IF b \div 2 = first + 2 THEN h[2][b % 2] ELSE f2[d][b]]
           x4 == [b \in Bytes |-> IF b \div 2 = first + 3 THEN h[3][b % 2] ELSE f3[d][b]]
<1>1. Sets(f1, file, d, x1) BY DEF WriteLane, Sets
<1>2. Sets(f2, f1, d, x2)
  <2>1. d \in DOMAIN f1 BY <1>1 DEF Sets
  <2>. QED BY <2>1 DEF WriteLane, Sets
<1>3. Sets(f3, f2, d, x3)
  <2>1. d \in DOMAIN f2 BY <1>1, <1>2 DEF Sets
  <2>. QED BY <2>1 DEF WriteLane, Sets
<1>4. Sets(f4, f3, d, x4)
  <2>1. d \in DOMAIN f3 BY <1>1, <1>2, <1>3 DEF Sets
  <2>. QED BY <2>1 DEF WriteLane, Sets
<1>5. ASSUME NEW b \in Bytes PROVE x4[b] = Four(file[d], first, h)[b]
  <2>1. /\ x4[b] = IF b \div 2 = first + 3 THEN h[3][b % 2] ELSE f3[d][b]
        /\ x3[b] = IF b \div 2 = first + 2 THEN h[2][b % 2] ELSE f2[d][b]
        /\ x2[b] = IF b \div 2 = first + 1 THEN h[1][b % 2] ELSE f1[d][b]
        /\ x1[b] = IF b \div 2 = first THEN h[0][b % 2] ELSE file[d][b]
    OBVIOUS
  <2> HIDE DEF x1, x2, x3, x4
  <2>2. f1[d] = x1 /\ f2[d] = x2 /\ f3[d] = x3 BY <1>1, <1>2, <1>3 DEF Sets
  <2>3. PICK q \in 0 .. 7 : q = b \div 2 BY DEF Bytes
  <2>4. Four(file[d], first, h)[b] = IF q - first \in 0 .. 3 THEN h[q - first][b % 2] ELSE file[d][b]
    BY <2>3 DEF Four
  <2>5. CASE q = first BY <2>1, <2>2, <2>3, <2>4, <2>5
  <2>6. CASE q = first + 1 BY <2>1, <2>2, <2>3, <2>4, <2>6
  <2>7. CASE q = first + 2 BY <2>1, <2>2, <2>3, <2>4, <2>7
  <2>8. CASE q = first + 3 BY <2>1, <2>2, <2>3, <2>4, <2>8
  <2>9. CASE q - first \notin 0 .. 3 BY <2>1, <2>2, <2>3, <2>4, <2>9
  <2>. QED BY <2>5, <2>6, <2>7, <2>8, <2>9
<1>6. x4 = Four(file[d], first, h) BY <1>5 DEF Four
<1> HIDE DEF x1, x2, x3, x4
<1>. QED BY <1>1, <1>2, <1>3, <1>4, <1>6 DEF Sets

\* A pack printed as a loop leaves the packed lanes, provided its first source
\* is not its destination.
LEMMA PackWordsAgrees ==
  ASSUME NEW op, NEW d \in DOMAIN v, NEW s1, NEW s2, s1 # d, s1 \in DOMAIN v
  PROVE  \E x : /\ Sets(PackWords(v, op, d, s1, s2), v, d, x)
                /\ Reversed(x) = Guest!PackResult(<<op, 4>>, Reversed(v[s1]), Reversed(v[s2]))
<1> DEFINE narrow(y, i) == [k \in 0 .. 1 |-> Term(op, 0, <<Lane(y, 4, i)>>, k)]
           l == [i \in 0 .. 3 |-> narrow(v[s2], i)]
           h == [i \in 0 .. 3 |-> narrow(v[s1], i)]
           f1 == WriteLane(v, d, 2, 0, narrow(v[s2], 0))
           f2 == WriteLane(f1, d, 2, 0 + 1, narrow(v[s2], 1))
           f3 == WriteLane(f2, d, 2, 0 + 2, narrow(v[s2], 2))
           f4 == WriteLane(f3, d, 2, 0 + 3, narrow(v[s2], 3))
           g1 == WriteLane(f4, d, 2, 4, narrow(f4[s1], 0))
           g2 == WriteLane(g1, d, 2, 4 + 1, narrow(f4[s1], 1))
           g3 == WriteLane(g2, d, 2, 4 + 2, narrow(f4[s1], 2))
           g4 == WriteLane(g3, d, 2, 4 + 3, narrow(f4[s1], 3))
           low == Four(v[d], 0, l)
           x == Four(low, 4, h)
<1>1. PackWords(v, op, d, s1, s2) = g4 BY DEF PackWords, WriteFour
<1> HIDE DEF f1, f2, f3, f4, g1, g2, g3, g4, low, x, narrow
<1>2. Sets(f4, v, d, low)
  <2>1. l[0] = narrow(v[s2], 0) /\ l[1] = narrow(v[s2], 1) /\ l[2] = narrow(v[s2], 2) /\ l[3] = narrow(v[s2], 3) OBVIOUS
  <2> HIDE DEF l
  <2>2. /\ f1 = WriteLane(v, d, 2, 0, l[0]) /\ f2 = WriteLane(f1, d, 2, 0 + 1, l[1])
        /\ f3 = WriteLane(f2, d, 2, 0 + 2, l[2]) /\ f4 = WriteLane(f3, d, 2, 0 + 3, l[3])
    BY <2>1 DEF f1, f2, f3, f4
  <2>. QED BY <2>2, FourLanesSet DEF low
<1>3. f4[s1] = v[s1] BY <1>2 DEF Sets
<1>4. Sets(g4, f4, d, x)
  <2>1. h[0] = narrow(f4[s1], 0) /\ h[1] = narrow(f4[s1], 1) /\ h[2] = narrow(f4[s1], 2) /\ h[3] = narrow(f4[s1], 3) BY <1>3
  <2> HIDE DEF h
  <2>2. /\ g1 = WriteLane(f4, d, 2, 4, h[0]) /\ g2 = WriteLane(g1, d, 2, 4 + 1, h[1])
        /\ g3 = WriteLane(g2, d, 2, 4 + 2, h[2]) /\ g4 = WriteLane(g3, d, 2, 4 + 3, h[3])
    BY <2>1 DEF g1, g2, g3, g4
  <2>3. d \in DOMAIN f4 /\ f4[d] = low BY <1>2 DEF Sets
  <2>4. Sets(g4, f4, d, Four(f4[d], 4, h)) BY <2>2, <2>3, FourLanesSet
  <2>. QED BY <2>3, <2>4 DEF x
<1>5. Sets(g4, v, d, x) BY <1>2, <1>4 DEF Sets
<1>6. ASSUME NEW n \in Bytes
      PROVE  x[15 - n] = Guest!PackResult(<<op, 4>>, Reversed(v[s1]), Reversed(v[s2]))[n]
  <2> DEFINE g == n \div 2
             k == (15 - n) % 2
  <2>1. /\ 15 - n \in Bytes /\ n \in Guest!Bytes /\ g \in 0 .. 7 /\ (15 - n) \div 2 = 7 - g /\ k = 1 - (n % 2) /\ k \in 0 .. 1
    BY GuestBytes DEF Bytes
  <2> HIDE DEF g, k
  <2>2. Guest!PackResult(<<op, 4>>, Reversed(v[s1]), Reversed(v[s2]))[n]
        = Guest!Term(op, 0, <<IF g < 4 THEN Guest!Lane(Reversed(v[s1]), 4, g) ELSE Guest!Lane(Reversed(v[s2]), 4, g - 4)>>, k)
    <3>1. 4 \div 2 = 2 /\ 16 \div 4 = 4 OBVIOUS
    <3>. QED BY <2>1, <3>1 DEF Guest!PackResult, Guest!FromLanes, g
  <2>3. \A y : \A i \in 0 .. 3 : Guest!Lane(Reversed(y), 4, i) = Lane(y, 4, 3 - i) BY FourLanes
  <2>4. x[15 - n] = IF (7 - g) - 4 \in 0 .. 3 THEN h[(7 - g) - 4][k] ELSE low[15 - n]
    BY <2>1 DEF x, Four, k
  <2>5. low[15 - n] = IF (7 - g) - 0 \in 0 .. 3 THEN l[(7 - g) - 0][k] ELSE v[d][15 - n]
    BY <2>1 DEF low, Four, k
  <2>6. CASE g < 4
    <3>1. (7 - g) - 4 \in 0 .. 3 /\ (7 - g) - 4 = 3 - g /\ g \in 0 .. 3 BY <2>1, <2>6
    <3>2. h[3 - g][k] = Term(op, 0, <<Lane(v[s1], 4, 3 - g)>>, k) BY <2>1, <3>1 DEF narrow
    <3> HIDE DEF h
    <3>3. x[15 - n] = Term(op, 0, <<Lane(v[s1], 4, 3 - g)>>, k) BY <2>4, <3>1, <3>2
    <3>. QED BY <2>2, <2>3, <2>6, <3>1, <3>3, GuestTerm
  <2>7. CASE ~(g < 4)
    <3>1. (7 - g) - 4 \notin 0 .. 3 /\ (7 - g) - 0 \in 0 .. 3 /\ (7 - g) - 0 = 3 - (g - 4) /\ g - 4 \in 0 .. 3 BY <2>1, <2>7
    <3>2. l[3 - (g - 4)][k] = Term(op, 0, <<Lane(v[s2], 4, 3 - (g - 4))>>, k) BY <2>1, <3>1 DEF narrow
    <3> HIDE DEF l
    <3>3. x[15 - n] = Term(op, 0, <<Lane(v[s2], 4, 3 - (g - 4))>>, k) BY <2>4, <2>5, <3>1, <3>2
    <3>. QED BY <2>2, <2>3, <2>7, <3>1, <3>3, GuestTerm
  <2>. QED BY <2>6, <2>7
<1>7. Reversed(x) = Guest!PackResult(<<op, 4>>, Reversed(v[s1]), Reversed(v[s2]))
  BY <1>6, GuestBytes DEF Reversed, Guest!PackResult, Guest!FromLanes
<1>. QED BY <1>1, <1>5, <1>7

\* A colour changes one lane of its destination.
LEMMA PackColourAgrees ==
  ASSUME NEW d \in DOMAIN v, NEW s, NEW lane \in 0 .. 3
  PROVE  \E x : /\ Sets(PackColour(v, d, s, lane), v, d, x)
                /\ Reversed(x) = Guest!PackColour(Reversed(v[d]), Reversed(v[s]), lane)
<1> DEFINE indices == <<3, 0, 1, 2>>
           byteAt(k) == CHOOSE i \in 0 .. 3 : indices[i + 1] = k
           temp == [k \in 0 .. 3 |-> Term("pack_colour", 0, <<Lane(v[s], 4, byteAt(k))>>, 0)]
           x == [b \in Bytes |-> IF b \div 4 = lane THEN temp[b % 4] ELSE v[d][b]]
<1>1. PackColour(v, d, s, lane) = WriteLane(v, d, 4, lane, temp) BY DEF PackColour
<1>2. ASSUME NEW k \in 0 .. 3 PROVE byteAt(k) = (k + 1) % 4
  <2> DEFINE P(i) == i \in 0 .. 3 /\ indices[i + 1] = k
  <2>1. indices[0 + 1] = 3 /\ indices[1 + 1] = 0 /\ indices[2 + 1] = 1 /\ indices[3 + 1] = 2 OBVIOUS
  <2> HIDE DEF indices
  <2>2. indices[((k + 1) % 4) + 1] = k /\ (k + 1) % 4 \in 0 .. 3 BY <2>1
  <2>3. \A i \in 0 .. 3 : indices[i + 1] = k => i = (k + 1) % 4 BY <2>1
  <2>. QED BY <2>2, <2>3
<1> HIDE DEF byteAt
<1>3. ASSUME NEW k \in 0 .. 3 PROVE temp[k] = Term("pack_colour", 0, <<Lane(v[s], 4, (k + 1) % 4)>>, 0)
  BY <1>2
<1> HIDE DEF temp
<1>4. Sets(WriteLane(v, d, 4, lane, temp), v, d, x) BY DEF WriteLane, Sets
<1>5. ASSUME NEW n \in Bytes
      PROVE  x[15 - n] = Guest!PackColour(Reversed(v[d]), Reversed(v[s]), lane)[n]
  <2> DEFINE g == n \div 4
             r == n % 4
             c == (r + 3) % 4
  <2>1. /\ 15 - n \in Bytes /\ n \in Guest!Bytes /\ g \in 0 .. 3 /\ (15 - n) \div 4 = 3 - g /\ (15 - n) % 4 = 3 - r
        /\ \A y : \A j \in 0 .. 3 : Guest!Lane(Reversed(y), 4, j) = Lane(y, 4, 3 - j)
    BY FourLanes
  <2>2. r \in 0 .. 3 BY DEF Bytes
  <2> HIDE DEF g, r
  <2>3. c \in 0 .. 3 /\ ((3 - r) + 1) % 4 = 3 - c BY <2>2
  <2> HIDE DEF c
  <2>4. x[15 - n] = IF 3 - g = lane THEN temp[3 - r] ELSE v[d][15 - n] BY <2>1
  <2>5. temp[3 - r] = Term("pack_colour", 0, <<Lane(v[s], 4, 3 - c)>>, 0) BY <1>3, <2>2, <2>3
  <2>6. Guest!PackColour(Reversed(v[d]), Reversed(v[s]), lane)[n]
        = IF g = 3 - lane THEN Guest!Term("pack_colour", 0, <<Guest!Lane(Reversed(v[s]), 4, c)>>, 0) ELSE Reversed(v[d])[n]
    BY <2>1 DEF Guest!PackColour, g, r, c
  <2>7. Guest!Lane(Reversed(v[s]), 4, c) = Lane(v[s], 4, 3 - c) BY <2>1, <2>3
  <2>8. 3 - g = lane <=> g = 3 - lane BY <2>1
  <2> HIDE DEF x
  <2>9. Reversed(v[d])[n] = v[d][15 - n] BY DEF Reversed
  <2>. QED BY <2>4, <2>5, <2>6, <2>7, <2>8, <2>9, GuestTerm
<1>6. Reversed(x) = Guest!PackColour(Reversed(v[d]), Reversed(v[s]), lane)
  BY <1>5, GuestBytes DEF Reversed, Guest!PackColour
<1>. QED BY <1>1, <1>4, <1>6

\* Four halves change the upper half, provided the source is not the destination.
LEMMA PackHalvesAgrees ==
  ASSUME NEW d \in DOMAIN v, NEW s \in DOMAIN v, s # d
  PROVE  \E x : /\ Sets(PackHalves(v, d, s), v, d, x)
                /\ Reversed(x) = Guest!PackHalves(Reversed(v[d]), Reversed(v[s]))
<1> DEFINE half(y, i) == [k \in 0 .. 1 |-> Term("half", 0, <<Lane(y, 4, i)>>, k)]
           h == [i \in 0 .. 3 |-> half(v[s], i)]
           f1 == WriteLane(v, d, 2, 4, half(v[s], 0))
           f2 == WriteLane(f1, d, 2, 4 + 1, half(f1[s], 1))
           f3 == WriteLane(f2, d, 2, 4 + 2, half(f2[s], 2))
           f4 == WriteLane(f3, d, 2, 4 + 3, half(f3[s], 3))
           x == Four(v[d], 4, h)
<1>1. PackHalves(v, d, s) = f4 BY DEF PackHalves, WriteFour
<1> HIDE DEF half
<1>2. /\ \A f, w, n, lane : s \in DOMAIN f => WriteLane(f, d, w, n, lane)[s] = f[s]
      /\ \A f, w, n, lane : DOMAIN WriteLane(f, d, w, n, lane) = DOMAIN f
  BY DEF WriteLane
<1> HIDE DEF f1, f2, f3, f4, x
<1>3. f1[s] = v[s] /\ DOMAIN f1 = DOMAIN v BY <1>2 DEF f1
<1>4. f2[s] = v[s] /\ DOMAIN f2 = DOMAIN v BY <1>2, <1>3 DEF f2
<1>5. f3[s] = v[s] BY <1>2, <1>4 DEF f3
<1>6. Sets(f4, v, d, x)
  <2>1. h[0] = half(v[s], 0) /\ h[1] = half(v[s], 1) /\ h[2] = half(v[s], 2) /\ h[3] = half(v[s], 3) OBVIOUS
  <2> HIDE DEF h
  <2>2. /\ f1 = WriteLane(v, d, 2, 4, h[0]) /\ f2 = WriteLane(f1, d, 2, 4 + 1, h[1])
        /\ f3 = WriteLane(f2, d, 2, 4 + 2, h[2]) /\ f4 = WriteLane(f3, d, 2, 4 + 3, h[3])
    BY <1>3, <1>4, <1>5, <2>1 DEF f1, f2, f3, f4
  <2>. QED BY <2>2, FourLanesSet DEF x
<1>7. ASSUME NEW n \in Bytes
      PROVE  x[15 - n] = Guest!PackHalves(Reversed(v[d]), Reversed(v[s]))[n]
  <2> DEFINE g == n \div 2
             k == (15 - n) % 2
  <2>1. /\ 15 - n \in Bytes /\ n \in Guest!Bytes /\ g \in 0 .. 7 /\ (15 - n) \div 2 = 7 - g /\ k = 1 - (n % 2) /\ k \in 0 .. 1
        /\ (n < 8 <=> g < 4)
    BY GuestBytes DEF Bytes
  <2> HIDE DEF g, k
  <2>2. Guest!PackHalves(Reversed(v[d]), Reversed(v[s]))[n]
        = IF g < 4 THEN Guest!Term("half", 0, <<Guest!Lane(Reversed(v[s]), 4, g)>>, k) ELSE Reversed(v[d])[n]
    BY <2>1 DEF Guest!PackHalves, g
  <2>3. \A y : \A i \in 0 .. 3 : Guest!Lane(Reversed(y), 4, i) = Lane(y, 4, 3 - i) BY FourLanes
  <2>4. x[15 - n] = IF (7 - g) - 4 \in 0 .. 3 THEN h[(7 - g) - 4][k] ELSE v[d][15 - n]
    BY <2>1 DEF x, Four, k
  <2>6. CASE g < 4
    <3>1. (7 - g) - 4 \in 0 .. 3 /\ (7 - g) - 4 = 3 - g /\ g \in 0 .. 3 BY <2>1, <2>6
    <3>2. h[3 - g][k] = Term("half", 0, <<Lane(v[s], 4, 3 - g)>>, k) BY <2>1, <3>1 DEF half
    <3> HIDE DEF h
    <3>3. x[15 - n] = Term("half", 0, <<Lane(v[s], 4, 3 - g)>>, k) BY <2>4, <3>1, <3>2
    <3>. QED BY <2>2, <2>3, <2>6, <3>1, <3>3, GuestTerm
  <2>7. CASE ~(g < 4)
    <3>1. (7 - g) - 4 \notin 0 .. 3 BY <2>1, <2>7
    <3> HIDE DEF h
    <3>2. Reversed(v[d])[n] = v[d][15 - n] BY DEF Reversed
    <3>. QED BY <2>2, <2>4, <2>7, <3>1, <3>2
  <2>. QED BY <2>6, <2>7
<1>8. Reversed(x) = Guest!PackHalves(Reversed(v[d]), Reversed(v[s]))
  BY <1>7, GuestBytes DEF Reversed, Guest!PackHalves
<1>. QED BY <1>1, <1>6, <1>8

-----------------------------------------------------------------------------
(* Stores. *)

\* What StoreResult writes of a register x it sees.
GuestLane(x, w, ea) == [n \in (ea - (ea % w)) .. (ea - (ea % w) + w - 1) |-> x[n % 16]]

LEMMA StoreLaneAgrees ==
  ASSUME NEW x, NEW w, w \in {2, 4}, NEW ea, ea \in Nat
  PROVE  StoreLane(x, w, ea) = GuestLane(Reversed(x), w, ea)
<1> DEFINE addr == ea - (ea % w)
           j == (16 \div w) - 1 - ((addr % 16) \div w)
<1>1. addr \in Nat /\ addr % w = 0
  <2>1. CASE w = 2 BY <2>1
  <2>2. CASE w = 4 BY <2>2
  <2>. QED BY <2>1, <2>2
<1> HIDE DEF addr
<1>2. StoreLane(x, w, ea) = [n \in addr .. addr + w - 1 |-> Lane(x, w, j)[w - 1 - (n - addr)]]
  BY DEF StoreLane, addr
<1>3. ASSUME NEW n \in addr .. addr + w - 1 PROVE Lane(x, w, j)[w - 1 - (n - addr)] = Reversed(x)[n % 16]
  <2> DEFINE k == w - 1 - (n - addr)
  <2>1. k \in 0 .. w - 1 BY <1>1
  <2>2. n % 16 \in Bytes /\ 15 - (n % 16) = w * j + k
    <3>1. CASE w = 2 BY <1>1, <3>1 DEF Bytes
    <3>2. CASE w = 4 BY <1>1, <3>2 DEF Bytes
    <3>. QED BY <3>1, <3>2
  <2> HIDE DEF k, j
  <2>3. Lane(x, w, j)[k] = x[w * j + k] BY <2>1 DEF Lane
  <2>. QED BY <2>2, <2>3 DEF k, Reversed
<1>. QED BY <1>2, <1>3 DEF GuestLane, addr

LEMMA StoreLineAgrees ==
  ASSUME NEW x, NEW ea, ea \in Nat
  PROVE  StoreLine(x, ea) = [n \in (ea - (ea % 16)) .. (ea - (ea % 16) + 15) |-> Reversed(x)[n % 16]]
<1> DEFINE line == shuffle_epi8(x, VectorMaskL(0))
<1>1. ASSUME NEW i \in Bytes PROVE line[i] = Reversed(x)[i]
  <2>1. ~(i < 0) /\ 15 - (i - 0) = 15 - i /\ ~(15 - i >= 128) /\ (15 - i) % 16 = 15 - i BY DEF Bytes
  <2>2. VectorMaskL(0)[i] = 15 - i BY <2>1 DEF VectorMaskL
  <2>. QED BY <2>1, <2>2 DEF shuffle_epi8, Reversed
<1>2. \A n \in Int : n % 16 \in Bytes BY DEF Bytes
<1>3. StoreLine(x, ea) = [n \in ea - (ea % 16) .. ea - (ea % 16) + 15 |-> line[n % 16]] BY DEF StoreLine
<1> HIDE DEF line
<1>. QED BY <1>1, <1>2, <1>3

LEMMA StoreLeftAgrees ==
  ASSUME NEW x, NEW ea, ea \in Nat
  PROVE  StoreLeft(x, ea) = [n \in ea .. (ea + 15 - (ea % 16)) |-> Reversed(x)[n - ea]]
<1>1. ASSUME NEW n \in ea .. (ea + 15 - (ea % 16)) PROVE n - ea \in Bytes BY DEF Bytes
<1>2. ASSUME NEW n \in ea .. (ea + 15 - (ea % 16)) PROVE x[15 - (n - ea)] = Reversed(x)[n - ea] BY <1>1 DEF Reversed
<1>. QED BY <1>2 DEF StoreLeft

LEMMA StoreRightAgrees ==
  ASSUME NEW x, NEW ea, ea \in Nat
  PROVE  StoreRight(x, ea) = [n \in (ea - (ea % 16)) .. (ea - 1) |-> Reversed(x)[n + 16 - ea]]
<1>1. ASSUME NEW n \in (ea - (ea % 16)) .. (ea - 1) PROVE n + 16 - ea \in Bytes /\ 15 - (n + 16 - ea) = ea - n - 1 BY DEF Bytes
<1>2. ASSUME NEW n \in (ea - (ea % 16)) .. (ea - 1) PROVE x[ea - n - 1] = Reversed(x)[n + 16 - ea] BY <1>1 DEF Reversed
<1>. QED BY <1>2 DEF StoreRight

-----------------------------------------------------------------------------
(* Which class an instruction is of.                                       *)

\* The classes of the dispatch.
LEMMA LanesDomain ==
  DOMAIN Lanes = {"vaddfp", "vaddshs", "vaddubm", "vaddubs", "vadduhm", "vadduwm", "vadduws", "vand", "vandc",
                  "vavgsb", "vavgsh", "vavgub", "vavguh", "vctsxs", "vctuxs", "vcfsx", "vcfux", "vexptefp",
                  "vlogefp", "vmaddfp", "vmaxfp", "vmaxsh", "vmaxsw", "vmaxuh", "vminfp", "vminsh", "vminuh",
                  "vmulfp128", "vnmsubfp", "vnor", "vor", "vrefp", "vrfim", "vrfin", "vrfiz", "vspltisb",
                  "vspltish", "vspltisw", "vsubfp", "vsubshs", "vsubsws", "vsububs", "vsubuhm", "vaddsbs",
                  "vaddsws", "vadduhs", "vminsw", "vavgsw", "vsubsbs", "vsububm", "vrsqrtefp", "vxor"}
<1>1. DOMAIN LanesAdd = {"vaddfp", "vaddshs", "vaddubm", "vaddubs", "vadduhm",
                         "vadduwm", "vadduws", "vand", "vandc", "vavgsb", "vavgsh",
                         "vavgub", "vavguh"} BY DEF LanesAdd
<1>2. DOMAIN LanesConvert = {"vctsxs", "vctuxs", "vcfsx", "vcfux"} BY DEF LanesConvert
<1>3. DOMAIN LanesMinMax = {"vexptefp", "vlogefp", "vmaddfp", "vmaxfp", "vmaxsh",
                      "vmaxsw", "vmaxuh", "vminfp", "vminsh", "vminuh"} BY DEF LanesMinMax
<1>4. DOMAIN LanesMultiply = {"vmulfp128", "vnmsubfp", "vnor", "vor"} BY DEF LanesMultiply
<1>5. DOMAIN LanesRound = {"vrefp", "vrfim", "vrfin", "vrfiz"} BY DEF LanesRound
<1>6. DOMAIN LanesSplatSub = {"vspltisb", "vspltish", "vspltisw"} BY DEF LanesSplatSub
<1>7. DOMAIN LanesSubtract = {"vsubfp", "vsubshs", "vsubsws", "vsububs", "vsubuhm"} BY DEF LanesSubtract
<1>8. DOMAIN LanesLate = {"vaddsbs", "vaddsws", "vadduhs", "vminsw", "vavgsw",
                    "vsubsbs", "vsububm"} BY DEF LanesLate
<1>9. DOMAIN LanesMisc = {"vrsqrtefp", "vxor"} BY DEF LanesMisc
<1>10. DOMAIN Lanes = DOMAIN LanesAdd \cup DOMAIN LanesConvert \cup DOMAIN LanesMinMax \cup DOMAIN LanesMultiply
                     \cup DOMAIN LanesRound \cup DOMAIN LanesSplatSub \cup DOMAIN LanesSubtract
                     \cup DOMAIN LanesLate \cup DOMAIN LanesMisc
  BY HostRows
<1>. QED BY <1>1, <1>2, <1>3, <1>4, <1>5, <1>6, <1>7, <1>8, <1>9, <1>10

LEMMA ComparesDomain == DOMAIN AllCompares = {"vcmpbfp", "vcmpeqfp", "vcmpequb", "vcmpequw", "vcmpgefp", "vcmpgtfp",
                                              "vcmpgtub", "vcmpgtuh", "vcmpequh", "vcmpgtsh", "vcmpgtsw"}
<1>1. DOMAIN Compares = {"vcmpbfp", "vcmpeqfp", "vcmpequb", "vcmpequw", "vcmpgefp", "vcmpgtfp", "vcmpgtub", "vcmpgtuh"}
  BY DEF Compares
<1>2. DOMAIN ComparesLate = {"vcmpequh", "vcmpgtsh", "vcmpgtsw"}
  BY DEF ComparesLate
<1>3. DOMAIN AllCompares = DOMAIN Compares \cup DOMAIN ComparesLate
  BY OverIs DEF AllCompares
<1>. QED BY <1>1, <1>2, <1>3

LEMMA ShiftsDomain == DOMAIN Shifts = {"vslb", "vslh", "vsrah", "vsrh", "vrlh", "vslw", "vsraw", "vsrw", "vsrab"}
<1>1. DOMAIN ShiftsB = {"vslb", "vslh", "vsrah", "vsrh", "vrlh"} BY DEF ShiftsB
<1>2. DOMAIN ShiftsW = {"vslw"} BY DEF ShiftsW
<1>3. DOMAIN ShiftsR = {"vsraw", "vsrw"} BY DEF ShiftsR
<1>4. DOMAIN ShiftsLate = {"vsrab"} BY DEF ShiftsLate
<1> DEFINE S1 == Over(ShiftsR, ShiftsLate)
           S2 == Over(ShiftsW, S1)
<1>5. Shifts = Over(ShiftsB, S2) BY DEF Shifts
<1> HIDE DEF S1, S2
<1>6. DOMAIN S1 = DOMAIN ShiftsR \cup DOMAIN ShiftsLate BY OverIs DEF S1
<1>7. DOMAIN S2 = DOMAIN ShiftsW \cup DOMAIN S1 BY OverIs DEF S2
<1>8. DOMAIN Shifts = DOMAIN ShiftsB \cup DOMAIN S2 BY <1>5, OverIs
<1>. QED BY <1>1, <1>2, <1>3, <1>4, <1>6, <1>7, <1>8

\* No mnemonic is in two classes, and what its class says is its result.
LEMMA HostDispatch ==
  ASSUME NEW i
  PROVE  /\ i.m \in DOMAIN Lanes =>
              Result(i) = Lanewise(Lanes[i.m].op, Lanes[i.m].w, i.imm,
                         [n \in DOMAIN Lanes[i.m].src |-> v[i.s[Lanes[i.m].src[n]]]])
         /\ i.m \in DOMAIN AllCompares =>
              Result(i) = Lanewise(AllCompares[i.m].op, AllCompares[i.m].w, 0, <<v[i.s[1]], v[i.s[2]]>>)
         /\ i.m \in DOMAIN Shifts => Result(i) = ShiftLanes(Shifts[i.m], v[i.s[1]], v[i.s[2]])
         /\ i.m \in MergeInsns => Result(i) = Merge(i.m, v[i.s[1]], v[i.s[2]])
         /\ i.m \in UnpackInsns => Result(i) = Unpack(i.m, v[i.s[1]])
         /\ i.m \in PacksByIntrinsic => Result(i) = Pack(i.m, v[i.s[1]], v[i.s[2]])
         /\ i.m \in {"vmsum3fp128", "vmsum4fp128"} => Result(i) = DotProduct(i.m, v[i.s[1]], v[i.s[2]])
         /\ i.m = "vpermwi128" => Result(i) = PermuteWords(v[i.s[1]], i.imm)
         /\ i.m = "vrlimi128" => Result(i) = RotateInsert(v[i.d], v[i.s[1]], i.imm \div 4, i.imm % 4)
         /\ i.m = "vsel" => Result(i) = Select(v[i.s[1]], v[i.s[2]], v[i.s[3]])
         /\ i.m = "vperm" => Result(i) = mm_perm_epi8(v[i.s[1]], v[i.s[2]], v[i.s[3]])
         /\ i.m = "vsldoi" => Result(i) = ShiftDouble(v[i.s[1]], v[i.s[2]], i.imm)
         /\ i.m = "vsl" => Result(i) = mm_vsl(v[i.s[1]], v[i.s[2]])
         /\ i.m = "vsr" => Result(i) = mm_vsr(v[i.s[1]], v[i.s[2]])
         /\ i.m = "vspltb" => Result(i) = SplatByte(v[i.s[1]], i.imm)
         /\ i.m = "vsplth" => Result(i) = SplatHalf(v[i.s[1]], i.imm)
         /\ i.m = "vspltw" => Result(i) = SplatWord(v[i.s[1]], i.imm)
         /\ i.m = "vupkd3d128" => Result(i) = (IF i.imm = 0 THEN UnpackColour(v[i.s[1]]) ELSE UnpackShorts(v[i.s[1]]))
         /\ i.m \in {"lvlx", "lvrx", "lvsl", "lvsr"} => Result(i) = Load(i.m, i.ea)
         /\ i.m = "lvx" => Result(i) = LoadLine(i.ea)
<1> DEFINE A1 == Lanewise(Lanes[i.m].op, Lanes[i.m].w, i.imm, [n \in DOMAIN Lanes[i.m].src |-> v[i.s[Lanes[i.m].src[n]]]])
           A2 == Lanewise(AllCompares[i.m].op, AllCompares[i.m].w, 0, <<v[i.s[1]], v[i.s[2]]>>)
           A3 == ShiftLanes(Shifts[i.m], v[i.s[1]], v[i.s[2]])
           A4 == Merge(i.m, v[i.s[1]], v[i.s[2]])
           A5 == Unpack(i.m, v[i.s[1]])
           A6 == Pack(i.m, v[i.s[1]], v[i.s[2]])
           A7 == DotProduct(i.m, v[i.s[1]], v[i.s[2]])
           A8 == PermuteWords(v[i.s[1]], i.imm)
           A9 == RotateInsert(v[i.d], v[i.s[1]], i.imm \div 4, i.imm % 4)
           A10 == Select(v[i.s[1]], v[i.s[2]], v[i.s[3]])
           A11 == mm_perm_epi8(v[i.s[1]], v[i.s[2]], v[i.s[3]])
           A12 == ShiftDouble(v[i.s[1]], v[i.s[2]], i.imm)
           A13 == ShiftOctets(v[i.s[1]], v[i.s[2]])
           A14 == mm_vsl(v[i.s[1]], v[i.s[2]])
           A15 == mm_vsr(v[i.s[1]], v[i.s[2]])
           A16 == SplatByte(v[i.s[1]], i.imm)
           A17 == SplatHalf(v[i.s[1]], i.imm)
           A18 == SplatWord(v[i.s[1]], i.imm)
           A19 == IF i.imm = 0 THEN UnpackColour(v[i.s[1]]) ELSE UnpackShorts(v[i.s[1]])
           A20 == Load(i.m, i.ea)
           A21 == LoadLine(i.ea)
<1>0. Result(i) = CASE i.m \in DOMAIN Lanes -> A1
                     [] i.m \in DOMAIN AllCompares -> A2
                     [] i.m \in DOMAIN Shifts -> A3
                     [] i.m \in MergeInsns -> A4
                     [] i.m \in UnpackInsns -> A5
                     [] i.m \in PacksByIntrinsic -> A6
                     [] i.m \in {"vmsum3fp128", "vmsum4fp128"} -> A7
                     [] i.m = "vpermwi128" -> A8
                     [] i.m = "vrlimi128" -> A9
                     [] i.m = "vsel" -> A10
                     [] i.m = "vperm" -> A11
                     [] i.m = "vsldoi" -> A12
                     [] i.m = "vslo" -> A13
                     [] i.m = "vsl" -> A14
                     [] i.m = "vsr" -> A15
                     [] i.m = "vspltb" -> A16
                     [] i.m = "vsplth" -> A17
                     [] i.m = "vspltw" -> A18
                     [] i.m = "vupkd3d128" -> A19
                     [] i.m \in {"lvlx", "lvrx", "lvsl", "lvsr"} -> A20
                     [] i.m = "lvx" -> A21
  BY Zenon DEF Result
<1> HIDE DEF A1, A2, A3, A4, A5, A6, A7, A8, A9, A10, A11, A12, A13, A14, A15, A16, A17, A18, A19, A20, A21
<1>1. i.m \in DOMAIN Lanes => Result(i) = A1
  BY <1>0, LanesDomain, ComparesDomain, ShiftsDomain DEF MergeInsns, UnpackInsns, PacksByIntrinsic
<1>2. i.m \in DOMAIN AllCompares => Result(i) = A2
  BY <1>0, LanesDomain, ComparesDomain, ShiftsDomain DEF MergeInsns, UnpackInsns, PacksByIntrinsic
<1>3. i.m \in DOMAIN Shifts => Result(i) = A3
  BY <1>0, LanesDomain, ComparesDomain, ShiftsDomain DEF MergeInsns, UnpackInsns, PacksByIntrinsic
<1>4. i.m \in MergeInsns => Result(i) = A4
  BY <1>0, LanesDomain, ComparesDomain, ShiftsDomain DEF MergeInsns, UnpackInsns, PacksByIntrinsic
<1>5. i.m \in UnpackInsns => Result(i) = A5
  BY <1>0, LanesDomain, ComparesDomain, ShiftsDomain DEF MergeInsns, UnpackInsns, PacksByIntrinsic
<1>6. i.m \in PacksByIntrinsic => Result(i) = A6
  BY <1>0, LanesDomain, ComparesDomain, ShiftsDomain DEF MergeInsns, UnpackInsns, PacksByIntrinsic
<1>7. i.m \in {"vmsum3fp128", "vmsum4fp128"} => Result(i) = A7
  BY <1>0, LanesDomain, ComparesDomain, ShiftsDomain DEF MergeInsns, UnpackInsns, PacksByIntrinsic
<1>8. i.m = "vpermwi128" => Result(i) = A8
  BY <1>0, LanesDomain, ComparesDomain, ShiftsDomain DEF MergeInsns, UnpackInsns, PacksByIntrinsic
<1>9. i.m = "vrlimi128" => Result(i) = A9
  BY <1>0, LanesDomain, ComparesDomain, ShiftsDomain DEF MergeInsns, UnpackInsns, PacksByIntrinsic
<1>10. i.m = "vsel" => Result(i) = A10
  BY <1>0, LanesDomain, ComparesDomain, ShiftsDomain DEF MergeInsns, UnpackInsns, PacksByIntrinsic
<1>11. i.m = "vperm" => Result(i) = A11
  BY <1>0, LanesDomain, ComparesDomain, ShiftsDomain DEF MergeInsns, UnpackInsns, PacksByIntrinsic
<1>12. i.m = "vsldoi" => Result(i) = A12
  BY <1>0, LanesDomain, ComparesDomain, ShiftsDomain DEF MergeInsns, UnpackInsns, PacksByIntrinsic
<1>14. i.m = "vsl" => Result(i) = A14
  BY <1>0, LanesDomain, ComparesDomain, ShiftsDomain DEF MergeInsns, UnpackInsns, PacksByIntrinsic
<1>15. i.m = "vsr" => Result(i) = A15
  BY <1>0, LanesDomain, ComparesDomain, ShiftsDomain DEF MergeInsns, UnpackInsns, PacksByIntrinsic
<1>16. i.m = "vspltb" => Result(i) = A16
  BY <1>0, LanesDomain, ComparesDomain, ShiftsDomain DEF MergeInsns, UnpackInsns, PacksByIntrinsic
<1>17. i.m = "vsplth" => Result(i) = A17
  BY <1>0, LanesDomain, ComparesDomain, ShiftsDomain DEF MergeInsns, UnpackInsns, PacksByIntrinsic
<1>18. i.m = "vspltw" => Result(i) = A18
  BY <1>0, LanesDomain, ComparesDomain, ShiftsDomain DEF MergeInsns, UnpackInsns, PacksByIntrinsic
<1>19. i.m = "vupkd3d128" => Result(i) = A19
  BY <1>0, LanesDomain, ComparesDomain, ShiftsDomain DEF MergeInsns, UnpackInsns, PacksByIntrinsic
<1>20. i.m \in {"lvlx", "lvrx", "lvsl", "lvsr"} => Result(i) = A20
  BY <1>0, LanesDomain, ComparesDomain, ShiftsDomain DEF MergeInsns, UnpackInsns, PacksByIntrinsic
<1>21. i.m = "lvx" => Result(i) = A21
  BY <1>0, LanesDomain, ComparesDomain, ShiftsDomain DEF MergeInsns, UnpackInsns, PacksByIntrinsic
<1>. QED BY <1>1, <1>2, <1>3, <1>4, <1>5, <1>6, <1>7, <1>8, <1>9, <1>10, <1>11, <1>12, <1>14, <1>15, <1>16, <1>17, <1>18,
            <1>19, <1>20, <1>21 DEF A1, A2, A3, A4, A5, A6, A7, A8, A9, A10, A11, A12, A13, A14, A15, A16, A17, A18, A19,
            A20, A21

\* The classes of the guest, and its dispatch.
LEMMA GuestLanewiseDomain ==
  DOMAIN Guest!Lanewise =
    {"vaddfp", "vaddshs", "vaddubm", "vaddubs", "vadduhm", "vadduwm", "vadduws", "vaddsbs", "vaddsws", "vadduhs",
     "vsubfp", "vsubshs", "vsubsws", "vsububs", "vsubuhm", "vsubsbs", "vsububm", "vand", "vandc", "vor", "vnor", "vxor",
     "vavgsb", "vavgsh", "vavgsw", "vavgub", "vavguh",
     "vmaxfp", "vmaxsh", "vmaxsw", "vmaxuh", "vminfp", "vminsh", "vminuh", "vminsw",
     "vctsxs", "vctuxs", "vcfsx", "vcfux", "vexptefp", "vlogefp", "vrefp", "vrsqrtefp", "vrfim", "vrfin", "vrfiz", "vmulfp128",
     "vspltisb", "vspltish", "vspltisw"}
<1>1. DOMAIN Guest!Add = {"vaddfp", "vaddshs", "vaddubm", "vaddubs", "vadduhm", "vadduwm",
              "vadduws", "vaddsbs", "vaddsws", "vadduhs"} BY DEF Guest!Add
<1>2. DOMAIN Guest!Subtract = {"vsubfp", "vsubshs", "vsubsws", "vsububs", "vsubuhm",
                   "vsubsbs", "vsububm"} BY DEF Guest!Subtract
<1>3. DOMAIN Guest!BitOps = {"vand", "vandc", "vor", "vnor", "vxor"} BY DEF Guest!BitOps
<1>4. DOMAIN Guest!Average = {"vavgsb", "vavgsh", "vavgsw", "vavgub", "vavguh"} BY DEF Guest!Average
<1>5. DOMAIN Guest!MinMax = {"vmaxfp", "vmaxsh", "vmaxsw", "vmaxuh", "vminfp", "vminsh",
                 "vminuh", "vminsw"} BY DEF Guest!MinMax
<1>6. DOMAIN Guest!Float = {"vctsxs", "vctuxs", "vcfsx", "vcfux", "vexptefp", "vlogefp",
                "vrefp", "vrsqrtefp", "vrfim", "vrfin", "vrfiz", "vmulfp128"} BY DEF Guest!Float
<1>7. DOMAIN Guest!Splat = {"vspltisb", "vspltish", "vspltisw"} BY DEF Guest!Splat
<1>. QED BY GuestRows, <1>1, <1>2, <1>3, <1>4, <1>5, <1>6, <1>7

LEMMA GuestDomains ==
  /\ DOMAIN Guest!Lanewise =
       {"vaddfp", "vaddshs", "vaddubm", "vaddubs", "vadduhm", "vadduwm", "vadduws", "vaddsbs", "vaddsws", "vadduhs",
        "vsubfp", "vsubshs", "vsubsws", "vsububs", "vsubuhm", "vsubsbs", "vsububm", "vand", "vandc", "vor", "vnor", "vxor",
        "vavgsb", "vavgsh", "vavgsw", "vavgub", "vavguh",
        "vmaxfp", "vmaxsh", "vmaxsw", "vmaxuh", "vminfp", "vminsh", "vminuh", "vminsw",
        "vctsxs", "vctuxs", "vcfsx", "vcfux", "vexptefp", "vlogefp", "vrefp", "vrsqrtefp", "vrfim", "vrfin", "vrfiz", "vmulfp128",
        "vspltisb", "vspltish", "vspltisw"}
  /\ DOMAIN Guest!Compare = {"vcmpbfp", "vcmpeqfp", "vcmpequb", "vcmpequh", "vcmpequw", "vcmpgefp", "vcmpgtfp", "vcmpgtub",
                             "vcmpgtuh", "vcmpgtsh", "vcmpgtsw"}
  /\ DOMAIN Guest!Shift = {"vslb", "vslh", "vslw", "vsrh", "vsrw", "vsrab", "vsrah", "vsraw", "vrlh"}
  /\ DOMAIN Guest!Pack = {"vpkshss", "vpkshus", "vpkswss", "vpkswus", "vpkuhum", "vpkuhus", "vpkuwum", "vpkuwus"}
  /\ DOMAIN Guest!Unpack = {"vupkhsb", "vupkhsh", "vupklsb", "vupklsh"}
  /\ DOMAIN Guest!Merge = {"vmrghb", "vmrghh", "vmrghw", "vmrglb", "vmrglh", "vmrglw"}
  /\ DOMAIN Guest!MultiplyAdd = {"vmaddfp", "vnmsubfp"}
  /\ Guest!Loads = {"lvsl", "lvsr", "lvx", "lvlx", "lvrx"}
<1>1. DOMAIN Guest!Compare = {"vcmpbfp", "vcmpeqfp", "vcmpequb", "vcmpequh", "vcmpequw", "vcmpgefp", "vcmpgtfp", "vcmpgtub",
                             "vcmpgtuh", "vcmpgtsh", "vcmpgtsw"} BY DEF Guest!Compare
<1>2. DOMAIN Guest!Shift = {"vslb", "vslh", "vslw", "vsrh", "vsrw", "vsrab", "vsrah", "vsraw", "vrlh"} BY DEF Guest!Shift
<1>3. DOMAIN Guest!Pack = {"vpkshss", "vpkshus", "vpkswss", "vpkswus", "vpkuhum", "vpkuhus", "vpkuwum",
                           "vpkuwus"} BY DEF Guest!Pack
<1>4. DOMAIN Guest!Unpack = {"vupkhsb", "vupkhsh", "vupklsb", "vupklsh"} BY DEF Guest!Unpack
<1>5. DOMAIN Guest!Merge = {"vmrghb", "vmrghh", "vmrghw", "vmrglb", "vmrglh", "vmrglw"} BY DEF Guest!Merge
<1>. QED BY <1>1, <1>2, <1>3, <1>4, <1>5, GuestLanewiseDomain, GuestMultiplyAddRows DEF Guest!Loads

\* The registers as GuestVectors sees them.
Seen == [r \in DOMAIN v |-> Reversed(v[r])]

LEMMA GuestDispatch ==
  ASSUME NEW i
  PROVE  /\ i.m \in DOMAIN Guest!Lanewise =>
              Guest!RegisterResult(i) = Guest!LanewiseResult(Guest!Lanewise[i.m], i.imm, [n \in DOMAIN i.s |-> Seen[i.s[n]]])
         /\ i.m \in DOMAIN Guest!Compare =>
              Guest!RegisterResult(i) = Guest!LanewiseResult(Guest!Compare[i.m], 0, <<Seen[i.s[1]], Seen[i.s[2]]>>)
         /\ i.m \in DOMAIN Guest!Shift =>
              Guest!RegisterResult(i) = Guest!ShiftResult(Guest!Shift[i.m], Seen[i.s[1]], Seen[i.s[2]])
         /\ i.m \in DOMAIN Guest!Pack => Guest!RegisterResult(i) = Guest!PackResult(Guest!Pack[i.m], Seen[i.s[1]], Seen[i.s[2]])
         /\ i.m \in DOMAIN Guest!Unpack => Guest!RegisterResult(i) = Guest!UnpackResult(Guest!Unpack[i.m], Seen[i.s[1]])
         /\ i.m \in DOMAIN Guest!Merge =>
              Guest!RegisterResult(i) = Guest!MergeResult(Guest!Merge[i.m], Seen[i.s[1]], Seen[i.s[2]])
         /\ i.m \in DOMAIN Guest!MultiplyAdd \cup {"vsel", "vperm"} =>
              Guest!RegisterResult(i) = Guest!Exec3(i.m, Seen[i.s[1]], Seen[i.s[2]], Seen[i.s[3]])
         /\ i.m = "vmsum3fp128" => Guest!RegisterResult(i) = Guest!DotProduct(3, Seen[i.s[1]], Seen[i.s[2]])
         /\ i.m = "vmsum4fp128" => Guest!RegisterResult(i) = Guest!DotProduct(4, Seen[i.s[1]], Seen[i.s[2]])
         /\ i.m = "vpermwi128" => Guest!RegisterResult(i) = Guest!PermuteWords(Seen[i.s[1]], i.imm)
         /\ i.m = "vrlimi128" => Guest!RegisterResult(i) = Guest!RotateInsert(Seen[i.d], Seen[i.s[1]], i.imm \div 4, i.imm % 4)
         /\ i.m = "vsldoi" => Guest!RegisterResult(i) = Guest!ShiftDouble(Seen[i.s[1]], Seen[i.s[2]], i.imm)
         /\ i.m = "vsl" => Guest!RegisterResult(i) = Guest!ShiftBits(Seen[i.s[1]], Seen[i.s[2]][15][2] % 8)
         /\ i.m = "vsr" => Guest!RegisterResult(i) = Guest!ShiftBits(Seen[i.s[1]], -(Seen[i.s[2]][15][2] % 8))
         /\ i.m = "vspltb" => Guest!RegisterResult(i) = Guest!SplatByte(Seen[i.s[1]], i.imm)
         /\ i.m = "vsplth" => Guest!RegisterResult(i) = Guest!SplatHalf(Seen[i.s[1]], i.imm)
         /\ i.m = "vspltw" => Guest!RegisterResult(i) = Guest!SplatWord(Seen[i.s[1]], i.imm)
         /\ i.m = "vpkd3d128" =>
              Guest!RegisterResult(i) = (IF i.imm = 5 THEN Guest!PackHalves(Seen[i.d], Seen[i.s[1]])
                                         ELSE Guest!PackColour(Seen[i.d], Seen[i.s[1]], i.imm))
         /\ i.m = "vupkd3d128" =>
              Guest!RegisterResult(i) = (IF i.imm = 0 THEN Guest!UnpackColour(Seen[i.s[1]]) ELSE Guest!UnpackShorts(Seen[i.s[1]]))
         /\ i.m \in Guest!Loads => Guest!RegisterResult(i) = Guest!LoadResult(i.m, i.ea)
<1> DEFINE A1 == Guest!LanewiseResult(Guest!Lanewise[i.m], i.imm, [n \in DOMAIN i.s |-> Seen[i.s[n]]])
           A2 == Guest!LanewiseResult(Guest!Compare[i.m], 0, <<Seen[i.s[1]], Seen[i.s[2]]>>)
           A3 == Guest!ShiftResult(Guest!Shift[i.m], Seen[i.s[1]], Seen[i.s[2]])
           A4 == Guest!PackResult(Guest!Pack[i.m], Seen[i.s[1]], Seen[i.s[2]])
           A5 == Guest!UnpackResult(Guest!Unpack[i.m], Seen[i.s[1]])
           A6 == Guest!MergeResult(Guest!Merge[i.m], Seen[i.s[1]], Seen[i.s[2]])
           A7 == Guest!Exec3(i.m, Seen[i.s[1]], Seen[i.s[2]], Seen[i.s[3]])
           A8 == Guest!DotProduct(3, Seen[i.s[1]], Seen[i.s[2]])
           A9 == Guest!DotProduct(4, Seen[i.s[1]], Seen[i.s[2]])
           A10 == Guest!PermuteWords(Seen[i.s[1]], i.imm)
           A11 == Guest!RotateInsert(Seen[i.d], Seen[i.s[1]], i.imm \div 4, i.imm % 4)
           A12 == Guest!ShiftDouble(Seen[i.s[1]], Seen[i.s[2]], i.imm)
           A13 == Guest!ShiftOctets(Seen[i.s[1]], (Seen[i.s[2]][15][2] \div 8) % 16)
           A14 == Guest!ShiftBits(Seen[i.s[1]], Seen[i.s[2]][15][2] % 8)
           A15 == Guest!ShiftBits(Seen[i.s[1]], -(Seen[i.s[2]][15][2] % 8))
           A16 == Guest!SplatByte(Seen[i.s[1]], i.imm)
           A17 == Guest!SplatHalf(Seen[i.s[1]], i.imm)
           A18 == Guest!SplatWord(Seen[i.s[1]], i.imm)
           A19 == IF i.imm = 5 THEN Guest!PackHalves(Seen[i.d], Seen[i.s[1]])
                  ELSE Guest!PackColour(Seen[i.d], Seen[i.s[1]], i.imm)
           A20 == IF i.imm = 0 THEN Guest!UnpackColour(Seen[i.s[1]]) ELSE Guest!UnpackShorts(Seen[i.s[1]])
           A21 == Guest!LoadResult(i.m, i.ea)
<1>0. Guest!RegisterResult(i) = CASE i.m \in DOMAIN Guest!Lanewise -> A1
                     [] i.m \in DOMAIN Guest!Compare -> A2
                     [] i.m \in DOMAIN Guest!Shift -> A3
                     [] i.m \in DOMAIN Guest!Pack -> A4
                     [] i.m \in DOMAIN Guest!Unpack -> A5
                     [] i.m \in DOMAIN Guest!Merge -> A6
                     [] i.m \in DOMAIN Guest!MultiplyAdd \cup {"vsel", "vperm"} -> A7
                     [] i.m = "vmsum3fp128" -> A8
                     [] i.m = "vmsum4fp128" -> A9
                     [] i.m = "vpermwi128" -> A10
                     [] i.m = "vrlimi128" -> A11
                     [] i.m = "vsldoi" -> A12
                     [] i.m = "vslo" -> A13
                     [] i.m = "vsl" -> A14
                     [] i.m = "vsr" -> A15
                     [] i.m = "vspltb" -> A16
                     [] i.m = "vsplth" -> A17
                     [] i.m = "vspltw" -> A18
                     [] i.m = "vpkd3d128" -> A19
                     [] i.m = "vupkd3d128" -> A20
                     [] i.m \in Guest!Loads -> A21
  BY Zenon DEF Guest!RegisterResult, Seen
<1> HIDE DEF A1, A2, A3, A4, A5, A6, A7, A8, A9, A10, A11, A12, A13, A14, A15, A16, A17, A18, A19, A20, A21
<1>1. i.m \in DOMAIN Guest!Lanewise => Guest!RegisterResult(i) = A1
  BY <1>0, GuestDomains
<1>2. i.m \in DOMAIN Guest!Compare => Guest!RegisterResult(i) = A2
  BY <1>0, GuestDomains
<1>3. i.m \in DOMAIN Guest!Shift => Guest!RegisterResult(i) = A3
  BY <1>0, GuestDomains
<1>4. i.m \in DOMAIN Guest!Pack => Guest!RegisterResult(i) = A4
  BY <1>0, GuestDomains
<1>5. i.m \in DOMAIN Guest!Unpack => Guest!RegisterResult(i) = A5
  BY <1>0, GuestDomains
<1>6. i.m \in DOMAIN Guest!Merge => Guest!RegisterResult(i) = A6
  BY <1>0, GuestDomains
<1>7. i.m \in DOMAIN Guest!MultiplyAdd \cup {"vsel", "vperm"} => Guest!RegisterResult(i) = A7
  BY <1>0, GuestDomains
<1>8. i.m = "vmsum3fp128" => Guest!RegisterResult(i) = A8
  BY <1>0, GuestDomains
<1>9. i.m = "vmsum4fp128" => Guest!RegisterResult(i) = A9
  BY <1>0, GuestDomains
<1>10. i.m = "vpermwi128" => Guest!RegisterResult(i) = A10
  BY <1>0, GuestDomains
<1>11. i.m = "vrlimi128" => Guest!RegisterResult(i) = A11
  BY <1>0, GuestDomains
<1>12. i.m = "vsldoi" => Guest!RegisterResult(i) = A12
  BY <1>0, GuestDomains
<1>14. i.m = "vsl" => Guest!RegisterResult(i) = A14
  BY <1>0, GuestDomains
<1>15. i.m = "vsr" => Guest!RegisterResult(i) = A15
  BY <1>0, GuestDomains
<1>16. i.m = "vspltb" => Guest!RegisterResult(i) = A16
  BY <1>0, GuestDomains
<1>17. i.m = "vsplth" => Guest!RegisterResult(i) = A17
  BY <1>0, GuestDomains
<1>18. i.m = "vspltw" => Guest!RegisterResult(i) = A18
  BY <1>0, GuestDomains
<1>19. i.m = "vpkd3d128" => Guest!RegisterResult(i) = A19
  BY <1>0, GuestDomains
<1>20. i.m = "vupkd3d128" => Guest!RegisterResult(i) = A20
  BY <1>0, GuestDomains
<1>21. i.m \in Guest!Loads => Guest!RegisterResult(i) = A21
  BY <1>0, GuestDomains
<1>. QED BY <1>1, <1>2, <1>3, <1>4, <1>5, <1>6, <1>7, <1>8, <1>9, <1>10, <1>11, <1>12, <1>14, <1>15, <1>16, <1>17, <1>18,
            <1>19, <1>20, <1>21 DEF A1, A2, A3, A4, A5, A6, A7, A8, A9, A10, A11, A12, A13, A14, A15, A16, A17, A18, A19,
            A20, A21

-----------------------------------------------------------------------------
(* Instruction by instruction. *)

Agrees(i) == Reversed(Result(i)) = Guest!RegisterResult(i)

LEMMA SeenIs == \A r \in DOMAIN v : Seen[r] = Reversed(v[r])
BY DEF Seen

\* Lanewise operations.
LEMMA EntryParts ==
  ASSUME NEW e, NEW imm, NEW x
  PROVE  Guest!LanewiseResult(e, imm, x) = Guest!LanewiseResult(<<e[1], e[2]>>, imm, x)
<1>1. PICK op, w : op = e[1] /\ w = e[2] OBVIOUS
<1>2. <<op, w>>[1] = op /\ <<op, w>>[2] = w OBVIOUS
<1> DEFINE f(en) == [i \in Guest!Bytes |->
                     [k \in 0 .. en[2] - 1 |->
                         Guest!Term(en[1], imm, [n \in DOMAIN x |-> Guest!Lane(x[n], en[2], i \div en[2])], k)]
                     [en[2] - 1 - (i % en[2])]]
<1>3. Guest!LanewiseResult(e, imm, x) = f(e) /\ Guest!LanewiseResult(<<op, w>>, imm, x) = f(<<op, w>>)
  BY DEF Guest!LanewiseResult, Guest!FromLanes
<1>4. f(e) = f(<<op, w>>) BY <1>1, <1>2
<1>. QED BY <1>1, <1>3, <1>4

LEMMA PlainLanes ==
  ASSUME NEW i, i.m \in DOMAIN Lanes \ {"vavgsw", "vmaddfp", "vnmsubfp", "vandc"},
         Reads(i, Len(Lanes[i.m].src), DOMAIN v)
  PROVE  Agrees(i)
<1> DEFINE row == Lanes[i.m]
           x == [n \in DOMAIN row.src |-> v[i.s[row.src[n]]]]
           y == [n \in DOMAIN i.s |-> Seen[i.s[n]]]
<1>1. /\ row.w \in {1, 2, 4} /\ row.w = Guest!Lanewise[i.m][2]
      /\ row.op # "andnot" /\ row.op = Guest!Lanewise[i.m][1]
      /\ row.src \in {<<>>, <<1>>, <<1, 2>>, <<1, 2, 3>>}
  BY RowsAreSame DEF Same
<1>2. i.m \in DOMAIN Guest!Lanewise BY LanesDomain, GuestDomains
<1>3. Result(i) = Lanewise(row.op, row.w, i.imm, x) BY HostDispatch
<1>4. Guest!RegisterResult(i) = Guest!LanewiseResult(Guest!Lanewise[i.m], i.imm, y) BY <1>2, GuestDispatch
<1>5. PICK src \in {<<>>, <<1>>, <<1, 2>>, <<1, 2, 3>>} : src = row.src BY <1>1
<1>6. i.s \in [1 .. Len(src) -> DOMAIN v] BY <1>5 DEF Reads
<1>7. DOMAIN src = DOMAIN i.s /\ \A n \in DOMAIN src : src[n] = n /\ i.s[n] \in DOMAIN v
  <2>1. DOMAIN i.s = 1 .. Len(src) /\ \A n \in 1 .. Len(src) : i.s[n] \in DOMAIN v BY <1>6
  <2>2. CASE src = <<>>
    <3>1. DOMAIN src = {} /\ 1 .. Len(src) = {} BY <2>2
    <3>. QED BY <2>1, <3>1
  <2>3. CASE src = <<1>>
    <3>1. DOMAIN src = {1} /\ 1 .. Len(src) = {1} /\ src[1] = 1 BY <2>3
    <3>. QED BY <2>1, <3>1
  <2>4. CASE src = <<1, 2>>
    <3>1. DOMAIN src = {1, 2} /\ 1 .. Len(src) = {1, 2} /\ src[1] = 1 /\ src[2] = 2 BY <2>4
    <3>. QED BY <2>1, <3>1
  <2>5. CASE src = <<1, 2, 3>>
    <3>1. DOMAIN src = {1, 2, 3} /\ 1 .. Len(src) = {1, 2, 3} /\ src[1] = 1 /\ src[2] = 2 /\ src[3] = 3 BY <2>5
    <3>. QED BY <2>1, <3>1
  <2>. QED BY <2>2, <2>3, <2>4, <2>5
<1>8. Mirrors(x, y)
  <2>1. DOMAIN x = DOMAIN src /\ \A n \in DOMAIN src : x[n] = v[i.s[src[n]]] BY <1>5
  <2>2. DOMAIN y = DOMAIN i.s /\ \A n \in DOMAIN i.s : y[n] = Seen[i.s[n]] OBVIOUS
  <2> HIDE DEF x, y
  <2>. QED BY <1>7, <2>1, <2>2, SeenIs DEF Mirrors
<1> HIDE DEF x, y, row
<1>9. PICK op, w : op = row.op /\ w = row.w OBVIOUS
<1>10. op # "andnot" /\ w \in {1, 2, 4} BY <1>1, <1>9
<1>11. Reversed(Lanewise(op, w, i.imm, x)) = Guest!LanewiseResult(<<op, w>>, i.imm, y)
  <2>1. PICK X, Y, imm : X = x /\ Y = y /\ imm = i.imm OBVIOUS
  <2>2. Mirrors(X, Y) BY <1>8, <2>1
  <2>3. Reversed(Lanewise(op, w, imm, X)) = Guest!LanewiseResult(<<op, w>>, imm, Y)
    BY <1>10, <2>2, LanewiseAgrees
  <2>. QED BY <2>1, <2>3
<1>12. Guest!RegisterResult(i) = Guest!LanewiseResult(<<op, w>>, i.imm, y) BY <1>1, <1>4, <1>9, EntryParts
<1>. QED BY <1>3, <1>9, <1>11, <1>12 DEF Agrees

LEMMA Complement ==
  ASSUME NEW i, i.m = "vandc", Reads(i, Len(Lanes[i.m].src), DOMAIN v)
  PROVE  Agrees(i)
<1> DEFINE a == v[i.s[1]]
           b == v[i.s[2]]
<1>1. Lanes["vandc"] = Row("andnot", 1, <<2, 1>>) BY LanesAddRows
<1>2. Lanes[i.m].op = "andnot" /\ Lanes[i.m].w = 1 /\ Lanes[i.m].src = <<2, 1>> BY <1>1 DEF Row
<1>3. i.s \in [1 .. 2 -> DOMAIN v]
  <2>1. Len(<<2, 1>>) = 2 OBVIOUS
  <2>. QED BY <1>2, <2>1 DEF Reads
<1>4. [n \in DOMAIN Lanes[i.m].src |-> v[i.s[Lanes[i.m].src[n]]]] = <<b, a>> BY <1>2
<1>5. [n \in DOMAIN i.s |-> Seen[i.s[n]]] = <<Reversed(a), Reversed(b)>>
  <2>1. DOMAIN i.s = {1, 2} /\ i.s[1] \in DOMAIN v /\ i.s[2] \in DOMAIN v BY <1>3
  <2>. QED BY <2>1, SeenIs
<1>6. Guest!Lanewise["vandc"] = <<"andc", 1>> BY GuestBitOpsRows
<1>7. i.m \in DOMAIN Lanes /\ i.m \in DOMAIN Guest!Lanewise BY LanesDomain, GuestDomains
<1>8. Result(i) = Lanewise("andnot", 1, i.imm, <<b, a>>) BY <1>2, <1>4, <1>7, HostDispatch
<1>9. Guest!RegisterResult(i) = Guest!LanewiseResult(<<"andc", 1>>, i.imm, <<Reversed(a), Reversed(b)>>)
  BY <1>5, <1>6, <1>7, GuestDispatch
<1>. QED BY <1>8, <1>9, AndnotAgrees DEF Agrees

LEMMA MultiplyAdds ==
  ASSUME NEW i, i.m \in {"vmaddfp", "vnmsubfp"}, Reads(i, Len(Lanes[i.m].src), DOMAIN v), i.imm = 0
  PROVE  Agrees(i)
<1> DEFINE a == v[i.s[1]]
           b == v[i.s[2]]
           c == v[i.s[3]]
<1>1. /\ Lanes["vmaddfp"] = Row("madd", 4, <<1, 2, 3>>) /\ Lanes["vnmsubfp"] = Row("nmsub", 4, <<1, 2, 3>>)
  BY LanesMinMaxRows, LanesMultiplyRows
<1>2. PICK op \in {"madd", "nmsub"} : Lanes[i.m].op = op /\ Lanes[i.m].w = 4 /\ Lanes[i.m].src = <<1, 2, 3>>
                                      /\ Guest!MultiplyAdd[i.m] = <<op, 4>>
  BY <1>1, GuestMultiplyAddRows DEF Row
<1>3. i.s \in [1 .. 3 -> DOMAIN v]
  <2>1. Len(<<1, 2, 3>>) = 3 OBVIOUS
  <2>. QED BY <1>2, <2>1 DEF Reads
<1>4. [n \in DOMAIN Lanes[i.m].src |-> v[i.s[Lanes[i.m].src[n]]]] = <<a, b, c>> BY <1>2
<1>5. Seen[i.s[1]] = Reversed(a) /\ Seen[i.s[2]] = Reversed(b) /\ Seen[i.s[3]] = Reversed(c)
  <2>1. i.s[1] \in DOMAIN v /\ i.s[2] \in DOMAIN v /\ i.s[3] \in DOMAIN v BY <1>3
  <2>. QED BY <2>1, SeenIs
<1>7. i.m \in DOMAIN Lanes /\ i.m \in DOMAIN Guest!MultiplyAdd \cup {"vsel", "vperm"} BY LanesDomain, GuestDomains
<1>8. Result(i) = Lanewise(op, 4, 0, <<a, b, c>>) BY <1>2, <1>4, <1>7, HostDispatch
<1>9. Guest!RegisterResult(i) = Guest!Exec3(i.m, Reversed(a), Reversed(b), Reversed(c))
  BY <1>5, <1>7, GuestDispatch
<1>10. op # "andnot" /\ i.m \notin {"vsel", "vperm"} OBVIOUS
<1>. QED BY <1>2, <1>8, <1>9, <1>10, MultiplyAddAgrees DEF Agrees

\* The host's row of a comparison says what the guest's table does, and the
\* lanes CR6 is gathered from are those of the result, or their bytes.
SameComparison(m, row) ==
  /\ Guest!Compare[m] = <<row.op, row.w>>
  /\ row.op \notin {"or", "xor", "trunc", "andnot"} /\ row.w \in {1, 2, 4}
  /\ row.masked \in {0, 1, row.w}
  /\ row.masked = 0 => m \in {"vcmpgtub", "vcmpgtuh"}

LEMMA ComparesAreSame == \A m \in DOMAIN AllCompares : SameComparison(m, AllCompares[m])
<1>1. /\ \A m \in DOMAIN Compares : AllCompares[m] = Compares[m]
      /\ \A m \in DOMAIN ComparesLate : m \notin DOMAIN Compares => AllCompares[m] = ComparesLate[m]
  BY OverIs DEF AllCompares
<1>2. DOMAIN Compares = {"vcmpbfp", "vcmpeqfp", "vcmpequb", "vcmpequw", "vcmpgefp", "vcmpgtfp", "vcmpgtub", "vcmpgtuh"}
  BY DEF Compares
<1>3. DOMAIN ComparesLate = {"vcmpequh", "vcmpgtsh", "vcmpgtsw"} BY DEF ComparesLate
<1>4. /\ AllCompares["vcmpbfp"] = Comparison("bounds", 4, 4) /\ AllCompares["vcmpeqfp"] = Comparison("eqf", 4, 4)
      /\ AllCompares["vcmpequb"] = Comparison("eq", 1, 1) /\ AllCompares["vcmpequw"] = Comparison("eq", 4, 4)
      /\ AllCompares["vcmpgefp"] = Comparison("gef", 4, 4) /\ AllCompares["vcmpgtfp"] = Comparison("gtf", 4, 4)
      /\ AllCompares["vcmpgtub"] = Comparison("gt_u", 1, 0) /\ AllCompares["vcmpgtuh"] = Comparison("gt_u", 2, 0)
  BY <1>1 DEF Compares
<1>5. /\ AllCompares["vcmpequh"] = Comparison("eq", 2, 1) /\ AllCompares["vcmpgtsh"] = Comparison("gt_s", 2, 1)
      /\ AllCompares["vcmpgtsw"] = Comparison("gt_s", 4, 1)
  <2>1. ComparesLate["vcmpequh"] = Comparison("eq", 2, 1) /\ ComparesLate["vcmpgtsh"] = Comparison("gt_s", 2, 1)
        /\ ComparesLate["vcmpgtsw"] = Comparison("gt_s", 4, 1) BY DEF ComparesLate
  <2>. QED BY <1>1, <1>2, <1>3, <2>1
<1>6. /\ Guest!Compare["vcmpbfp"] = <<"bounds", 4>> /\ Guest!Compare["vcmpeqfp"] = <<"eqf", 4>>
      /\ Guest!Compare["vcmpequb"] = <<"eq", 1>> /\ Guest!Compare["vcmpequh"] = <<"eq", 2>>
      /\ Guest!Compare["vcmpequw"] = <<"eq", 4>> /\ Guest!Compare["vcmpgefp"] = <<"gef", 4>>
      /\ Guest!Compare["vcmpgtfp"] = <<"gtf", 4>> /\ Guest!Compare["vcmpgtub"] = <<"gt_u", 1>>
      /\ Guest!Compare["vcmpgtuh"] = <<"gt_u", 2>> /\ Guest!Compare["vcmpgtsh"] = <<"gt_s", 2>>
      /\ Guest!Compare["vcmpgtsw"] = <<"gt_s", 4>>
  BY DEF Guest!Compare
<1> USE <1>4, <1>5, <1>6 DEF Comparison, SameComparison
<1>7. SameComparison("vcmpbfp", AllCompares["vcmpbfp"]) OBVIOUS
<1>8. SameComparison("vcmpeqfp", AllCompares["vcmpeqfp"]) OBVIOUS
<1>9. SameComparison("vcmpequb", AllCompares["vcmpequb"]) OBVIOUS
<1>10. SameComparison("vcmpequh", AllCompares["vcmpequh"]) OBVIOUS
<1>11. SameComparison("vcmpequw", AllCompares["vcmpequw"]) OBVIOUS
<1>12. SameComparison("vcmpgefp", AllCompares["vcmpgefp"]) OBVIOUS
<1>13. SameComparison("vcmpgtfp", AllCompares["vcmpgtfp"]) OBVIOUS
<1>14. SameComparison("vcmpgtub", AllCompares["vcmpgtub"]) OBVIOUS
<1>15. SameComparison("vcmpgtuh", AllCompares["vcmpgtuh"]) OBVIOUS
<1>16. SameComparison("vcmpgtsh", AllCompares["vcmpgtsh"]) OBVIOUS
<1>17. SameComparison("vcmpgtsw", AllCompares["vcmpgtsw"]) OBVIOUS
<1> HIDE <1>4, <1>5, <1>6 DEF Comparison, SameComparison
<1>. QED BY <1>7, <1>8, <1>9, <1>10, <1>11, <1>12, <1>13, <1>14, <1>15, <1>16, <1>17, ComparesDomain

LEMMA ShiftsAreSame ==
  \A m \in DOMAIN Shifts :
    \E op, w : Shifts[m] = <<op, w>> /\ Guest!Shift[m] = <<op, w>> /\ w \in {1, 2, 4}
<1>1. DOMAIN ShiftsB = {"vslb", "vslh", "vsrah", "vsrh", "vrlh"} /\ DOMAIN ShiftsW = {"vslw"}
      /\ DOMAIN ShiftsR = {"vsraw", "vsrw"} /\ DOMAIN ShiftsLate = {"vsrab"}
  BY DEF ShiftsB, ShiftsW, ShiftsR, ShiftsLate
<1> DEFINE S1 == Over(ShiftsR, ShiftsLate)
           S2 == Over(ShiftsW, S1)
<1>2. Shifts = Over(ShiftsB, S2) BY DEF Shifts
<1> HIDE DEF S1, S2
<1>3. /\ DOMAIN S1 = DOMAIN ShiftsR \cup DOMAIN ShiftsLate /\ \A m \in DOMAIN ShiftsR : S1[m] = ShiftsR[m]
      /\ \A m \in DOMAIN ShiftsLate : m \notin DOMAIN ShiftsR => S1[m] = ShiftsLate[m]
  BY OverIs DEF S1
<1>4. /\ DOMAIN S2 = DOMAIN ShiftsW \cup DOMAIN S1 /\ \A m \in DOMAIN ShiftsW : S2[m] = ShiftsW[m]
      /\ \A m \in DOMAIN S1 : m \notin DOMAIN ShiftsW => S2[m] = S1[m]
  BY OverIs DEF S2
<1>5. /\ \A m \in DOMAIN ShiftsB : Shifts[m] = ShiftsB[m]
      /\ \A m \in DOMAIN S2 : m \notin DOMAIN ShiftsB => Shifts[m] = S2[m]
  <2>1. \A m \in DOMAIN ShiftsB : Over(ShiftsB, S2)[m] = ShiftsB[m] BY OverIs
  <2>2. \A m \in DOMAIN S2 : m \notin DOMAIN ShiftsB => Over(ShiftsB, S2)[m] = S2[m] BY OverIs
  <2>. QED BY <1>2, <2>1, <2>2
<1>7. /\ Shifts["vslb"] = <<"shl", 1>> /\ Shifts["vslh"] = <<"shl", 2>> /\ Shifts["vsrah"] = <<"sar", 2>>
      /\ Shifts["vsrh"] = <<"shr", 2>> /\ Shifts["vrlh"] = <<"rol", 2>>
  <2>1. /\ ShiftsB["vslb"] = <<"shl", 1>> /\ ShiftsB["vslh"] = <<"shl", 2>> /\ ShiftsB["vsrah"] = <<"sar", 2>>
        /\ ShiftsB["vsrh"] = <<"shr", 2>> /\ ShiftsB["vrlh"] = <<"rol", 2>>
    BY DEF ShiftsB
  <2>2. /\ "vslb" \in DOMAIN ShiftsB /\ "vslh" \in DOMAIN ShiftsB /\ "vsrah" \in DOMAIN ShiftsB
        /\ "vsrh" \in DOMAIN ShiftsB /\ "vrlh" \in DOMAIN ShiftsB
    BY <1>1
  <2>3. \A m \in DOMAIN ShiftsB : Shifts[m] = ShiftsB[m] BY <1>5
  <2>. QED BY <2>1, <2>2, <2>3
<1>8. Shifts["vslw"] = <<"shl", 4>>
  <2>1. ShiftsW["vslw"] = <<"shl", 4>> BY DEF ShiftsW
  <2>2. "vslw" \in DOMAIN S2 /\ S2["vslw"] = <<"shl", 4>> BY <1>1, <1>4, <2>1
  <2>. QED BY <1>1, <1>5, <2>2
<1>9. Shifts["vsraw"] = <<"sar", 4>> /\ Shifts["vsrw"] = <<"shr", 4>>
  <2>1. ShiftsR["vsraw"] = <<"sar", 4>> /\ ShiftsR["vsrw"] = <<"shr", 4>> BY DEF ShiftsR
  <2>2. {"vsraw", "vsrw"} \subseteq DOMAIN S1 /\ S1["vsraw"] = <<"sar", 4>> /\ S1["vsrw"] = <<"shr", 4>> BY <1>1, <1>3, <2>1
  <2>3. {"vsraw", "vsrw"} \subseteq DOMAIN S2 /\ S2["vsraw"] = <<"sar", 4>> /\ S2["vsrw"] = <<"shr", 4>> BY <1>1, <1>4, <2>2
  <2>. QED BY <1>1, <1>5, <2>3
<1>10. Shifts["vsrab"] = <<"sar", 1>>
  <2>1. ShiftsLate["vsrab"] = <<"sar", 1>> BY DEF ShiftsLate
  <2>2. "vsrab" \in DOMAIN S1 /\ S1["vsrab"] = <<"sar", 1>> BY <1>1, <1>3, <2>1
  <2>3. "vsrab" \in DOMAIN S2 /\ S2["vsrab"] = <<"sar", 1>> BY <1>1, <1>4, <2>2
  <2>. QED BY <1>1, <1>5, <2>3
<1>11. /\ Guest!Shift["vslb"] = <<"shl", 1>> /\ Guest!Shift["vslh"] = <<"shl", 2>> /\ Guest!Shift["vslw"] = <<"shl", 4>>
       /\ Guest!Shift["vsrh"] = <<"shr", 2>> /\ Guest!Shift["vsrw"] = <<"shr", 4>> /\ Guest!Shift["vsrab"] = <<"sar", 1>>
       /\ Guest!Shift["vsrah"] = <<"sar", 2>> /\ Guest!Shift["vsraw"] = <<"sar", 4>> /\ Guest!Shift["vrlh"] = <<"rol", 2>>
  BY DEF Guest!Shift
<1> USE <1>7, <1>8, <1>9, <1>10, <1>11
<1> DEFINE Alike(m) == \E op, w : Shifts[m] = <<op, w>> /\ Guest!Shift[m] = <<op, w>> /\ w \in {1, 2, 4}
<1>12. Alike("vslb") OBVIOUS
<1>13. Alike("vslh") OBVIOUS
<1>14. Alike("vslw") OBVIOUS
<1>15. Alike("vsrh") OBVIOUS
<1>16. Alike("vsrw") OBVIOUS
<1>17. Alike("vsrab") OBVIOUS
<1>18. Alike("vsrah") OBVIOUS
<1>19. Alike("vsraw") OBVIOUS
<1>20. Alike("vrlh") OBVIOUS
<1> HIDE <1>7, <1>8, <1>9, <1>10, <1>11 DEF Alike
<1>21. \A m \in DOMAIN Shifts : Alike(m)
  BY <1>12, <1>13, <1>14, <1>15, <1>16, <1>17, <1>18, <1>19, <1>20, ShiftsDomain
<1>. QED BY <1>21 DEF Alike

\* What the guest sees of the sources.
LEMMA TwoSources ==
  ASSUME NEW i, Reads(i, 2, DOMAIN v)
  PROVE  Seen[i.s[1]] = Reversed(v[i.s[1]]) /\ Seen[i.s[2]] = Reversed(v[i.s[2]])
<1>1. i.s[1] \in DOMAIN v /\ i.s[2] \in DOMAIN v BY DEF Reads
<1>. QED BY <1>1, SeenIs

LEMMA OneSource ==
  ASSUME NEW i, Reads(i, 1, DOMAIN v)
  PROVE  Seen[i.s[1]] = Reversed(v[i.s[1]])
<1>1. i.s[1] \in DOMAIN v BY DEF Reads
<1>. QED BY <1>1, SeenIs

LEMMA ThreeSources ==
  ASSUME NEW i, Reads(i, 3, DOMAIN v)
  PROVE  /\ Seen[i.s[1]] = Reversed(v[i.s[1]]) /\ Seen[i.s[2]] = Reversed(v[i.s[2]])
         /\ Seen[i.s[3]] = Reversed(v[i.s[3]])
<1>1. i.s[1] \in DOMAIN v /\ i.s[2] \in DOMAIN v /\ i.s[3] \in DOMAIN v BY DEF Reads
<1>. QED BY <1>1, SeenIs

\* Class by class.
LEMMA Comparisons ==
  ASSUME NEW i, i.m \in DOMAIN AllCompares, Reads(i, 2, DOMAIN v)
  PROVE  Agrees(i)
<1> DEFINE a == v[i.s[1]]
           b == v[i.s[2]]
<1>1. PICK op, w : op = AllCompares[i.m].op /\ w = AllCompares[i.m].w OBVIOUS
<1>2. op # "andnot" /\ w \in {1, 2, 4} /\ Guest!Compare[i.m] = <<op, w>> BY <1>1, ComparesAreSame DEF SameComparison
<1>3. i.m \in DOMAIN Guest!Compare BY ComparesDomain, GuestDomains
<1>4. Result(i) = Lanewise(op, w, 0, <<a, b>>) BY <1>1, HostDispatch
<1>5. Guest!RegisterResult(i) = Guest!LanewiseResult(<<op, w>>, 0, <<Reversed(a), Reversed(b)>>)
  BY <1>2, <1>3, GuestDispatch, TwoSources
<1>6. Mirrors(<<a, b>>, <<Reversed(a), Reversed(b)>>) BY DEF Mirrors
<1> HIDE DEF a, b
<1>. QED BY <1>2, <1>4, <1>5, <1>6, LanewiseAgrees DEF Agrees

LEMMA Shifting ==
  ASSUME NEW i, i.m \in DOMAIN Shifts, Reads(i, 2, DOMAIN v)
  PROVE  Agrees(i)
<1>1. PICK a, b : a = v[i.s[1]] /\ b = v[i.s[2]] OBVIOUS
<1>2. PICK op, w : Shifts[i.m] = <<op, w>> /\ Guest!Shift[i.m] = <<op, w>> /\ w \in {1, 2, 4} BY ShiftsAreSame
<1>3. i.m \in DOMAIN Guest!Shift BY ShiftsDomain, GuestDomains
<1>4. Result(i) = ShiftLanes(<<op, w>>, a, b) BY <1>1, <1>2, HostDispatch
<1>5. Guest!RegisterResult(i) = Guest!ShiftResult(<<op, w>>, Reversed(a), Reversed(b))
  BY <1>1, <1>2, <1>3, GuestDispatch, TwoSources
<1>6. Reversed(ShiftLanes(<<op, w>>, a, b)) = Guest!ShiftResult(<<op, w>>, Reversed(a), Reversed(b))
  BY <1>2, ShiftAgrees
<1>. QED BY <1>4, <1>5, <1>6 DEF Agrees

LEMMA Merging ==
  ASSUME NEW i, i.m \in MergeInsns, Reads(i, 2, DOMAIN v)
  PROVE  Agrees(i)
<1>1. PICK a, b : a = v[i.s[1]] /\ b = v[i.s[2]] OBVIOUS
<1>2. i.m \in DOMAIN Guest!Merge BY GuestDomains DEF MergeInsns
<1>3. Result(i) = Merge(i.m, a, b) BY <1>1, HostDispatch
<1>4. Guest!RegisterResult(i) = Guest!MergeResult(Guest!Merge[i.m], Reversed(a), Reversed(b))
  BY <1>1, <1>2, GuestDispatch, TwoSources
<1>5. CASE i.m = "vmrghb"
  <2>1. Merge(i.m, a, b) = unpackhi(1, b, a) BY <1>5 DEF Merge
  <2>2. Guest!Merge[i.m] = <<1, 0>> BY <1>5 DEF Guest!Merge
  <2>. QED BY <1>3, <1>4, <2>1, <2>2, MergeHighAgrees DEF Agrees
<1>6. CASE i.m = "vmrghh"
  <2>1. Merge(i.m, a, b) = unpackhi(2, b, a) BY <1>6 DEF Merge
  <2>2. Guest!Merge[i.m] = <<2, 0>> BY <1>6 DEF Guest!Merge
  <2>. QED BY <1>3, <1>4, <2>1, <2>2, MergeHighAgrees DEF Agrees
<1>7. CASE i.m = "vmrghw"
  <2>1. Merge(i.m, a, b) = unpackhi(4, b, a) BY <1>7 DEF Merge
  <2>2. Guest!Merge[i.m] = <<4, 0>> BY <1>7 DEF Guest!Merge
  <2>. QED BY <1>3, <1>4, <2>1, <2>2, MergeHighAgrees DEF Agrees
<1>8. CASE i.m = "vmrglb"
  <2>1. Merge(i.m, a, b) = unpacklo(1, b, a) BY <1>8 DEF Merge
  <2>2. Guest!Merge[i.m] = <<1, 8>> /\ 8 \div 1 = 8 BY <1>8 DEF Guest!Merge
  <2>3. Reversed(unpacklo(1, b, a)) = Guest!MergeResult(<<1, 8 \div 1>>, Reversed(a), Reversed(b)) BY MergeLowAgrees
  <2>. QED BY <1>3, <1>4, <2>1, <2>2, <2>3 DEF Agrees
<1>9. CASE i.m = "vmrglh"
  <2>1. Merge(i.m, a, b) = unpacklo(2, b, a) BY <1>9 DEF Merge
  <2>2. Guest!Merge[i.m] = <<2, 4>> /\ 8 \div 2 = 4 BY <1>9 DEF Guest!Merge
  <2>3. Reversed(unpacklo(2, b, a)) = Guest!MergeResult(<<2, 8 \div 2>>, Reversed(a), Reversed(b)) BY MergeLowAgrees
  <2>. QED BY <1>3, <1>4, <2>1, <2>2, <2>3 DEF Agrees
<1>10. CASE i.m = "vmrglw"
  <2>1. Merge(i.m, a, b) = unpacklo(4, b, a) BY <1>10 DEF Merge
  <2>2. Guest!Merge[i.m] = <<4, 2>> /\ 8 \div 4 = 2 BY <1>10 DEF Guest!Merge
  <2>3. Reversed(unpacklo(4, b, a)) = Guest!MergeResult(<<4, 8 \div 4>>, Reversed(a), Reversed(b)) BY MergeLowAgrees
  <2>. QED BY <1>3, <1>4, <2>1, <2>2, <2>3 DEF Agrees
<1>. QED BY <1>5, <1>6, <1>7, <1>8, <1>9, <1>10 DEF MergeInsns

LEMMA WidenHigh ==
  ASSUME NEW w, w \in {1, 2}, NEW a
  PROVE  Reversed(cvtepi(w, unpackhi(8, a, a))) = Guest!UnpackResult(<<w, 0>>, Reversed(a))
<1>1. PICK x : x = unpackhi(8, a, a) OBVIOUS
<1>2. \A n \in 0 .. 7 : x[n] = a[8 + n] BY <1>1, HighHalf
<1>3. Reversed(cvtepi(w, x)) = Guest!UnpackResult(<<w, 0>>, Reversed(a)) BY <1>2, WidenAgrees
<1>. QED BY <1>1, <1>3

LEMMA WidenLow ==
  ASSUME NEW w, w \in {1, 2}, NEW a
  PROVE  Reversed(cvtepi(w, a)) = Guest!UnpackResult(<<w, 8 \div w>>, Reversed(a))
<1>1. PICK first : first = 8 \div w OBVIOUS
<1>2. Reversed(cvtepi(w, a)) = Guest!UnpackResult(<<w, first>>, Reversed(a)) BY <1>1, WidenAgrees
<1>. QED BY <1>1, <1>2

LEMMA Unpacking ==
  ASSUME NEW i, i.m \in UnpackInsns, Reads(i, 1, DOMAIN v)
  PROVE  Agrees(i)
<1>1. PICK a : a = v[i.s[1]] OBVIOUS
<1>2. i.m \in DOMAIN Guest!Unpack BY GuestDomains DEF UnpackInsns
<1>3. Result(i) = Unpack(i.m, a) BY <1>1, HostDispatch
<1>4. Guest!RegisterResult(i) = Guest!UnpackResult(Guest!Unpack[i.m], Reversed(a))
  BY <1>1, <1>2, GuestDispatch, OneSource
<1>5. CASE i.m = "vupkhsb"
  <2>1. Unpack(i.m, a) = cvtepi(1, unpackhi(8, a, a)) BY <1>5 DEF Unpack
  <2>2. Guest!Unpack[i.m] = <<1, 0>> BY <1>5 DEF Guest!Unpack
  <2>. QED BY <1>3, <1>4, <2>1, <2>2, WidenHigh DEF Agrees
<1>6. CASE i.m = "vupkhsh"
  <2>1. Unpack(i.m, a) = cvtepi(2, unpackhi(8, a, a)) BY <1>6 DEF Unpack
  <2>2. Guest!Unpack[i.m] = <<2, 0>> BY <1>6 DEF Guest!Unpack
  <2>. QED BY <1>3, <1>4, <2>1, <2>2, WidenHigh DEF Agrees
<1>7. CASE i.m = "vupklsb"
  <2>1. Unpack(i.m, a) = cvtepi(1, a) BY <1>7 DEF Unpack
  <2>2. Guest!Unpack[i.m] = <<1, 8>> /\ 8 \div 1 = 8 BY <1>7 DEF Guest!Unpack
  <2>3. Reversed(cvtepi(1, a)) = Guest!UnpackResult(<<1, 8 \div 1>>, Reversed(a)) BY WidenLow
  <2>. QED BY <1>3, <1>4, <2>1, <2>2, <2>3 DEF Agrees
<1>8. CASE i.m = "vupklsh"
  <2>1. Unpack(i.m, a) = cvtepi(2, a) BY <1>8 DEF Unpack
  <2>2. Guest!Unpack[i.m] = <<2, 4>> /\ 8 \div 2 = 4 BY <1>8 DEF Guest!Unpack
  <2>3. Reversed(cvtepi(2, a)) = Guest!UnpackResult(<<2, 8 \div 2>>, Reversed(a)) BY WidenLow
  <2>. QED BY <1>3, <1>4, <2>1, <2>2, <2>3 DEF Agrees
<1>. QED BY <1>5, <1>6, <1>7, <1>8 DEF UnpackInsns

LEMMA Packing ==
  ASSUME NEW i, i.m \in PacksByIntrinsic \ {"vpkuhus"}, Reads(i, 2, DOMAIN v)
  PROVE  Agrees(i)
<1>1. PICK a, b : a = v[i.s[1]] /\ b = v[i.s[2]] OBVIOUS
<1>2. i.m \in DOMAIN Guest!Pack BY GuestDomains DEF PacksByIntrinsic
<1>3. Result(i) = Pack(i.m, a, b) BY <1>1, HostDispatch
<1>4. Guest!RegisterResult(i) = Guest!PackResult(Guest!Pack[i.m], Reversed(a), Reversed(b))
  BY <1>1, <1>2, GuestDispatch, TwoSources
<1>5. CASE i.m = "vpkshss"
  <2>1. Pack(i.m, a, b) = pack("sat_ss", 2, b, a) BY <1>5 DEF Pack
  <2>2. Guest!Pack[i.m] = <<"sat_ss", 2>> BY <1>5 DEF Guest!Pack
  <2>. QED BY <1>3, <1>4, <2>1, <2>2, PackAgrees DEF Agrees
<1>6. CASE i.m = "vpkshus"
  <2>1. Pack(i.m, a, b) = pack("sat_su", 2, b, a) BY <1>6 DEF Pack
  <2>2. Guest!Pack[i.m] = <<"sat_su", 2>> BY <1>6 DEF Guest!Pack
  <2>. QED BY <1>3, <1>4, <2>1, <2>2, PackAgrees DEF Agrees
<1>7. CASE i.m = "vpkswss"
  <2>1. Pack(i.m, a, b) = pack("sat_ss", 4, b, a) BY <1>7 DEF Pack
  <2>2. Guest!Pack[i.m] = <<"sat_ss", 4>> BY <1>7 DEF Guest!Pack
  <2>. QED BY <1>3, <1>4, <2>1, <2>2, PackAgrees DEF Agrees
<1>8. CASE i.m = "vpkuhum"
  <2>1. Pack(i.m, a, b) = pack("trunc", 2, b, a) BY <1>8 DEF Pack
  <2>2. Guest!Pack[i.m] = <<"trunc", 2>> BY <1>8 DEF Guest!Pack
  <2>. QED BY <1>3, <1>4, <2>1, <2>2, PackAgrees DEF Agrees
<1>. QED BY <1>5, <1>6, <1>7, <1>8 DEF PacksByIntrinsic

LEMMA DotProducts ==
  ASSUME NEW i, i.m \in {"vmsum3fp128", "vmsum4fp128"}, Reads(i, 2, DOMAIN v)
  PROVE  Agrees(i)
<1>1. PICK a, b : a = v[i.s[1]] /\ b = v[i.s[2]] OBVIOUS
<1>2. Result(i) = DotProduct(i.m, a, b) BY <1>1, HostDispatch
<1>3. CASE i.m = "vmsum3fp128"
  <2>1. DotProduct(i.m, a, b) = dp_ps(a, b, {1, 2, 3}) BY <1>3 DEF DotProduct
  <2>2. Guest!RegisterResult(i) = Guest!DotProduct(3, Reversed(a), Reversed(b))
    BY <1>1, <1>3, GuestDispatch, TwoSources
  <2>. QED BY <1>2, <2>1, <2>2, DotAgrees DEF Agrees
<1>4. CASE i.m = "vmsum4fp128"
  <2>1. DotProduct(i.m, a, b) = dp_ps(a, b, {0, 1, 2, 3}) BY <1>4 DEF DotProduct
  <2>2. Guest!RegisterResult(i) = Guest!DotProduct(4, Reversed(a), Reversed(b))
    BY <1>1, <1>4, GuestDispatch, TwoSources
  <2>. QED BY <1>2, <2>1, <2>2, DotAgrees DEF Agrees
<1>. QED BY <1>3, <1>4

LEMMA PermutingWords ==
  ASSUME NEW i, i.m = "vpermwi128", Reads(i, 1, DOMAIN v), i.imm \in 0 .. 255
  PROVE  Agrees(i)
<1>1. PICK a, imm : a = v[i.s[1]] /\ imm = i.imm OBVIOUS
<1>2. imm \in Nat BY <1>1
<1>3. Result(i) = PermuteWords(a, imm) BY <1>1, HostDispatch
<1>4. Guest!RegisterResult(i) = Guest!PermuteWords(Reversed(a), imm) BY <1>1, GuestDispatch, OneSource
<1>. QED BY <1>2, <1>3, <1>4, PermuteWordsAgrees DEF Agrees

LEMMA RotatingInserts ==
  ASSUME NEW i, i.m = "vrlimi128", Reads(i, 1, DOMAIN v), i.imm \in 0 .. 63, i.d \in DOMAIN v
  PROVE  Agrees(i)
<1>1. PICK a, d, mask, z : a = v[i.s[1]] /\ d = v[i.d] /\ mask = i.imm \div 4 /\ z = i.imm % 4 OBVIOUS
<1>2. z \in 0 .. 3
  <2>1. PICK imm \in 0 .. 63 : imm = i.imm OBVIOUS
  <2>2. imm % 4 \in 0 .. 3 OBVIOUS
  <2>. QED BY <1>1, <2>1, <2>2
<1>3. Result(i) = RotateInsert(d, a, mask, z) BY <1>1, HostDispatch
<1>4. Guest!RegisterResult(i) = Guest!RotateInsert(Reversed(d), Reversed(a), mask, z)
  BY <1>1, GuestDispatch, OneSource, SeenIs
<1>. QED BY <1>2, <1>3, <1>4, RotateInsertAgrees DEF Agrees

LEMMA Selecting ==
  ASSUME NEW i, i.m = "vsel", Reads(i, 3, DOMAIN v)
  PROVE  Agrees(i)
<1>1. PICK a, b, c : a = v[i.s[1]] /\ b = v[i.s[2]] /\ c = v[i.s[3]] OBVIOUS
<1>2. Result(i) = Select(a, b, c) BY <1>1, HostDispatch
<1>3. Guest!RegisterResult(i) = Guest!Exec3("vsel", Reversed(a), Reversed(b), Reversed(c))
  <2>1. i.m \in DOMAIN Guest!MultiplyAdd \cup {"vsel", "vperm"} OBVIOUS
  <2>. QED BY <1>1, <2>1, GuestDispatch, ThreeSources
<1>. QED BY <1>2, <1>3, SelectAgrees DEF Agrees

LEMMA Permuting ==
  ASSUME NEW i, i.m = "vperm", Reads(i, 3, DOMAIN v), \A n \in Bytes : v[i.s[3]][n][2] \in Int
  PROVE  Agrees(i)
<1>1. PICK a, b, c : a = v[i.s[1]] /\ b = v[i.s[2]] /\ c = v[i.s[3]] OBVIOUS
<1>2. Result(i) = mm_perm_epi8(a, b, c) BY <1>1, HostDispatch
<1>3. Guest!RegisterResult(i) = Guest!Exec3("vperm", Reversed(a), Reversed(b), Reversed(c))
  <2>1. i.m \in DOMAIN Guest!MultiplyAdd \cup {"vsel", "vperm"} OBVIOUS
  <2>. QED BY <1>1, <2>1, GuestDispatch, ThreeSources
<1>4. \A n \in Bytes : c[n][2] \in Int BY <1>1
<1>5. Reversed(mm_perm_epi8(a, b, c)) = Guest!Exec3("vperm", Reversed(a), Reversed(b), Reversed(c))
  BY <1>4, PermuteAgrees
<1>. QED BY <1>2, <1>3, <1>5 DEF Agrees

LEMMA ShiftingDouble ==
  ASSUME NEW i, i.m = "vsldoi", Reads(i, 2, DOMAIN v), i.imm \in 0 .. 15
  PROVE  Agrees(i)
<1>1. PICK a, b, imm : a = v[i.s[1]] /\ b = v[i.s[2]] /\ imm = i.imm OBVIOUS
<1>2. Result(i) = ShiftDouble(a, b, imm) BY <1>1, HostDispatch
<1>3. Guest!RegisterResult(i) = Guest!ShiftDouble(Reversed(a), Reversed(b), imm) BY <1>1, GuestDispatch, TwoSources
<1>. QED BY <1>1, <1>2, <1>3, ShiftDoubleAgrees DEF Agrees

LEMMA Splatting ==
  ASSUME NEW i, Reads(i, 1, DOMAIN v),
         \/ i.m = "vspltb" /\ i.imm \in 0 .. 15
         \/ i.m = "vsplth" /\ i.imm \in 0 .. 7
         \/ i.m = "vspltw" /\ i.imm \in 0 .. 3
  PROVE  Agrees(i)
<1>1. PICK a, imm : a = v[i.s[1]] /\ imm = i.imm OBVIOUS
<1>2. CASE i.m = "vspltb" /\ i.imm \in 0 .. 15
  <2>1. Result(i) = SplatByte(a, imm) BY <1>1, <1>2, HostDispatch
  <2>2. Guest!RegisterResult(i) = Guest!SplatByte(Reversed(a), imm) BY <1>1, <1>2, GuestDispatch, OneSource
  <2>. QED BY <1>1, <1>2, <2>1, <2>2, SplatByteAgrees DEF Agrees
<1>3. CASE i.m = "vsplth" /\ i.imm \in 0 .. 7
  <2>1. Result(i) = SplatHalf(a, imm) BY <1>1, <1>3, HostDispatch
  <2>2. Guest!RegisterResult(i) = Guest!SplatHalf(Reversed(a), imm) BY <1>1, <1>3, GuestDispatch, OneSource
  <2>. QED BY <1>1, <1>3, <2>1, <2>2, SplatHalfAgrees DEF Agrees
<1>4. CASE i.m = "vspltw" /\ i.imm \in 0 .. 3
  <2>1. Result(i) = SplatWord(a, imm) BY <1>1, <1>4, HostDispatch
  <2>2. Guest!RegisterResult(i) = Guest!SplatWord(Reversed(a), imm) BY <1>1, <1>4, GuestDispatch, OneSource
  <2>. QED BY <1>1, <1>4, <2>1, <2>2, SplatWordAgrees DEF Agrees
<1>. QED BY <1>2, <1>3, <1>4

LEMMA UnpackingColours ==
  ASSUME NEW i, i.m = "vupkd3d128", Reads(i, 1, DOMAIN v)
  PROVE  Agrees(i)
<1>1. PICK a : a = v[i.s[1]] OBVIOUS
<1>2. Result(i) = IF i.imm = 0 THEN UnpackColour(a) ELSE UnpackShorts(a) BY <1>1, HostDispatch
<1>3. Guest!RegisterResult(i) = IF i.imm = 0 THEN Guest!UnpackColour(Reversed(a)) ELSE Guest!UnpackShorts(Reversed(a))
  BY <1>1, GuestDispatch, OneSource
<1>. QED BY <1>2, <1>3, UnpackColourAgrees, UnpackShortsAgrees DEF Agrees

LEMMA Loading ==
  ASSUME NEW i, i.m \in {"lvlx", "lvrx", "lvsl", "lvsr", "lvx"}, i.ea \in Nat
  PROVE  Agrees(i)
<1>1. PICK ea \in Nat : ea = i.ea OBVIOUS
<1>2. PICK m : m = i.m OBVIOUS
<1>3. Guest!RegisterResult(i) = Guest!LoadResult(m, ea)
  <2>1. i.m \in Guest!Loads BY GuestDomains
  <2>. QED BY <1>1, <1>2, <2>1, GuestDispatch
<1>4. CASE i.m = "lvx"
  <2>1. Result(i) = LoadLine(ea) BY <1>1, <1>4, HostDispatch
  <2>. QED BY <1>2, <1>3, <1>4, <2>1, LineAgrees DEF Agrees
<1>5. CASE i.m # "lvx"
  <2>1. m \in {"lvlx", "lvrx", "lvsl", "lvsr"} BY <1>2, <1>5
  <2>2. Result(i) = Load(m, ea) BY <1>1, <1>2, <2>1, HostDispatch
  <2>. QED BY <1>3, <2>1, <2>2, LoadAgrees DEF Agrees
<1>. QED BY <1>4, <1>5

LEMMA ShiftingBits ==
  ASSUME NEW i, i.m \in {"vsl", "vsr"}, Reads(i, 2, DOMAIN v), Controlled(i), ~Guest!Undefined(i)
  PROVE  Agrees(i)
<1>1. PICK a, b : a = v[i.s[1]] /\ b = v[i.s[2]] OBVIOUS
<1>2. b[15][2] \in Int /\ b[0][2] \in Int
  <2>1. 15 \in Bytes /\ 0 \in Bytes BY DEF Bytes
  <2>. QED BY <1>1, <2>1 DEF Controlled
<1>3. b[0][2] % 8 = b[15][2] % 8
  <2>1. \A n \in Guest!Bytes : Seen[i.s[2]][n][2] % 8 = Seen[i.s[2]][0][2] % 8
    BY DEF Guest!Undefined, Seen
  <2>2. \A n \in Guest!Bytes : Reversed(b)[n][2] % 8 = Reversed(b)[0][2] % 8 BY <1>1, <2>1, TwoSources
  <2>3. Reversed(b)[15] = b[0] /\ Reversed(b)[0] = b[15]
    <3>1. 15 \in Bytes /\ 0 \in Bytes /\ 15 - 15 = 0 /\ 15 - 0 = 15 BY DEF Bytes
    <3>. QED BY <3>1 DEF Reversed
  <2>4. 15 \in Guest!Bytes BY GuestBytes DEF Bytes
  <2>5. Reversed(b)[15][2] % 8 = Reversed(b)[0][2] % 8 BY <2>2, <2>4
  <2>. QED BY <2>3, <2>5
<1>4. Reversed(b)[15] = b[0]
  <2>1. 15 \in Bytes /\ 15 - 15 = 0 BY DEF Bytes
  <2>. QED BY <2>1 DEF Reversed
<1>5. CASE i.m = "vsl"
  <2>1. Result(i) = mm_vsl(a, b) BY <1>1, <1>5, HostDispatch
  <2>2. Guest!RegisterResult(i) = Guest!ShiftBits(Reversed(a), Reversed(b)[15][2] % 8)
    BY <1>1, <1>5, GuestDispatch, TwoSources
  <2>3. Guest!RegisterResult(i) = Guest!ShiftBits(Reversed(a), b[15][2] % 8) BY <1>3, <1>4, <2>2
  <2>4. Reversed(mm_vsl(a, b)) = Guest!ShiftBits(Reversed(a), b[15][2] % 8) BY <1>2, ShiftLeftAgrees
  <2>. QED BY <2>1, <2>3, <2>4 DEF Agrees
<1>6. CASE i.m = "vsr"
  <2>1. Result(i) = mm_vsr(a, b) BY <1>1, <1>6, HostDispatch
  <2>2. Guest!RegisterResult(i) = Guest!ShiftBits(Reversed(a), -(Reversed(b)[15][2] % 8))
    BY <1>1, <1>6, GuestDispatch, TwoSources
  <2>3. Guest!RegisterResult(i) = Guest!ShiftBits(Reversed(a), -(b[0][2] % 8)) BY <1>4, <2>2
  <2>4. Reversed(mm_vsr(a, b)) = Guest!ShiftBits(Reversed(a), -(b[0][2] % 8)) BY <1>2, ShiftRightAgrees
  <2>. QED BY <2>1, <2>3, <2>4 DEF Agrees
<1>. QED BY <1>5, <1>6

LEMMA OnLanes ==
  ASSUME NEW i, i.m \in DOMAIN Lanes \ {"vavgsw"}, Reads(i, Len(Lanes[i.m].src), DOMAIN v),
         i.m \in {"vmaddfp", "vnmsubfp"} => i.imm = 0
  PROVE  Agrees(i)
<1>1. CASE i.m = "vandc" BY <1>1, Complement
<1>2. CASE i.m \in {"vmaddfp", "vnmsubfp"} BY <1>2, MultiplyAdds
<1>3. CASE i.m \notin {"vandc", "vmaddfp", "vnmsubfp"} BY <1>3, PlainLanes
<1>. QED BY <1>1, <1>2, <1>3

\* What is printed as several statements.
Loops == DOMAIN PacksByLoop \cup {"vpkd3d128"}

\* Every instruction printed as one statement.
LEMMA OneStatement ==
  ASSUME NEW i, Accounted(i, DOMAIN v), i.m \notin Loops \cup StoreInsns, Controlled(i), ~Guest!Undefined(i)
  PROVE  Agrees(i)
<1>1. CASE /\ i.m \in DOMAIN Lanes \ {"vavgsw"} /\ Reads(i, Len(Lanes[i.m].src), DOMAIN v)
           /\ i.m \in {"vmaddfp", "vnmsubfp"} => i.imm = 0
  BY <1>1, OnLanes
<1>2. CASE i.m \in DOMAIN AllCompares /\ Reads(i, 2, DOMAIN v) BY <1>2, Comparisons
<1>3. CASE i.m \in DOMAIN Shifts /\ Reads(i, 2, DOMAIN v) BY <1>3, Shifting
<1>4. CASE i.m \in MergeInsns /\ Reads(i, 2, DOMAIN v) BY <1>4, Merging
<1>5. CASE i.m \in PacksByIntrinsic \ {"vpkuhus"} /\ Reads(i, 2, DOMAIN v) BY <1>5, Packing
<1>6. CASE i.m \in {"vmsum3fp128", "vmsum4fp128"} /\ Reads(i, 2, DOMAIN v) BY <1>6, DotProducts
<1>7. CASE i.m \in {"vsl", "vsr"} /\ Reads(i, 2, DOMAIN v) BY <1>7, ShiftingBits
<1>8. CASE i.m \in UnpackInsns /\ Reads(i, 1, DOMAIN v) BY <1>8, Unpacking
<1>9. CASE i.m = "vupkd3d128" /\ Reads(i, 1, DOMAIN v) BY <1>9, UnpackingColours
<1>10. CASE i.m = "vsel" /\ Reads(i, 3, DOMAIN v) BY <1>10, Selecting
<1>11. CASE i.m = "vperm" /\ Reads(i, 3, DOMAIN v) BY <1>11, Permuting DEF Controlled
<1>12. CASE i.m = "vpermwi128" /\ Reads(i, 1, DOMAIN v) /\ i.imm \in 0 .. 255 BY <1>12, PermutingWords
<1>13. CASE i.m = "vrlimi128" /\ Reads(i, 1, DOMAIN v) /\ i.imm \in 0 .. 63 BY <1>13, RotatingInserts DEF Accounted
<1>14. CASE i.m = "vsldoi" /\ Reads(i, 2, DOMAIN v) /\ i.imm \in 0 .. 15 BY <1>14, ShiftingDouble
<1>15. CASE i.m = "vspltb" /\ Reads(i, 1, DOMAIN v) /\ i.imm \in 0 .. 15 BY <1>15, Splatting
<1>16. CASE i.m = "vsplth" /\ Reads(i, 1, DOMAIN v) /\ i.imm \in 0 .. 7 BY <1>16, Splatting
<1>17. CASE i.m = "vspltw" /\ Reads(i, 1, DOMAIN v) /\ i.imm \in 0 .. 3 BY <1>17, Splatting
<1>18. CASE i.m \in {"lvlx", "lvrx", "lvsl", "lvsr", "lvx"} /\ i.ea \in Nat BY <1>18, Loading
<1>. QED BY <1>1, <1>2, <1>3, <1>4, <1>5, <1>6, <1>7, <1>8, <1>9, <1>10, <1>11, <1>12, <1>13, <1>14, <1>15, <1>16,
            <1>17, <1>18 DEF Accounted, Loops

\* The register file after an instruction.
LEMMA FileDispatch ==
  ASSUME NEW i
  PROVE  /\ i.m \in DOMAIN PacksByLoop => File(i) = PackWords(v, PacksByLoop[i.m], i.d, i.s[1], i.s[2])
         /\ i.m = "vpkd3d128" => File(i) = (IF i.imm = 5 THEN PackHalves(v, i.d, i.s[1]) ELSE PackColour(v, i.d, i.s[1], i.imm))
         /\ i.m \notin Loops => File(i) = [v EXCEPT ![i.d] = Result(i)]
<1> DEFINE A1 == PackWords(v, PacksByLoop[i.m], i.d, i.s[1], i.s[2])
           A2 == IF i.imm = 5 THEN PackHalves(v, i.d, i.s[1]) ELSE PackColour(v, i.d, i.s[1], i.imm)
           A3 == [v EXCEPT ![i.d] = Result(i)]
<1>1. File(i) = CASE i.m \in DOMAIN PacksByLoop -> A1 [] i.m = "vpkd3d128" -> A2 [] OTHER -> A3
  BY Zenon DEF File
<1>2. DOMAIN PacksByLoop = {"vpkswus", "vpkuwum", "vpkuwus"} BY DEF PacksByLoop
<1> HIDE DEF A1, A2, A3
<1>3. /\ i.m \in DOMAIN PacksByLoop => File(i) = A1
      /\ i.m = "vpkd3d128" => File(i) = A2
      /\ i.m \notin Loops => File(i) = A3
  BY <1>1, <1>2 DEF Loops
<1>. QED BY <1>3 DEF A1, A2, A3

\* One statement sets the destination.
LEMMA StatementSets ==
  ASSUME NEW i, i.m \notin Loops, i.d \in DOMAIN v
  PROVE  Sets(File(i), v, i.d, Result(i))
<1>1. PICK x : x = Result(i) OBVIOUS
<1>2. File(i) = [v EXCEPT ![i.d] = x] BY <1>1, FileDispatch
<1>. QED BY <1>1, <1>2 DEF Sets

LEMMA PackingWords ==
  ASSUME NEW i, i.m \in DOMAIN PacksByLoop, Reads(i, 2, DOMAIN v), i.s[1] # i.d, i.d \in DOMAIN v
  PROVE  \E x : Sets(File(i), v, i.d, x) /\ Reversed(x) = Guest!RegisterResult(i)
<1>1. PICK s1, s2, d : s1 = i.s[1] /\ s2 = i.s[2] /\ d = i.d OBVIOUS
<1>2. DOMAIN PacksByLoop = {"vpkswus", "vpkuwum", "vpkuwus"} BY DEF PacksByLoop
<1>3. PICK op : PacksByLoop[i.m] = op /\ Guest!Pack[i.m] = <<op, 4>>
  BY <1>2 DEF PacksByLoop, Guest!Pack
<1>4. i.m \in DOMAIN Guest!Pack BY <1>2, GuestDomains
<1>5. File(i) = PackWords(v, op, d, s1, s2) BY <1>1, <1>3, FileDispatch
<1>6. Guest!RegisterResult(i) = Guest!PackResult(<<op, 4>>, Reversed(v[s1]), Reversed(v[s2]))
  BY <1>1, <1>3, <1>4, GuestDispatch, TwoSources
<1>7. s1 \in DOMAIN v BY <1>1 DEF Reads
<1>8. \E x : Sets(PackWords(v, op, d, s1, s2), v, d, x)
             /\ Reversed(x) = Guest!PackResult(<<op, 4>>, Reversed(v[s1]), Reversed(v[s2]))
  BY <1>1, <1>7, PackWordsAgrees
<1>. QED BY <1>1, <1>5, <1>6, <1>8

LEMMA PackingColours ==
  ASSUME NEW i, i.m = "vpkd3d128", Reads(i, 1, DOMAIN v), i.d \in DOMAIN v,
         i.imm \in 0 .. 3 \/ (i.imm = 5 /\ i.s[1] # i.d)
  PROVE  \E x : Sets(File(i), v, i.d, x) /\ Reversed(x) = Guest!RegisterResult(i)
<1>1. PICK s, d, imm : s = i.s[1] /\ d = i.d /\ imm = i.imm OBVIOUS
<1>2. s \in DOMAIN v BY <1>1 DEF Reads
<1>3. Seen[d] = Reversed(v[d]) /\ Seen[s] = Reversed(v[s]) BY <1>1, <1>2, SeenIs
<1>4. CASE imm = 5 /\ s # d
  <2>1. File(i) = PackHalves(v, d, s) BY <1>1, <1>4, FileDispatch
  <2>2. Guest!RegisterResult(i) = Guest!PackHalves(Reversed(v[d]), Reversed(v[s])) BY <1>1, <1>3, <1>4, GuestDispatch
  <2>. QED BY <1>1, <1>2, <1>4, <2>1, <2>2, PackHalvesAgrees
<1>5. CASE imm \in 0 .. 3
  <2>1. imm # 5 BY <1>5
  <2>2. File(i) = PackColour(v, d, s, imm) BY <1>1, <2>1, FileDispatch
  <2>3. Guest!RegisterResult(i) = Guest!PackColour(Reversed(v[d]), Reversed(v[s]), imm) BY <1>1, <1>3, <2>1, GuestDispatch
  <2>. QED BY <1>1, <1>2, <1>5, <2>2, <2>3, PackColourAgrees
<1>. QED BY <1>1, <1>4, <1>5

\* What belongs to one class of instructions belongs to no other.
LEMMA LoopsAreApart ==
  ASSUME NEW m, m \in Loops
  PROVE  /\ m \in {"vpkswus", "vpkuwum", "vpkuwus", "vpkd3d128"}
         /\ m \notin DOMAIN Lanes /\ m \notin DOMAIN AllCompares /\ m \notin DOMAIN Shifts
         /\ m \notin MergeInsns /\ m \notin UnpackInsns /\ m \notin PacksByIntrinsic /\ m \notin StoreInsns
<1>1. m \in {"vpkswus", "vpkuwum", "vpkuwus", "vpkd3d128"} BY DEF Loops, PacksByLoop
<1>. QED BY <1>1, LanesDomain, ComparesDomain, ShiftsDomain DEF MergeInsns, UnpackInsns, PacksByIntrinsic, StoreInsns

\* A store is in no other class.
LEMMA StoresAreApart ==
  ASSUME NEW m, m \in StoreInsns
  PROVE  /\ m \notin DOMAIN Lanes /\ m \notin DOMAIN AllCompares /\ m \notin DOMAIN Shifts
         /\ m \notin MergeInsns /\ m \notin UnpackInsns /\ m \notin PacksByIntrinsic /\ m \notin Loops
BY LanesDomain, ComparesDomain, ShiftsDomain DEF MergeInsns, UnpackInsns, PacksByIntrinsic, StoreInsns, Loops, PacksByLoop

LEMMA ComparesAreApart ==
  ASSUME NEW m, m \in DOMAIN AllCompares
  PROVE  /\ m \notin DOMAIN Lanes /\ m \notin StoreInsns /\ m \notin DOMAIN Shifts
         /\ m \notin MergeInsns /\ m \notin UnpackInsns /\ m \notin PacksByIntrinsic /\ m \notin Loops
BY LanesDomain, ComparesDomain, ShiftsDomain DEF MergeInsns, UnpackInsns, PacksByIntrinsic, StoreInsns, Loops, PacksByLoop

\* What Accounted says of some classes.
LEMMA LoopsAccounted ==
  ASSUME NEW i, NEW R, Accounted(i, R), i.m \in Loops
  PROVE  /\ i.m \in DOMAIN PacksByLoop => Reads(i, 2, R) /\ i.s[1] # i.d
         /\ i.m = "vpkd3d128" => Reads(i, 1, R) /\ (i.imm \in 0 .. 3 \/ (i.imm = 5 /\ i.s[1] # i.d))
<1>1. PICK m : m = i.m OBVIOUS
<1>2. /\ m \in {"vpkswus", "vpkuwum", "vpkuwus", "vpkd3d128"}
      /\ m \notin DOMAIN Lanes /\ m \notin DOMAIN AllCompares /\ m \notin DOMAIN Shifts
      /\ m \notin MergeInsns /\ m \notin UnpackInsns /\ m \notin PacksByIntrinsic /\ m \notin StoreInsns
  BY <1>1, LoopsAreApart
<1>3. DOMAIN PacksByLoop = {"vpkswus", "vpkuwum", "vpkuwus"} BY DEF PacksByLoop
<1>4. ASSUME m = "vpkd3d128"
      PROVE  Reads(i, 1, R) /\ (i.imm \in 0 .. 3 \/ (i.imm = 5 /\ i.s[1] # i.d))
  BY <1>1, <1>2, <1>3, <1>4 DEF Accounted
<1>5. ASSUME m \in DOMAIN PacksByLoop PROVE Reads(i, 2, R) /\ i.s[1] # i.d
  <2>1. m \in {"vpkswus", "vpkuwum", "vpkuwus"} BY <1>3, <1>5
  <2>. QED BY <1>1, <1>2, <2>1 DEF Accounted
<1>. QED BY <1>1, <1>4, <1>5

LEMMA StoresAccounted ==
  ASSUME NEW i, NEW R, Accounted(i, R), i.m \in StoreInsns
  PROVE  Reads(i, 1, R) /\ i.ea \in Nat
<1>1. PICK m : m = i.m OBVIOUS
<1>2. /\ m \notin DOMAIN Lanes /\ m \notin DOMAIN AllCompares /\ m \notin DOMAIN Shifts
      /\ m \notin MergeInsns /\ m \notin UnpackInsns /\ m \notin PacksByIntrinsic /\ m \notin Loops
  BY <1>1, StoresAreApart
<1>3. m \notin DOMAIN PacksByLoop /\ m # "vpkd3d128" BY <1>2 DEF Loops
<1>4. m \in {"stvehx", "stvewx", "stvlx", "stvrx", "stvx"} BY <1>1 DEF StoreInsns
<1>. QED BY <1>1, <1>2, <1>3, <1>4 DEF Accounted

LEMMA ComparesAccounted ==
  ASSUME NEW i, NEW R, Accounted(i, R), i.m \in DOMAIN AllCompares
  PROVE  Reads(i, 2, R) /\ (i.imm = 1 => AllCompares[i.m].masked # 0)
<1>1. PICK m : m = i.m OBVIOUS
<1>2. /\ m \notin DOMAIN Lanes /\ m \notin StoreInsns /\ m \notin DOMAIN Shifts
      /\ m \notin MergeInsns /\ m \notin UnpackInsns /\ m \notin PacksByIntrinsic /\ m \notin Loops
  BY <1>1, ComparesAreApart
<1>3. m \notin DOMAIN PacksByLoop /\ m # "vpkd3d128" BY <1>2 DEF Loops
<1>4. m \in {"vcmpbfp", "vcmpeqfp", "vcmpequb", "vcmpequw", "vcmpgefp", "vcmpgtfp", "vcmpgtub", "vcmpgtuh", "vcmpequh",
             "vcmpgtsh", "vcmpgtsw"}
  BY <1>1, ComparesDomain
<1>5. Reads(i, 2, R) /\ (i.imm = 1 => m \notin {"vcmpbfp", "vcmpgtub", "vcmpgtuh"})
  BY <1>1, <1>2, <1>3, <1>4 DEF Accounted
<1>6. m \notin {"vcmpgtub", "vcmpgtuh"} => AllCompares[m].masked # 0 BY <1>1, ComparesAreSame DEF SameComparison
<1>. QED BY <1>1, <1>5, <1>6

\* Every instruction that is no store sets its destination to what the guest's
\* has, reversed, and nothing else.
LEMMA Writes ==
  ASSUME NEW i, Accounted(i, DOMAIN v), i.m \notin StoreInsns, Controlled(i), ~Guest!Undefined(i)
  PROVE  \E x : Sets(File(i), v, i.d, x) /\ Reversed(x) = Guest!RegisterResult(i)
<1>1. i.d \in DOMAIN v BY DEF Accounted
<1>2. CASE i.m \notin Loops BY <1>1, <1>2, OneStatement, StatementSets DEF Agrees
<1>3. CASE i.m \in DOMAIN PacksByLoop
  <2>1. i.m \in Loops BY <1>3 DEF Loops
  <2>. QED BY <1>1, <1>3, <2>1, LoopsAccounted, PackingWords
<1>4. CASE i.m = "vpkd3d128"
  <2>1. i.m \in Loops BY <1>4 DEF Loops
  <2>. QED BY <1>1, <1>4, <2>1, LoopsAccounted, PackingColours
<1>. QED BY <1>2, <1>3, <1>4 DEF Loops

-----------------------------------------------------------------------------
(* CR6.                                                                    *)

\* CR6: the lane a byte of a term belongs to.
LEMMA LaneOfTerm == \A op, imm, ls, k : LaneOf(<<op, imm, ls, k>>) = <<op, imm, ls>>
<1> TAKE op, imm, ls, k
<1>1. Len(<<op, imm, ls, k>>) = 4 OBVIOUS
<1>2. SubSeq(<<op, imm, ls, k>>, 1, 3) = <<op, imm, ls>>
  <2>1. PICK s : s = <<op, imm, ls, k>> OBVIOUS
  <2>2. Len(s) = 4 /\ s[1] = op /\ s[2] = imm /\ s[3] = ls BY <2>1
  <2>3. s \in Seq({op, imm, ls, k}) BY <2>1
  <2>4. /\ SubSeq(s, 1, 3) \in Seq({op, imm, ls, k}) /\ Len(SubSeq(s, 1, 3)) = 3
        /\ \A j \in 1 .. 3 : SubSeq(s, 1, 3)[j] = s[j]
    BY <2>2, <2>3
  <2>5. PICK t : t = SubSeq(s, 1, 3) OBVIOUS
  <2>6. t \in Seq({op, imm, ls, k}) /\ Len(t) = 3 /\ t[1] = op /\ t[2] = imm /\ t[3] = ls BY <2>2, <2>4, <2>5
  <2>7. t = <<op, imm, ls>> BY <2>6
  <2>. QED BY <2>1, <2>5, <2>7
<1>. QED BY <1>1, <1>2 DEF LaneOf

\* The top byte of every lane is one of its bytes, and every byte has a lane.
LEMMA MaskedPlaces ==
  ASSUME NEW w, w \in {1, 2, 4}
  PROVE  /\ \A j \in 0 .. (16 \div w) - 1 : w * j + w - 1 \in Bytes /\ (w * j + w - 1) \div w = j
         /\ \A q \in Bytes : q \div w \in 0 .. (16 \div w) - 1
<1>1. CASE w = 1 BY <1>1 DEF Bytes
<1>2. CASE w = 2
  <2>1. 16 \div w = 8 BY <1>2
  <2>2. \A j \in 0 .. 7 : 2 * j + 2 - 1 \in Bytes /\ (2 * j + 2 - 1) \div 2 = j BY DEF Bytes
  <2>3. \A q \in Bytes : q \div 2 \in 0 .. 7 BY DEF Bytes
  <2>. QED BY <1>2, <2>1, <2>2, <2>3
<1>3. CASE w = 4
  <2>1. 16 \div w = 4 BY <1>3
  <2>2. \A j \in 0 .. 3 : 4 * j + 4 - 1 \in Bytes /\ (4 * j + 4 - 1) \div 4 = j BY DEF Bytes
  <2>3. \A q \in Bytes : q \div 4 \in 0 .. 3 BY DEF Bytes
  <2>. QED BY <1>3, <2>1, <2>2, <2>3
<1>. QED BY <1>1, <1>2, <1>3

\* What the bytes of a result show, from the most significant one of the
\* console's register to the least.
LanesShown(r) == {LaneOf(r[15 - n]) : n \in Bytes}

\* What CR6 is gathered from shows every lane of a comparison, and no other.
LEMMA MaskShowsLanes ==
  ASSUME NEW op, op \notin {"or", "xor", "trunc", "andnot"}, NEW w, w \in {1, 2, 4}, NEW x,
         NEW masked, masked \in {1, w}
  PROVE  SetFromMask(Lanewise(op, w, 0, x), masked) = LanesShown(Lanewise(op, w, 0, x))
<1> DEFINE ls(j) == [n \in DOMAIN x |-> Lane(x[n], w, j)]
           L(j) == <<op, 0, ls(j)>>
           c == 16 \div w
           r == Lanewise(op, w, 0, x)
<1>1. \A q \in Bytes : LaneOf(r[q]) = L(q \div w)
  <2>1. SUFFICES ASSUME NEW q \in Bytes PROVE LaneOf(r[q]) = L(q \div w) OBVIOUS
  <2>2. q % w \in 0 .. w - 1 BY DEF Bytes
  <2>3. PICK l : l = ls(q \div w) OBVIOUS
  <2>4. r[q] = Term(op, 0, l, q % w) BY <2>2, <2>3 DEF Lanewise, FromLanes
  <2>5. r[q] = <<op, 0, l, q % w>> BY <2>4 DEF Term
  <2>. QED BY <2>3, <2>5, LaneOfTerm
<1> HIDE DEF r, L
<1>2. /\ \A j \in 0 .. c - 1 : w * j + w - 1 \in Bytes /\ (w * j + w - 1) \div w = j
      /\ \A q \in Bytes : q \div w \in 0 .. c - 1
  BY MaskedPlaces
<1> HIDE DEF c
<1>3. LanesShown(r) = {L(j) : j \in 0 .. c - 1}
  <2>1. ASSUME NEW n \in Bytes PROVE LaneOf(r[15 - n]) \in {L(j) : j \in 0 .. c - 1}
    <3>1. 15 - n \in Bytes BY DEF Bytes
    <3>2. PICK q \in Bytes : q = 15 - n BY <3>1
    <3>. QED BY <1>1, <1>2, <3>2
  <2>2. ASSUME NEW j \in 0 .. c - 1 PROVE L(j) \in LanesShown(r)
    <3>1. PICK q \in Bytes : q \div w = j BY <1>2
    <3>2. PICK n \in Bytes : 15 - n = q BY DEF Bytes
    <3>3. LaneOf(r[15 - n]) = L(j) BY <1>1, <3>1, <3>2
    <3>. QED BY <3>3 DEF LanesShown
  <2>. QED BY <2>1, <2>2 DEF LanesShown
<1>4. CASE masked = w
  <2>1. SetFromMask(r, masked) = {LaneOf(r[w * j + w - 1]) : j \in 0 .. c - 1} BY <1>4 DEF SetFromMask, c
  <2>2. \A j \in 0 .. c - 1 : LaneOf(r[w * j + w - 1]) = L(j)
    <3>1. SUFFICES ASSUME NEW j \in 0 .. c - 1 PROVE LaneOf(r[w * j + w - 1]) = L(j) OBVIOUS
    <3>2. PICK q \in Bytes : q = w * j + w - 1 /\ q \div w = j BY <1>2
    <3>. QED BY <1>1, <3>2
  <2>3. SetFromMask(r, masked) = {L(j) : j \in 0 .. c - 1} BY <2>1, <2>2
  <2>. QED BY <1>3, <2>3 DEF r
<1>5. CASE masked = 1
  <2>1. SetFromMask(r, masked) = {LaneOf(r[q]) : q \in Bytes}
    <3>1. 16 \div 1 = 16 OBVIOUS
    <3>2. 0 .. (16 \div masked) - 1 = Bytes /\ \A j \in Bytes : masked * j + masked - 1 = j BY <1>5 DEF Bytes
    <3>3. SetFromMask(r, masked) = {LaneOf(r[masked * j + masked - 1]) : j \in Bytes} BY <3>2 DEF SetFromMask
    <3>. QED BY <3>2, <3>3
  <2>2. {LaneOf(r[q]) : q \in Bytes} = LanesShown(r)
    <3>1. \A n \in Bytes : 15 - n \in Bytes /\ 15 - (15 - n) = n BY DEF Bytes
    <3>. QED BY <3>1 DEF LanesShown
  <2>. QED BY <2>1, <2>2 DEF r
<1>. QED BY <1>4, <1>5

\* The record forms.
LEMMA RecordAgrees ==
  ASSUME NEW i, i.m \in DOMAIN AllCompares, Reads(i, 2, DOMAIN v), AllCompares[i.m].masked # 0
  PROVE  SetFromMask(Result(i), AllCompares[i.m].masked)
         = {Guest!LaneOf(Guest!RegisterResult(i)[n]) : n \in Guest!Bytes}
<1>1. PICK op, w, masked : op = AllCompares[i.m].op /\ w = AllCompares[i.m].w /\ masked = AllCompares[i.m].masked
  OBVIOUS
<1>2. op \notin {"or", "xor", "trunc", "andnot"} /\ w \in {1, 2, 4} /\ masked \in {1, w}
  BY <1>1, ComparesAreSame DEF SameComparison
<1>3. PICK x : x = <<v[i.s[1]], v[i.s[2]]>> OBVIOUS
<1>4. Result(i) = Lanewise(op, w, 0, x) BY <1>1, <1>3, HostDispatch
<1>5. Reversed(Result(i)) = Guest!RegisterResult(i) BY Comparisons DEF Agrees
<1>6. SetFromMask(Lanewise(op, w, 0, x), masked) = LanesShown(Lanewise(op, w, 0, x))
  <2>1. CASE masked = 1 BY <1>2, <2>1, MaskShowsLanes
  <2>2. CASE masked = w BY <1>2, <2>2, MaskShowsLanes
  <2>. QED BY <1>2, <2>1, <2>2
<1>7. PICK r : r = Result(i) OBVIOUS
<1>8. {Guest!LaneOf(Guest!RegisterResult(i)[n]) : n \in Guest!Bytes} = {LaneOf(Reversed(r)[n]) : n \in Bytes}
  BY <1>5, <1>7, GuestLaneOf, GuestBytes
<1>9. {LaneOf(Reversed(r)[n]) : n \in Bytes} = LanesShown(r)
  BY DEF Reversed, LanesShown
<1>10. SetFromMask(r, masked) = LanesShown(r) BY <1>4, <1>6, <1>7
<1>11. SetFromMask(Result(i), AllCompares[i.m].masked) = LanesShown(r) BY <1>1, <1>7, <1>10
<1>. QED BY <1>8, <1>9, <1>11

-----------------------------------------------------------------------------
(* Memory.                                                                 *)

\* The stores, instruction by instruction.
LEMMA GuestStoreDispatch ==
  ASSUME NEW i
  PROVE  /\ i.m = "stvx" =>
              Guest!StoreResult(i) = [n \in (i.ea - (i.ea % 16)) .. (i.ea - (i.ea % 16) + 15) |-> Seen[i.s[1]][n % 16]]
         /\ i.m = "stvlx" => Guest!StoreResult(i) = [n \in i.ea .. (i.ea + 15 - (i.ea % 16)) |-> Seen[i.s[1]][n - i.ea]]
         /\ i.m = "stvrx" => Guest!StoreResult(i) = [n \in (i.ea - (i.ea % 16)) .. (i.ea - 1) |-> Seen[i.s[1]][n + 16 - i.ea]]
         /\ i.m = "stvehx" => Guest!StoreResult(i) = GuestLane(Seen[i.s[1]], 2, i.ea)
         /\ i.m = "stvewx" => Guest!StoreResult(i) = GuestLane(Seen[i.s[1]], 4, i.ea)
<1>1. ASSUME i.m = "stvx" PROVE Guest!StoreResult(i)
     = [n \in (i.ea - (i.ea % 16)) .. (i.ea - (i.ea % 16) + 15) |-> Seen[i.s[1]][n % 16]]
  BY <1>1 DEF Guest!StoreResult, Seen
<1>2. ASSUME i.m = "stvlx" PROVE Guest!StoreResult(i) = [n \in i.ea .. (i.ea + 15 - (i.ea % 16)) |-> Seen[i.s[1]][n - i.ea]]
  BY <1>2 DEF Guest!StoreResult, Seen
<1>3. ASSUME i.m = "stvrx" PROVE Guest!StoreResult(i)
     = [n \in (i.ea - (i.ea % 16)) .. (i.ea - 1) |-> Seen[i.s[1]][n + 16 - i.ea]]
  BY <1>3 DEF Guest!StoreResult, Seen
<1>4. ASSUME i.m = "stvehx" PROVE Guest!StoreResult(i) = GuestLane(Seen[i.s[1]], 2, i.ea)
  BY <1>4 DEF Guest!StoreResult, Seen, GuestLane
<1>5. ASSUME i.m = "stvewx" PROVE Guest!StoreResult(i) = GuestLane(Seen[i.s[1]], 4, i.ea)
  BY <1>5 DEF Guest!StoreResult, Seen, GuestLane
<1>. QED BY <1>1, <1>2, <1>3, <1>4, <1>5

LEMMA StoredAgrees ==
  ASSUME NEW i, i.m \in StoreInsns, Reads(i, 1, DOMAIN v), i.ea \in Nat
  PROVE  Stored(i.m, v[i.s[1]], i.ea) = Guest!StoreResult(i)
<1>1. PICK x, ea : x = v[i.s[1]] /\ ea = i.ea OBVIOUS
<1>2. ea \in Nat BY <1>1
<1>3. Seen[i.s[1]] = Reversed(x) BY <1>1, OneSource
<1>4. CASE i.m = "stvehx"
  <2>1. Guest!StoreResult(i) = GuestLane(Reversed(x), 2, ea) BY <1>1, <1>3, <1>4, GuestStoreDispatch
  <2>2. Stored(i.m, x, ea) = StoreLane(x, 2, ea) BY <1>4 DEF Stored
  <2>. QED BY <1>1, <1>2, <2>1, <2>2, StoreLaneAgrees
<1>5. CASE i.m = "stvewx"
  <2>1. Guest!StoreResult(i) = GuestLane(Reversed(x), 4, ea) BY <1>1, <1>3, <1>5, GuestStoreDispatch
  <2>2. Stored(i.m, x, ea) = StoreLane(x, 4, ea) BY <1>5 DEF Stored
  <2>. QED BY <1>1, <1>2, <2>1, <2>2, StoreLaneAgrees
<1>6. CASE i.m = "stvlx"
  <2>1. Guest!StoreResult(i) = [n \in ea .. (ea + 15 - (ea % 16)) |-> Reversed(x)[n - ea]]
    BY <1>1, <1>3, <1>6, GuestStoreDispatch
  <2>2. Stored(i.m, x, ea) = StoreLeft(x, ea) BY <1>6 DEF Stored
  <2>3. StoreLeft(x, ea) = [n \in ea .. (ea + 15 - (ea % 16)) |-> Reversed(x)[n - ea]]
    BY <1>2, StoreLeftAgrees
  <2>. QED BY <1>1, <2>1, <2>2, <2>3, Zenon
<1>7. CASE i.m = "stvrx"
  <2>1. Guest!StoreResult(i) = [n \in (ea - (ea % 16)) .. (ea - 1) |-> Reversed(x)[n + 16 - ea]]
    BY <1>1, <1>3, <1>7, GuestStoreDispatch
  <2>2. Stored(i.m, x, ea) = StoreRight(x, ea) BY <1>7 DEF Stored
  <2>3. StoreRight(x, ea) = [n \in (ea - (ea % 16)) .. (ea - 1) |-> Reversed(x)[n + 16 - ea]]
    BY <1>2, StoreRightAgrees
  <2>. QED BY <1>1, <2>1, <2>2, <2>3, Zenon
<1>8. CASE i.m = "stvx"
  <2>1. Guest!StoreResult(i) = [n \in (ea - (ea % 16)) .. (ea - (ea % 16) + 15) |-> Reversed(x)[n % 16]]
    <3>1. Guest!StoreResult(i) = [n \in (i.ea - (i.ea % 16)) .. (i.ea - (i.ea % 16) + 15) |-> Seen[i.s[1]][n % 16]]
      BY <1>8, GuestStoreDispatch
    <3>. QED BY <1>1, <1>3, <3>1, Zenon
  <2>2. Stored(i.m, x, ea) = StoreLine(x, ea) BY <1>8 DEF Stored
  <2>3. StoreLine(x, ea) = [n \in (ea - (ea % 16)) .. (ea - (ea % 16) + 15) |-> Reversed(x)[n % 16]]
    BY <1>2, StoreLineAgrees
  <2>. QED BY <1>1, <2>1, <2>2, <2>3, Zenon
<1>. QED BY <1>4, <1>5, <1>6, <1>7, <1>8 DEF StoreInsns

UnitInv ==
  /\ prog \in Listings
  /\ pc \in Nat \ {0}
  /\ \E f \in Files : DOMAIN v = DOMAIN f

\* The next instruction is one the code accounts for.
LEMMA NextIsAccounted ==
  ASSUME UnitInv, pc <= Len(prog)
  PROVE  Accounted(prog[pc], DOMAIN v)
<1>1. PICK f \in Files : DOMAIN v = DOMAIN f BY DEF UnitInv
<1>2. PICK p \in Listings : p = prog BY DEF UnitInv
<1>3. PICK n \in Nat \ {0} : n = pc BY DEF UnitInv
<1>4. Len(p) \in Nat /\ n <= Len(p) BY <1>2, <1>3, ListingsAssumption
<1>5. n \in 1 .. Len(p) BY <1>4
<1>6. Accounted(p[n], DOMAIN f) BY <1>5, ListingsAssumption
<1>. QED BY <1>1, <1>2, <1>3, <1>6

\* An instruction that is no store writes its destination and nothing else.
LEMMA WritesDestination ==
  ASSUME NEW i, Accounted(i, DOMAIN v), i.m \notin StoreInsns
  PROVE  DOMAIN File(i) = DOMAIN v /\ \A r \in DOMAIN v \ {i.d} : File(i)[r] = v[r]
<1>1. i.d \in DOMAIN v BY DEF Accounted
<1>2. \E x : Sets(File(i), v, i.d, x)
  <2>1. CASE i.m \notin Loops BY <1>1, <2>1, StatementSets
  <2>2. CASE i.m \in DOMAIN PacksByLoop
    <3>1. i.m \in Loops BY <2>2 DEF Loops
    <3>. QED BY <1>1, <2>2, <3>1, PackingWords, LoopsAccounted
  <2>3. CASE i.m = "vpkd3d128"
    <3>1. i.m \in Loops BY <2>3 DEF Loops
    <3>. QED BY <1>1, <2>3, <3>1, PackingColours, LoopsAccounted
  <2>. QED BY <2>1, <2>2, <2>3 DEF Loops
<1>. QED BY <1>2 DEF Sets

\* UnitInv is inductive.
LEMMA UnitInvInit == UnitInit => UnitInv
<1>1. SUFFICES ASSUME UnitInit PROVE UnitInv OBVIOUS
<1>2. PICK f \in Files : v = [r \in DOMAIN f |-> Reversed(f[r])] BY <1>1 DEF UnitInit
<1>3. DOMAIN v = DOMAIN f BY <1>2
<1>. QED BY <1>1, <1>3 DEF UnitInit, UnitInv

LEMMA UnitInvNext == UnitInv /\ [UnitNext]_unitVars => UnitInv'
<1>1. SUFFICES ASSUME UnitInv, [UnitNext]_unitVars PROVE UnitInv' OBVIOUS
<1>2. CASE UNCHANGED unitVars BY <1>1, <1>2 DEF UnitInv, unitVars
<1>3. CASE UnitNext
  <2>1. prog' \in Listings /\ pc' \in Nat \ {0} BY <1>1, <1>3 DEF UnitInv, UnitNext
  <2>2. PICK i : i = prog[pc] OBVIOUS
  <2>3. Accounted(i, DOMAIN v) BY <1>1, <1>3, <2>2, NextIsAccounted DEF UnitNext
  <2>4. Store(i) \/ Calculate(i) BY <1>3, <2>2 DEF UnitNext
  <2>5. DOMAIN v' = DOMAIN v
    <3>1. CASE Store(i) BY <3>1 DEF Store
    <3>2. CASE Calculate(i) BY <2>3, <3>2, WritesDestination DEF Calculate
    <3>. QED BY <2>4, <3>1, <3>2
  <2>. QED BY <1>1, <2>1, <2>5 DEF UnitInv
<1>. QED BY <1>1, <1>2, <1>3

\* A store of the host is one of the guest, with the registers seen reversed.
LEMMA StoresImplement ==
  ASSUME NEW i, Accounted(i, DOMAIN v), Store(i)
  PROVE  Guest!Executes(i)
<1>1. i.m \in StoreInsns /\ i.m \in Guest!Stores BY DEF Store, StoreInsns, Guest!Stores
<1>2. Reads(i, 1, DOMAIN v) /\ i.ea \in Nat BY <1>1, StoresAccounted
<1>3. PICK s : s = Guest!StoreResult(i) OBVIOUS
<1>4. mem' = Over(s, mem) BY <1>1, <1>2, <1>3, StoredAgrees DEF Store
<1>5. mem' = Guest!Over(Guest!StoreResult(i), mem) BY <1>3, <1>4 DEF Guest!Over, Over
<1>6. UNCHANGED <<v, cr6>> BY DEF Store
<1>. QED BY <1>1, <1>5, <1>6 DEF Guest!Executes

\* So is everything else; where the shift count is undefined, the guest may do
\* anything with the destination.
LEMMA CalculationsImplement ==
  ASSUME NEW i, Accounted(i, DOMAIN v), Calculate(i), Controlled(i)
  PROVE  Guest!Executes(i)
<1>1. i.m \notin StoreInsns /\ i.m \notin Guest!Stores BY DEF Calculate, StoreInsns, Guest!Stores
<1>2. PICK after : after = File(i) OBVIOUS
<1>3. v' = after /\ mem' = mem BY <1>2 DEF Calculate
<1>4. DOMAIN after = DOMAIN v /\ \A r \in DOMAIN v \ {i.d} : after[r] = v[r]
  BY <1>1, <1>2, WritesDestination
<1>5. CASE Guest!Undefined(i)
  <2>1. i.m \in {"vsl", "vsr"} BY <1>5 DEF Guest!Undefined
  <2>2. ~Record(i) BY <2>1, ComparesDomain DEF Record
  <2>3. cr6' = cr6 BY <2>2 DEF Calculate
  <2>4. \A r \in (DOMAIN [r \in DOMAIN v |-> Reversed(v[r])]) \ {i.d} :
          [q \in DOMAIN v' |-> Reversed(v'[q])][r] = [q \in DOMAIN v |-> Reversed(v[q])][r]
    BY <1>3, <1>4
  <2>. QED BY <1>1, <1>3, <1>5, <2>3, <2>4 DEF Guest!Executes
<1>6. CASE ~Guest!Undefined(i)
  <2>1. PICK x : Sets(after, v, i.d, x) /\ Reversed(x) = Guest!RegisterResult(i)
    BY <1>1, <1>2, <1>6, Writes
  <2>2. i.d \in DOMAIN v BY DEF Accounted
  <2>3. PICK g : g = Guest!RegisterResult(i) OBVIOUS
  <2>4. [r \in DOMAIN v' |-> Reversed(v'[r])] = [[r \in DOMAIN v |-> Reversed(v[r])] EXCEPT ![i.d] = g]
    BY <1>3, <2>1, <2>2, <2>3 DEF Sets
  <2>5. cr6' = IF i.m \in DOMAIN Guest!Compare /\ i.imm = 1
               THEN {Guest!LaneOf(Guest!RegisterResult(i)[n]) : n \in Guest!Bytes} ELSE cr6
    <3>1. i.m \in DOMAIN Guest!Compare <=> i.m \in DOMAIN AllCompares BY ComparesDomain, GuestDomains
    <3>2. CASE i.m \in DOMAIN AllCompares /\ i.imm = 1
      <4>1. Reads(i, 2, DOMAIN v) /\ AllCompares[i.m].masked # 0 BY <3>2, ComparesAccounted
      <4>2. cr6' = SetFromMask(Result(i), AllCompares[i.m].masked) BY <3>2, <4>1 DEF Calculate, Record
      <4>3. SetFromMask(Result(i), AllCompares[i.m].masked)
            = {Guest!LaneOf(Guest!RegisterResult(i)[n]) : n \in Guest!Bytes}
        BY <3>2, <4>1, RecordAgrees
      <4>. QED BY <3>1, <3>2, <4>2, <4>3
    <3>3. CASE ~(i.m \in DOMAIN AllCompares /\ i.imm = 1)
      <4>1. ~Record(i) BY <3>3 DEF Record
      <4>2. cr6' = cr6 BY <4>1 DEF Calculate
      <4>. QED BY <3>1, <3>3, <4>2
    <3>. QED BY <3>2, <3>3
  <2>. QED BY <1>1, <1>3, <1>6, <2>3, <2>4, <2>5 DEF Guest!Executes
<1>. QED BY <1>5, <1>6

\* Every step of the host is a step of the guest or leaves all it sees alone.
LEMMA StepImplements == UnitInv /\ ControlsKnown /\ [UnitNext]_unitVars => [Guest!Next]_Guest!vars
<1>1. SUFFICES ASSUME UnitInv, ControlsKnown, [UnitNext]_unitVars PROVE [Guest!Next]_Guest!vars OBVIOUS
<1>2. CASE UNCHANGED unitVars BY <1>2 DEF unitVars, Guest!vars
<1>3. CASE UnitNext
  <2>1. PICK i : i = prog[pc] OBVIOUS
  <2>2. Accounted(i, DOMAIN v) BY <1>1, <1>3, <2>1, NextIsAccounted DEF UnitNext
  <2>3. Controlled(i) BY <1>1, <1>3, <2>1 DEF ControlsKnown, UnitNext
  <2>4. Store(i) \/ Calculate(i) BY <1>3, <2>1 DEF UnitNext
  <2>5. Guest!Executes(i) BY <2>2, <2>3, <2>4, StoresImplement, CalculationsImplement
  <2>6. pc <= Len(prog) /\ pc' = pc + 1 /\ UNCHANGED prog BY <1>3 DEF UnitNext
  <2>7. Guest!Executes(prog[pc]) BY <2>1, <2>5
  <2>. QED BY <2>6, <2>7 DEF Guest!Next
<1>. QED BY <1>1, <1>2, <1>3

\* Whatever the registers and the memory hold at the start, however many
\* registers there are, and whatever the program, a sequence of any length of
\* instructions the code accounts for: recompiled, it does to the registers,
\* seen reversed, to the memory and to CR6 what the console does. It is assumed
\* that permutations are controlled and shifts counted by numbers.
THEOREM HostImplementsGuest == UnitSpec /\ []ControlsKnown => ImplementsGuest
<1>1. UnitInit => UnitInv BY UnitInvInit
<1>2. UnitInv /\ [UnitNext]_unitVars => UnitInv' BY UnitInvNext
<1>3. UnitInv /\ ControlsKnown /\ [UnitNext]_unitVars => [Guest!Next]_Guest!vars BY StepImplements
<1>. QED BY <1>1, <1>2, <1>3, PTL DEF UnitSpec, ImplementsGuest, Guest!Spec
=============================================================================
