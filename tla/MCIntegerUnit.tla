---------------------------- MODULE MCIntegerUnit ----------------------------
(***************************************************************************)
(* Instances of IntegerUnit with bytes of one bit, words of four and        *)
(* registers of eight, and sixteen bytes of memory: every instruction alone *)
(* on values at and next to the ends of the signed and unsigned ranges, the *)
(* sequences compilers make of several instructions, and two threads that   *)
(* count or take a lock with the atomic instructions.                       *)
(***************************************************************************)
EXTENDS IntegerUnit

VARIABLE held   \* what a console's thread would have reserved

R(m, d, a, b) == Insn(m, d, a, b, 0, FALSE)
I(m, d, a, n) == Insn(m, d, a, 0, n, FALSE)
Recorded(i) == [i EXCEPT !.rc = TRUE]
Word4 == 2 ^ W

-----------------------------------------------------------------------------
(* One instruction. Registers 1 and 2 hold x and y, register 0 and 3 others. *)

\* Words with the sign extended, as code for 32 bits has them, and others.
Extended == {0, 1, 7, 248, 250, 255}
Boundary == Extended \cup {8, 15, 16, 127, 128, 240}
Immediates == -8 .. 7
Halfwords == {0, 1, 2, 3}

Arithmetic ==
    {R(m, d, 1, 2) : d \in {1, 2, 3},
        m \in {"add", "addc", "adde", "subf", "subfc", "subfe", "mullw", "mulld", "mulhw", "mulhwu", "mulhdu"}
              \cup Logicals \cup Shifts}
    \cup {R("neg", 3, 1, 2)} \cup {R(m, d, 1, 2) : m \in Unaries \cup {"addze"}, d \in {1, 3}}
    \cup {I(m, 3, a, n) : m \in {"addi", "addic", "subfic", "mulli"}, a \in {0, 1}, n \in {-8, -1, 0, 1, 7}}
    \cup {I("addis", 3, a, n) : a \in {0, 1}, n \in {-2, -1, 0, 1}}
    \cup {I(m, 3, 1, n) : m \in LogicalImmediates, n \in Halfwords}
    \cup {I(m, d, 1, n) : m \in {"srawi", "sradi"}, n \in 0 .. 3, d \in {1, 3}}
    \cup {R(m, f, 1, 2) : m \in {"cmpd", "cmpld", "cmpw", "cmplw"}, f \in 0 .. (W \div 4) - 1}
    \cup {I(m, 0, 1, n) : m \in {"cmpdi", "cmpwi"}, n \in {-8, -1, 0, 7}}
    \cup {I(m, 0, 1, n) : m \in {"cmpldi", "cmplwi"}, n \in {0, 1, 7}}
    \cup {I("twi", 0, 1, [to |-> to, n |-> n]) : to \in 0 .. 31, n \in {-1, 0, 7}}
    \cup {Insn("trap", 0, 1, 2, [bits |-> bits, name |-> name, immediate |-> FALSE, n |-> 0], FALSE) :
            bits \in {W, 2 * W}, name \in DOMAIN TrapNames}
    \cup {Insn("trap", 0, 1, 2, [bits |-> bits, name |-> name, immediate |-> TRUE, n |-> n], FALSE) :
            bits \in {W, 2 * W}, name \in DOMAIN TrapNames, n \in {0, 7}}
    \cup {R(m, 3, 1, 0) : m \in {"mtcr", "mtxer"}}

\* Right for words only if their sign is extended.
OfWords == {R(m, 3, 1, 0) : m \in {"addme", "subfme", "subfze"}}
\* The most negative number shifted right by all its bits leaves no carry here.
SignedShifting == {R(m, d, 1, 2) : m \in {"sraw", "srad"}, d \in {1, 2, 3}}
Exact(i, x, y) ==
    LET n == IF i.m = "sraw" THEN W ELSE 2 * W
    IN  ~(Low(n, x) = 2 ^ (n - 1) /\ y % (2 * n) >= n)

\* The host's division instructions fault on these.
Dividing == {R(m, d, 1, 2) : m \in {"divw", "divwu", "divd", "divdu"}, d \in {1, 3}}
Divisible(i, x, y) ==
    LET n == IF i.m \in {"divw", "divwu"} THEN W ELSE 2 * W
    IN  /\ Low(n, y) # 0
        /\ i.m \in {"divw", "divd"} => ~(Low(n, x) = 2 ^ (n - 1) /\ Low(n, y) = 2 ^ n - 1)

Rotating ==
    {I(m, 3, 1, Rotation(sh, mb, 0)) : m \in {"rldicl", "rldimi"}, sh \in 0 .. 7, mb \in 0 .. 7}
    \cup {I("rldicr", 3, 1, Rotation(sh, 0, me)) : sh \in 0 .. 7, me \in 0 .. 7}
    \cup {Insn(m, 3, 1, 2, Rotation(sh, mb, me), FALSE) : m \in {"rlwinm", "rlwnm"}, sh \in 0 .. 3, mb \in 0 .. 3, me \in 0 .. 3}
    \cup UNION {{I("rlwimi", 3, 1, Rotation(sh, mb, me)) : sh \in 0 .. 3, mb \in 0 .. me} : me \in 0 .. 3}
    \cup {Insn(m, 3, 1, 2, Rotation(sh, 0, 0), FALSE) : m \in {"rotldi", "rotlw", "rotlwi"}, sh \in 0 .. 3}
    \cup {I(m, 3, 1, Rotation(0, mb, 0)) : m \in {"clrldi", "clrlwi"}, mb \in 0 .. 3}

\* Addresses 1 to 8, r0 as a base, a negative displacement, and a base whose
\* high word is not zero.
Accessing ==
    {I(m, 3, a, n) : m \in {k \in DOMAIN Loads \cup DOMAIN Stores : ~Over(Loads, Stores)[k].indexed}, a \in {1}, n \in {-3, 0, 3}}
    \cup {I(m, 3, 0, 4) : m \in {"lbz", "lwz", "stw", "std"}}
    \cup {R(m, 3, 1, 2) : m \in {k \in DOMAIN Loads \cup DOMAIN Stores : Over(Loads, Stores)[k].indexed} \cup {"dcbz"}}
    \cup {R(m, 3, 0, 1) : m \in {"lhzx", "lwbrx", "stbx", "sthbrx"}}

\* A pattern every four bytes of which are found once.
Bytes16 == <<0, 0, 0, 0, 1, 0, 0, 1, 1, 0, 1, 0, 1, 1, 1, 1>>
MCMemory == [a \in 0 .. 15 |-> Bytes16[a + 1]]

Only(p) == [t \in Threads |-> IF t = 1 THEN p ELSE <<>>]
Alone(i, regs, so, ca) ==
    [prog |-> Only(<<i>>), r |-> {[t \in Threads |-> x] : x \in regs}, so |-> so, ca |-> ca, mem |-> {MCMemory}]
\* Registers 0 to 3.
Regs(x, y, z) == [k \in 0 .. 3 |-> CASE k = 0 -> 170 [] k = 1 -> x [] k = 2 -> y [] k = 3 -> z]
Of(pairs) == {Regs(p[1], p[2], 85) : p \in pairs}

WithRecord(S) == S \cup {Recorded(i) : i \in {j \in S : j.m \in RecordForms}}

Computations ==
    {Alone(i, Of(IF i.b = 2 THEN Boundary \X Boundary ELSE Boundary \X {1}), {1}, {0, 1}) : i \in WithRecord(Arithmetic)}
    \cup {Alone(i, Of(Extended \X {1}), {0}, {0, 1}) : i \in WithRecord(OfWords)}
    \cup {Alone(i, Of({p \in Boundary \X (0 .. 17) : Exact(i, p[1], p[2])}), {0}, {1}) : i \in SignedShifting}
    \cup {Alone(i, Of({p \in Boundary \X Boundary : Divisible(i, p[1], p[2])}), {0}, {0}) : i \in Dividing}
    \cup {Alone(i, Of({29, 180} \X {6}), {0}, {0}) : i \in WithRecord(Rotating)}
    \cup {Alone(i, {Regs(5, 0, 90), Regs(5, 1, 165), Regs(84, 244, 90)}, {0}, {0}) : i \in Accessing}

-----------------------------------------------------------------------------
(* Sequences of instructions that compute one thing.                        *)

\* Registers 0 to 7.
Sequence(p, xs, ys, us, vs, ws) ==
    [prog |-> Only(p),
     r |-> {[t \in Threads |-> [k \in 0 .. 7 |->
               CASE k = 1 -> x [] k = 2 -> y [] k = 3 -> u [] k = 4 -> v [] k = 7 -> w [] OTHER -> 0]] :
            x \in xs, y \in ys, u \in us, v \in vs, w \in ws},
     so |-> {0}, ca |-> {1}, mem |-> {MCMemory}]

\* Two words each: the low ones in registers 1 and 3, the high in 2 and 4.
AddLong == <<R("addc", 5, 1, 3), R("adde", 6, 2, 4)>>
SubtractLong == <<R("subfc", 5, 3, 1), R("subfe", 6, 4, 2)>>
\* A signed division by four; whether register 1 is 0 or not as 1 or 0.
DivideBy4 == <<I("srawi", 5, 1, 2), R("addze", 6, 5, 0)>>
IsNotZero == <<I("addic", 5, 1, -1), R("subfe", 6, 5, 1)>>
IsZero == <<R("cntlzw", 5, 1, 0), I("rlwinm", 6, 5, Rotation(2, 3, 3))>>
\* The condition register kept in a register; a word stored one way around
\* and loaded the other.
KeepFlags == <<I("cmpwi", 0, 1, 0), R("mfcr", 5, 0, 0), I("cmplwi", 0, 2, 1), R("mtcr", 0, 5, 0)>>
StoreReversed == <<R("stwbrx", 1, 0, 7), I("lwz", 5, 7, 0), I("stw", 1, 7, 0), R("lwbrx", 6, 0, 7)>>
\* A frame and what is left of it; a flag of two others.
Frame == <<I("stwu", 7, 7, -8), I("lwz", 5, 7, 0), I("std", 1, 7, 0), I("ld", 6, 7, 0)>>
EitherFlag == <<I("cmpwi", 0, 1, 0), R("cror", 3, 0, 2), R("crorc", 0, 1, 3)>>
Pair == <<R("lwarx", 5, 0, 7), I("addi", 5, 5, 1), R("stwcx", 5, 0, 7),
          R("ldarx", 6, 0, 7), R("stdcx", 1, 0, 7)>>

Words16 == 0 .. Word4 - 1
Sequences ==
    {Sequence(p, Words16, {0, 6, 15}, Words16, {0, 9, 15}, {0}) : p \in {AddLong, SubtractLong}}
    \cup {Sequence(p, Words16, {0, 2}, {0}, {0}, {0}) : p \in {DivideBy4, IsNotZero, IsZero, KeepFlags, EitherFlag}}
    \cup {Sequence(p, Words16, {0}, {0}, {0}, {8}) : p \in {StoreReversed, Frame, Pair}}

Finished(p) == prog[1] = p /\ pc[1] > Len(p)

\* The results of the sequences are those of the arithmetic they stand for:
\* carries chain, roundings and comparisons come out of flags.
SequencesCompute ==
    LET x == r[1][1]  y == r[1][2]  u == r[1][3]  v == r[1][4]  result == r[1][6]
        long == u32(r[1][5]) + Word4 * u32(result)
    IN  /\ Finished(AddLong) => long = ((x + Word4 * y) + (u + Word4 * v)) % DWord
        /\ Finished(SubtractLong) => long = ((x + Word4 * y) - (u + Word4 * v)) % DWord
        /\ Finished(DivideBy4) => s64(result) = Quotient(s32(x), 4)
        /\ Finished(IsNotZero) => u32(result) = Bit(x # 0)
        /\ Finished(IsZero) => u32(result) = Bit(x = 0)
        /\ Finished(KeepFlags) => cr[1][0] = compare(s32(x), 0, 0)
        /\ Finished(StoreReversed) => u32(r[1][5]) = u32(result) /\ u32(result) = bswap(4, x)
        /\ Finished(Frame) => result = x /\ u32(r[1][7]) = 0

-----------------------------------------------------------------------------
(* Two threads. A word at 8 is a counter or a lock, that at 12 a counter    *)
(* the lock guards.                                                         *)

Increment == <<R("lwarx", 3, 0, 1), I("addi", 3, 3, 1), R("stwcx", 3, 0, 1), I("bne", 0, 0, 1)>>
IncrementDouble == <<R("ldarx", 3, 0, 2), I("addi", 3, 3, 1), R("stdcx", 3, 0, 2), I("bne", 0, 0, 1)>>

\* Take the lock, increment, give the lock back.
Locked == <<R("lwarx", 3, 0, 1), I("cmpwi", 0, 3, 0), I("bne", 0, 0, 1),
            I("addi", 4, 0, 1), R("stwcx", 4, 0, 1), I("bne", 0, 0, 1), R("sync", 0, 0, 0),
            I("lwz", 5, 1, 4), I("addi", 5, 5, 1), I("stw", 5, 1, 4),
            R("lwsync", 0, 0, 0), I("addi", 4, 0, 0), I("stw", 4, 1, 0)>>
Critical(t) == prog[t] = Locked /\ pc[t] \in 7 .. 13

Both(p) == [prog |-> [t \in Threads |-> p],
            r |-> {[t \in Threads |-> [k \in 0 .. 5 |-> IF k = 1 THEN 8 ELSE IF k = 2 THEN 4 ELSE 0]]},
            so |-> {0}, ca |-> {0}, mem |-> {[a \in 0 .. 15 |-> 0]}]
Concurrent == {Both(Increment), Both(IncrementDouble), Both(Locked)}

MCStarts == Computations \cup Sequences \cup Concurrent

\* These programs are run by all threads, from Both; MCStarts is like that.
ASSUME StartsAssumption ==
    \A s \in Starts : \A t \in Threads :
        s.prog[t] \in {Increment, IncrementDouble, Locked} => s = Both(s.prog[t])

-----------------------------------------------------------------------------
(* The reservations a console would have, and the whole as one machine.     *)

Written == {a \in DOMAIN mem : mem'[a] # mem[a]}
Reserve(t) == LET i == Current(t) IN AtomicAddress(i, r[t]) .. AtomicAddress(i, r[t]) + AtomicWidth[i.m] - 1
Hold(t) ==
    held' = [u \in Threads |->
                IF u = t /\ Current(t).m \in {"lwarx", "ldarx"} THEN Reserve(t)
                ELSE IF u = t /\ Current(t).m \in {"stwcx", "stdcx"} THEN {}
                ELSE IF u # t /\ held[u] \cap Written # {} THEN {} ELSE held[u]]

MCInit == Init /\ held = [t \in Threads |-> {}]
MCNext == \E t \in Threads :
    \/ Step(t) /\ Hold(t)
    \/ Drain(t) /\ held' = [u \in Threads |-> IF u # t /\ held[u] \cap Written # {} THEN {} ELSE held[u]]
MCFairness == \A t \in Threads : /\ WF_<<vars, held>>(Step(t) /\ Hold(t))
                                 /\ WF_vars(Drain(t))
MCSpec == MCInit /\ [][MCNext]_<<vars, held>> /\ MCFairness

\* The memory as the only thread that has stores under way sees it.
Seen == IF \A t \in Threads : buffer[t] = <<>> THEN mem ELSE View(CHOOSE t \in Threads : buffer[t] # <<>>)
Guest == INSTANCE GuestIntegers WITH
    gpc <- pc, gr <- r, gca <- [t \in Threads |-> xer[t].ca], gso <- [t \in Threads |-> xer[t].so],
    gcr <- [t \in Threads |-> [n \in 0 .. W - 1 |-> Flag(cr[t], n)]],
    gheld <- held, gtrapped <- trapped, gmem <- Seen

\* What the statements printed for an instruction do to the registers, the
\* flags and the memory is what the console's processor does, in every program
\* but the one with a lock, whose unlocking store the host performs late.
ImplementsGuest == [][prog[1] # Locked => Guest!Next \/ UNCHANGED Guest!vars]_<<vars, held>>

Ended == \A t \in Threads : pc[t] > Len(prog[t]) /\ buffer[t] = <<>>
At(a, n) == bswap(n, Raw(mem, a, n))

\* Of threads that increment a word, a doubleword or what a lock guards, none
\* loses another's increment; the lock is free in the end.
NoLostUpdate ==
    Ended => \A t \in Threads :
        /\ prog[t] = Increment => At(8, 4) = Cardinality(Threads) % Word
        /\ prog[t] = IncrementDouble => At(4, 8) = Cardinality(Threads) % DWord
        /\ prog[t] = Locked => At(12, 4) = Cardinality(Threads) % Word /\ At(8, 4) = 0

\* The lock that lwarx and stwcx. make lets one thread in at a time, although
\* the store that releases it waits in a buffer.
MutualExclusion == \A t, u \in Threads : Critical(t) /\ Critical(u) => t = u

\* Threads that retry a stwcx. that failed, or wait for a lock, end.
Termination == <>Ended
=============================================================================
