---------------------------- MODULE GuestIntegers ----------------------------
(***************************************************************************)
(* What the console's processor does, in its 32-bit mode, with the          *)
(* instructions IntegerUnit has: registers of two words, of which carries,  *)
(* record forms and addresses look at the low one, bits numbered from the   *)
(* most significant, big-endian memory and a reservation that a store of    *)
(* another thread takes away. Where the architecture leaves the high half   *)
(* of a result undefined, or a 32-bit program cannot see it, any is right.  *)
(* Nothing here is in src/.                                                 *)
(***************************************************************************)
EXTENDS Words, Sequences

VARIABLES prog, gpc,
    gr, gca, gso,   \* registers, carry and summary overflow of each thread
    gcr,            \* the bits of its condition register, 0 the first
    gheld,          \* the addresses its reservation is for, {} if it has none
    gtrapped, gmem

gstate == <<gr, gca, gso, gcr, gheld, gtrapped>>
vars == <<prog, gpc, gstate, gmem>>

Ones == DWord - 1
Running(t) == gpc[t] <= Len(prog[t])
Current(t) == prog[t][gpc[t]]
Advance(t) == gpc' = [gpc EXCEPT ![t] = @ + 1] /\ UNCHANGED prog

-----------------------------------------------------------------------------
(* Sums: an addition and a subtraction are the sum of two doublewords and a *)
(* carry; the carry out of the low word is what ca becomes.                 *)

Negated == {"subf", "subfc", "subfe", "subfic", "subfme", "subfze", "neg"}
Carrying == {"addc", "adde", "addic", "addme", "addze", "subfc", "subfe", "subfic", "subfme", "subfze"}
Extended == {"adde", "addme", "addze", "subfe", "subfme", "subfze"}
Sums == Negated \cup Carrying \cup {"add", "addi", "addis"}

First(i, a) == IF i.m \in Negated THEN Not(a)
               ELSE IF i.m \in {"addi", "addis"} /\ i.a = 0 THEN 0 ELSE a
Second(i, b) ==
    CASE i.m \in {"addi", "addic", "subfic"} -> Low(2 * W, i.imm)
      [] i.m = "addis"                       -> Low(2 * W, Signed(W, i.imm * 2 ^ (W \div 2)))
      [] i.m \in {"addme", "subfme"}         -> Ones
      [] i.m \in {"addze", "subfze", "neg"}  -> 0
      [] OTHER                               -> b
Third(i, ca) == IF i.m \in Extended THEN ca ELSE IF i.m \in Negated THEN 1 ELSE 0

Sum(i, a, b, ca) == Low(2 * W, First(i, a) + Second(i, b) + Third(i, ca))
Carry(i, a, b, ca) ==
    IF i.m \in Carrying
    THEN (Low(W, First(i, a)) + Low(W, Second(i, b)) + Third(i, ca)) \div Word ELSE ca

-----------------------------------------------------------------------------
(* The bits of a register by position, 0 the most significant of all, and   *)
(* the register that has ones in given positions.                           *)

Last == 2 * W - 1
Has(x) == {Last - k : k \in BitsOf[x]}
Of(S) == NumberOf[{Last - p : p \in S}]
\* MASK(from, to), which wraps around.
Mask(from, to) == IF from <= to THEN from .. to ELSE (0 .. to) \cup (from .. Last)
RotateLeft(x, n) == Of({(p - n) % (2 * W) : p \in Has(x)})
Twice(x) == Of({p \in 0 .. Last : (p % W) + W \in Has(x)})
Under(mask, x, y) == Of((Has(x) \cap mask) \cup (Has(y) \ mask))

\* A rotation is of a doubleword or of a word twice, under a mask, over zero
\* or over what the destination was.
Rotated(i, a, b, old) ==
    CASE i.m = "rldicl"            -> Under(Mask(i.imm.mb, Last), RotateLeft(a, i.imm.sh), 0)
      [] i.m = "rldicr"            -> Under(Mask(0, i.imm.me), RotateLeft(a, i.imm.sh), 0)
      [] i.m = "rldimi"            -> Under(Mask(i.imm.mb, Last - i.imm.sh), RotateLeft(a, i.imm.sh), old)
      [] i.m = "rlwimi"            -> Under(Mask(i.imm.mb + W, i.imm.me + W), RotateLeft(Twice(a), i.imm.sh), old)
      [] i.m = "rlwinm"            -> Under(Mask(i.imm.mb + W, i.imm.me + W), RotateLeft(Twice(a), i.imm.sh), 0)
      [] i.m = "rlwnm"             -> Under(Mask(i.imm.mb + W, i.imm.me + W), RotateLeft(Twice(a), b % W), 0)
      [] i.m = "rotldi"            -> RotateLeft(a, i.imm.sh)
      [] i.m = "rotlw"             -> Under(Mask(W, Last), RotateLeft(Twice(a), b % W), 0)
      [] i.m = "rotlwi"            -> Under(Mask(W, Last), RotateLeft(Twice(a), i.imm.sh), 0)
      [] i.m = "clrldi"            -> Under(Mask(i.imm.mb, Last), a, 0)
      [] i.m = "clrlwi"            -> Under(Mask(i.imm.mb + W, Last), a, 0)
Rotations == {"rldicl", "rldicr", "rldimi", "rlwimi", "rlwinm", "rlwnm", "rotldi", "rotlw",
              "rotlwi", "clrldi", "clrlwi"}

\* Shifts; those of words have the bits from position W, to the right of which
\* and to the left of which everything is lost.
Shifts == {"slw", "srw", "sld", "srd"}
Shifted(m, a, b) ==
    LET from == IF m \in {"slw", "srw"} THEN W ELSE 0
        n == b % (2 * (Last + 1 - from))
        moved == {IF m \in {"slw", "sld"} THEN p - n ELSE p + n : p \in Has(a) \cap (from .. Last)}
    IN  Of(moved \cap (from .. Last))

\* Signed shifts round down; ca tells that they rounded a negative number.
SignedShifts == {"sraw", "srawi", "srad", "sradi"}
SignedWidth(m) == IF m \in {"sraw", "srawi"} THEN W ELSE 2 * W
Count(i, b) == IF i.m \in {"sraw", "srad"} THEN b % (2 * SignedWidth(i.m)) ELSE i.imm
SignShifted(i, a, b) == Low(2 * W, Signed(SignedWidth(i.m), a) \div 2 ^ Count(i, b))
SignCarry(i, a, b) ==
    LET x == Signed(SignedWidth(i.m), a)
    IN  Bit(x < 0 /\ x % 2 ^ Count(i, b) # 0)

-----------------------------------------------------------------------------
Magnitude(x) == IF x < 0 THEN -x ELSE x
\* q is x divided by y, rounded to zero.
IsQuotient(q, x, y) == /\ Magnitude(q * y) <= Magnitude(x)
                       /\ Magnitude(x) - Magnitude(q * y) < Magnitude(y)
                       /\ q # 0 => ((q < 0) <=> ((x < 0) # (y < 0)))

s32(x) == Signed(W, x)
s64(x) == Signed(2 * W, x)
Multiplied(m, a, b, n) ==
    CASE m = "mulli"  -> Low(2 * W, s64(a) * n)
      [] m = "mullw"  -> Low(2 * W, s32(a) * s32(b))
      [] m = "mulld"  -> Low(2 * W, s64(a) * s64(b))
      [] m = "mulhdu" -> (a * b) \div DWord
Products == {"mulli", "mullw", "mulld", "mulhdu"}

\* Whether x may be what an instruction with an undefined high half makes.
HighUndefined == {"mulhw", "mulhwu", "divw", "divwu"}
MayBe(m, a, b, x) ==
    CASE m = "mulhw"  -> Low(W, x) = Low(W, (s32(a) * s32(b)) \div Word)
      [] m = "mulhwu" -> Low(W, x) = (Low(W, a) * Low(W, b)) \div Word
      [] m = "divw"   -> IsQuotient(s32(x), s32(a), s32(b))
      [] m = "divwu"  -> IsQuotient(Low(W, x), Low(W, a), Low(W, b))
Divisions == {"divd", "divdu"}
Divides(m, a, b, x) == IF m = "divd" THEN IsQuotient(s64(x), s64(a), s64(b)) ELSE IsQuotient(x, a, b)

LeadingZeros(from, x) == Cardinality({p \in from .. Last : \A q \in from .. p : q \notin Has(x)})
Unaries == {"extsb", "extsh", "extsw", "cntlzw", "cntlzd", "mr", "not"}
Unary(m, a) ==
    LET extended(from) == Of({p \in 0 .. Last : (IF p < from THEN from ELSE p) \in Has(a)})
    IN  CASE m = "extsb"  -> extended(Last + 1 - (W \div 4))
          [] m = "extsh"  -> extended(Last + 1 - (W \div 2))
          [] m = "extsw"  -> extended(W)
          [] m = "cntlzw" -> LeadingZeros(W, a)
          [] m = "cntlzd" -> LeadingZeros(0, a)
          [] m = "mr"     -> a
          [] m = "not"    -> Of((0 .. Last) \ Has(a))

\* Logical instructions, by what they make of two bits.
Logicals == {"and", "andc", "nand", "or", "orc", "nor", "xor", "eqv"}
Makes(m, x, y) ==
    CASE m = "and" -> x /\ y   [] m = "andc" -> x /\ ~y  [] m = "nand" -> ~(x /\ y)
      [] m = "or" -> x \/ y    [] m = "orc" -> x \/ ~y   [] m = "nor" -> ~(x \/ y)
      [] m = "xor" -> x # y    [] m = "eqv" -> x = y
LogicalImmediates == [andi |-> "and", ori |-> "or", xori |-> "xor"]
ShiftedImmediates == [andis |-> "and", oris |-> "or", xoris |-> "xor"]
OfBits(m, a, b) == Of({p \in 0 .. Last : Makes(m, p \in Has(a), p \in Has(b))})

-----------------------------------------------------------------------------
(* Steps of a thread that only compute.                                     *)

\* The low word of x in a field of the condition register.
Flags(x, y, so) == <<Bit(x < y), Bit(x > y), Bit(x = y), so>>
WithField(bits, f, flags) == [n \in DOMAIN bits |-> IF n \div 4 = f THEN flags[(n % 4) + 1] ELSE bits[n]]

\* Instructions with a definite result.
Definite == Sums \cup Rotations \cup Shifts \cup SignedShifts \cup Products \cup Unaries \cup Logicals
            \cup DOMAIN LogicalImmediates \cup DOMAIN ShiftedImmediates
Result(i, a, b, old, ca) ==
    CASE i.m \in Sums         -> Sum(i, a, b, ca)
      [] i.m \in Rotations    -> Rotated(i, a, b, old)
      [] i.m \in Shifts       -> Shifted(i.m, a, b)
      [] i.m \in SignedShifts -> SignShifted(i, a, b)
      [] i.m \in Products     -> Multiplied(i.m, a, b, i.imm)
      [] i.m \in Unaries      -> Unary(i.m, a)
      [] i.m \in Logicals     -> OfBits(i.m, a, b)
      [] i.m \in DOMAIN LogicalImmediates -> OfBits(LogicalImmediates[i.m], a, i.imm)
      [] i.m \in DOMAIN ShiftedImmediates -> OfBits(ShiftedImmediates[i.m], a, i.imm * 2 ^ (W \div 2))

Compute(t) ==
    LET i == Current(t)
        a == gr[t][i.a]
        b == gr[t][i.b]
        x == gr'[t][i.d]
    IN  /\ \/ i.m \in Definite /\ x = Result(i, a, b, gr[t][i.d], gca[t])
           \/ i.m \in HighUndefined /\ MayBe(i.m, a, b, x)
           \/ i.m \in Divisions /\ Divides(i.m, a, b, x)
        /\ gr' = [gr EXCEPT ![t][i.d] = x]
        /\ gca' = [gca EXCEPT ![t] = IF i.m \in Sums THEN Carry(i, a, b, @)
                                     ELSE IF i.m \in SignedShifts THEN SignCarry(i, a, b) ELSE @]
        /\ gcr' = IF i.rc THEN [gcr EXCEPT ![t] = WithField(@, 0, Flags(s32(x), 0, gso[t]))] ELSE gcr
        /\ UNCHANGED <<gso, gheld, gtrapped, gmem>>
        /\ Advance(t)

\* Width and signedness of a comparison, and whether its operand is immediate.
Comparisons == [cmpd |-> <<"d", "s", "r">>, cmpdi |-> <<"d", "s", "i">>, cmpld |-> <<"d", "u", "r">>,
                cmpldi |-> <<"d", "u", "i">>, cmpw |-> <<"w", "s", "r">>, cmpwi |-> <<"w", "s", "i">>,
                cmplw |-> <<"w", "u", "r">>, cmplwi |-> <<"w", "u", "i">>]
Compare(t) ==
    LET i == Current(t)
        entry == Comparisons[i.m]
        width == IF entry[1] = "d" THEN 2 * W ELSE W
        of(x) == IF entry[2] = "s" THEN Signed(width, x) ELSE Low(width, x)
    IN  /\ i.m \in DOMAIN Comparisons
        /\ gcr' = [gcr EXCEPT ![t] = WithField(@, i.d,
                      Flags(of(gr[t][i.a]), of(IF entry[3] = "i" THEN i.imm ELSE gr[t][i.b]), gso[t]))]
        /\ UNCHANGED <<gr, gca, gso, gheld, gtrapped, gmem>>
        /\ Advance(t)

\* A trap is taken if one of the relations its TO field names holds.
Conditions(width, x, y) ==
    (IF Signed(width, x) < Signed(width, y) THEN {16} ELSE {})
    \cup (IF Signed(width, x) > Signed(width, y) THEN {8} ELSE {})
    \cup (IF Low(width, x) = Low(width, y) THEN {4} ELSE {})
    \cup (IF Low(width, x) < Low(width, y) THEN {2} ELSE {})
    \cup (IF Low(width, x) > Low(width, y) THEN {1} ELSE {})
TO == [eq |-> {4}, ne |-> {16, 8}, ge |-> {8, 4}, gt |-> {8}, le |-> {16, 4}, lt |-> {16},
       lge |-> {4, 1}, lgt |-> {1}, lle |-> {4, 2}, llt |-> {2}]
Trap(t) ==
    LET i == Current(t)
        width == IF i.m = "twi" THEN W ELSE i.imm.bits
        other == IF i.m = "twi" \/ i.imm.immediate THEN i.imm.n ELSE gr[t][i.b]
        named == IF i.m = "twi" THEN {c \in {16, 8, 4, 2, 1} : (i.imm.to \div c) % 2 = 1}
                 ELSE TO[i.imm.name]
    IN  /\ i.m \in {"twi", "trap"}
        /\ gtrapped' = [gtrapped EXCEPT ![t] = @ \/ named \cap Conditions(width, gr[t][i.a], other) # {}]
        /\ UNCHANGED <<gr, gca, gso, gcr, gheld, gmem>>
        /\ Advance(t)

mfcr(t) ==
    /\ Current(t).m = "mfcr"
    /\ gr' = [gr EXCEPT ![t][Current(t).d] = Of({W + n : n \in {k \in DOMAIN gcr[t] : gcr[t][k] = 1}})]
    /\ UNCHANGED <<gca, gso, gcr, gheld, gtrapped, gmem>>
    /\ Advance(t)
mtcr(t) ==
    /\ Current(t).m = "mtcr"
    /\ gcr' = [gcr EXCEPT ![t] = [n \in DOMAIN @ |-> Bit(W + n \in Has(gr[t][Current(t).a]))]]
    /\ UNCHANGED <<gr, gca, gso, gheld, gtrapped, gmem>>
    /\ Advance(t)
mtxer(t) ==
    /\ Current(t).m = "mtxer"
    /\ gso' = [gso EXCEPT ![t] = Bit(W \in Has(gr[t][Current(t).a]))]
    /\ gca' = [gca EXCEPT ![t] = Bit(W + 2 \in Has(gr[t][Current(t).a]))]
    /\ UNCHANGED <<gr, gcr, gheld, gtrapped, gmem>>
    /\ Advance(t)
CombineFlags(t) ==
    LET i == Current(t)
    IN  /\ i.m \in {"cror", "crorc"}
        /\ gcr' = [gcr EXCEPT ![t][i.d] =
                      Bit(Makes(IF i.m = "cror" THEN "or" ELSE "orc", gcr[t][i.a] = 1, gcr[t][i.b] = 1))]
        /\ UNCHANGED <<gr, gca, gso, gheld, gtrapped, gmem>>
        /\ Advance(t)

-----------------------------------------------------------------------------
(* Memory.                                                                  *)

\* Mnemonics by what they access: bytes, and how the value is extended.
Size(m) == CASE m \in {"lbz", "lbzx", "lbzu", "lbzux", "stb", "stbx", "stbu", "stbux"} -> 1
             [] m \in {"lha", "lhax", "lhau", "lhz", "lhzx", "lhzu", "lhzux",
                       "sth", "sthx", "sthu", "sthux", "sthbrx"} -> 2
             [] m \in {"lwa", "lwax", "lwz", "lwzx", "lwzu", "lwzux", "lwbrx", "lwarx",
                       "stw", "stwx", "stwu", "stwux", "stwbrx", "stwcx"} -> 4
             [] m \in {"ld", "ldx", "ldu", "ldux", "ldarx", "std", "stdx", "stdu", "stdux", "stdcx"} -> 8
Algebraic == {"lha", "lhax", "lhau", "lwa", "lwax"}
WithUpdate == {"lbzu", "lbzux", "lhau", "lhzu", "lhzux", "lwzu", "lwzux", "ldu", "ldux", "stbu", "stbux",
               "sthu", "sthux", "stwu", "stwux", "stdu", "stdux"}
Indexed == {"lbzx", "lbzux", "lhax", "lhzx", "lhzux", "lwax", "lwzx", "lwzux", "lwbrx", "lwarx", "ldx",
            "ldux", "ldarx", "stbx", "stbux", "sthx", "sthux", "sthbrx", "stwx", "stwux", "stwbrx",
            "stwcx", "stdx", "stdux", "stdcx", "dcbz"}
Loads == {"lbz", "lbzx", "lbzu", "lbzux", "lha", "lhax", "lhau", "lhz", "lhzx", "lhzu", "lhzux", "lwa",
          "lwax", "lwz", "lwzx", "lwzu", "lwzux", "lwbrx", "ld", "ldx", "ldu", "ldux"}
Stores == {"stb", "stbx", "stbu", "stbux", "sth", "sthx", "sthu", "sthux", "sthbrx", "stw", "stwx",
           "stwu", "stwux", "stwbrx", "std", "stdx", "stdu", "stdux"}

EA(t, i) == Low(W, (IF i.a = 0 /\ i.m \notin WithUpdate THEN 0 ELSE gr[t][i.a])
                   + IF i.m \in Indexed THEN gr[t][i.b] ELSE i.imm)

BigEndian(ea, n) == FromBytes(n, [k \in 0 .. n - 1 |-> gmem[ea + n - 1 - k]])
LittleEndian(ea, n) == FromBytes(n, [k \in 0 .. n - 1 |-> gmem[ea + k]])
Written(ea, n, x) == [a \in ea .. ea + n - 1 |-> ByteOf(x, ea + n - 1 - a)]
WrittenReversed(ea, n, x) == [a \in ea .. ea + n - 1 |-> ByteOf(x, a - ea)]

Loaded(i, ea) ==
    IF i.m = "lwbrx" THEN LittleEndian(ea, 4)
    ELSE IF i.m \in Algebraic THEN Low(2 * W, Signed(Size(i.m) * (W \div 4), BigEndian(ea, Size(i.m))))
    ELSE BigEndian(ea, Size(i.m))

\* The base register of an update form has the address in its low word.
Updates(t, i, ea, others) ==
    IF i.m \in WithUpdate
    THEN Low(W, gr'[t][i.a]) = ea /\ gr' = [others EXCEPT ![t][i.a] = gr'[t][i.a]]
    ELSE gr' = others

Load(t) ==
    LET i == Current(t)
        ea == EA(t, i)
    IN  /\ i.m \in Loads
        /\ Updates(t, i, ea, [gr EXCEPT ![t][i.d] = Loaded(i, ea)])
        /\ UNCHANGED <<gca, gso, gcr, gheld, gtrapped, gmem>>
        /\ Advance(t)

\* Reservations of other threads for one of the addresses are lost.
Lose(t, addresses) ==
    gheld' = [u \in DOMAIN gheld |-> IF u # t /\ gheld[u] \cap addresses # {} THEN {} ELSE gheld[u]]

Store(t) ==
    LET i == Current(t)
        ea == EA(t, i)
        n == Size(i.m)
        x == gr[t][i.d]
    IN  /\ i.m \in Stores
        /\ gmem' = Over(IF i.m \in {"stwbrx", "sthbrx"} THEN WrittenReversed(ea, n, x) ELSE Written(ea, n, x), gmem)
        /\ Updates(t, i, ea, gr)
        /\ Lose(t, ea .. ea + n - 1)
        /\ UNCHANGED <<gca, gso, gcr, gtrapped>>
        /\ Advance(t)

dcbz(t) ==
    LET ea == EA(t, Current(t))
        line == {a \in DOMAIN gmem : a \div W = ea \div W}
    IN  /\ Current(t).m = "dcbz"
        /\ gmem' = [a \in DOMAIN gmem |-> IF a \in line THEN 0 ELSE gmem[a]]
        /\ Lose(t, line)
        /\ UNCHANGED <<gr, gca, gso, gcr, gtrapped>>
        /\ Advance(t)

LoadReserve(t) ==
    LET i == Current(t)
        ea == EA(t, i)
    IN  /\ i.m \in {"lwarx", "ldarx"}
        /\ gr' = [gr EXCEPT ![t][i.d] = BigEndian(ea, Size(i.m))]
        /\ gheld' = [gheld EXCEPT ![t] = ea .. ea + Size(i.m) - 1]
        /\ UNCHANGED <<gca, gso, gcr, gtrapped, gmem>>
        /\ Advance(t)

\* Stores if the reservation is still there, and says so in eq.
StoreConditional(t) ==
    LET i == Current(t)
        ea == EA(t, i)
        n == Size(i.m)
        holds == gheld[t] = ea .. ea + n - 1
    IN  /\ i.m \in {"stwcx", "stdcx"}
        /\ gmem' = IF holds THEN Over(Written(ea, n, gr[t][i.d]), gmem) ELSE gmem
        /\ gcr' = [gcr EXCEPT ![t] = WithField(@, 0, <<0, 0, Bit(holds), gso[t]>>)]
        /\ gheld' = [u \in DOMAIN gheld |->
                        IF u = t \/ (holds /\ gheld[u] \cap (ea .. ea + n - 1) # {}) THEN {} ELSE gheld[u]]
        /\ UNCHANGED <<gr, gca, gso, gtrapped>>
        /\ Advance(t)

Barrier(t) == /\ Current(t).m \in {"sync", "lwsync", "eieio", "nop"}
              /\ UNCHANGED <<gstate, gmem>>
              /\ Advance(t)

BranchBack(t) == /\ Current(t).m = "bne"
                 /\ gpc' = [gpc EXCEPT ![t] = IF gcr[t][2] = 0 THEN Current(t).imm ELSE @ + 1]
                 /\ UNCHANGED <<prog, gstate, gmem>>

Next == \E t \in DOMAIN gpc :
            /\ Running(t)
            /\ \/ Compute(t) \/ Compare(t) \/ Trap(t) \/ mfcr(t) \/ mtcr(t) \/ mtxer(t) \/ CombineFlags(t)
               \/ Load(t) \/ Store(t) \/ dcbz(t) \/ LoadReserve(t) \/ StoreConditional(t)
               \/ Barrier(t) \/ BranchBack(t)
=============================================================================
