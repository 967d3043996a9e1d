----------------------------- MODULE IntegerUnit -----------------------------
(***************************************************************************)
(* Threads that run recompiled functions: the statements recompiler.cpp     *)
(* prints for integer instructions, loads, stores, condition register       *)
(* moves, traps and the atomic pairs, on the registers of ppc_context.h and *)
(* on memory all threads share. Each instruction accesses memory once, so   *)
(* an instruction is a step; sync is printed as nothing, so a store may     *)
(* stay in the store buffer of the host's processor until later. Carries    *)
(* come from comparing truncated sums, masks from shifts, lwarx and stwcx.  *)
(* are a load and a compare-and-swap with the value loaded. GuestIntegers   *)
(* says what the console does.                                              *)
(***************************************************************************)
EXTENDS Words, Sequences

CONSTANTS
    Threads,
    Starts      \* records [prog, r, so, ca, mem]: a program for each thread, and
                \* the registers, flags and memory they may start with

ASSUME ThreadsAssumption == IsFiniteSet(Threads)

VARIABLES
    prog,       \* the program of each thread
    pc,         \* the position of its next instruction
    r,          \* its registers, of 64 bits
    xer, cr,    \* so and ca; the fields of the condition register
    reserved,   \* what its last lwarx or ldarx read
    trapped,    \* whether __builtin_debugtrap was reached
    buffer,     \* its stores that have not reached the memory
    mem         \* bytes

state == <<r, xer, cr, reserved, trapped>>
memory == <<buffer, mem>>
vars == <<prog, pc, state, memory>>

-----------------------------------------------------------------------------
(* Members of PPCRegister, and C arithmetic.                                *)

u32(x) == Low(W, x)
s32(x) == Signed(W, x)
s64(x) == Signed(2 * W, x)
u64(n) == Low(2 * W, n)
add32(x, y) == Low(W, x + y)

\* / truncates, >> of a signed number rounds down.
Quotient(x, y) == LET q == (IF x < 0 THEN -x ELSE x) \div (IF y < 0 THEN -y ELSE y)
                  IN  IF (x < 0) = (y < 0) THEN q ELSE -q
ShiftRight(x, n) == x \div 2 ^ n

clz(n, x) == IF x = 0 THEN n ELSE n - 1 - CHOOSE k \in BitsOf[x] : \A j \in BitsOf[x] : j <= k

rotateleft64(x, n) == NumberOf[{(k + n) % (2 * W) : k \in BitsOf[x]}]
rotateleft32(x, n) == NumberOf[{(k + n) % W : k \in BitsOf[x]}]

\* A faulty variant: the last position is not part of the mask.
ComputeMask_Open(mstart, mstop) ==
    LET value == Xor((DWord - 1) \div 2 ^ mstart, (DWord - 1) \div 2 ^ mstop)
    IN  IF mstart <= mstop THEN value ELSE Not(value)

\* ComputeMask, of positions counted from the most significant bit.
ComputeMask(mstart, mstop) ==
    LET value == Xor((DWord - 1) \div 2 ^ mstart,
                     IF mstop >= 2 * W - 1 THEN 0 ELSE (DWord - 1) \div 2 ^ (mstop + 1))
    IN  IF mstart <= mstop THEN value ELSE Not(value)

\* __mulhu: the high half of a product from the products of the halves.
mulhu(a, b) ==
    LET a_lo == u32(a)  a_hi == a \div Word
        b_lo == u32(b)  b_hi == b \div Word
        hi_lo == a_hi * b_lo
        lo_hi == a_lo * b_hi
        cross == ((a_lo * b_lo) \div Word) + u32(hi_lo) + u32(lo_hi)
    IN  a_hi * b_hi + (hi_lo \div Word) + (lo_hi \div Word) + (cross \div Word)
-----------------------------------------------------------------------------
(* Arithmetic. a and b are the source registers, z is a or 0 if a is r0,    *)
(* old the destination, ca the carry: <<what the destination becomes, the   *)
(* carry that is left>>.                                                    *)

Additions == {"add", "addc", "adde", "addi", "addic", "addis", "addme", "addze"}
\* A faulty variant: a sum that is equal to its first summand has a carry.
Add_OrEqual(m, a, b, z, n, ca) ==
    CASE m = "adde"  -> <<u64(a + b + ca), Bit(add32(u32(a) + u32(b), ca) < u32(a))>>
      [] m = "addc"  -> <<u64(a + b), Bit(add32(u32(a), u32(b)) <= u32(a))>>
      [] m = "addi"  -> <<u64(z + n), ca>>
      [] m = "addic" -> <<u64(a + n), Bit(u32(a) > u32(-n - 1))>>
      [] m = "addze" -> <<u64(a + ca), Bit(u32(a + ca) <= u32(a))>>
      [] OTHER       -> <<u64(a + b), ca>>
Add(m, a, b, z, n, ca) ==
    CASE m = "add"   -> <<u64(a + b), ca>>
      [] m = "addc"  -> <<u64(a + b), Bit(add32(u32(a), u32(b)) < u32(a))>>
      [] m = "adde"  -> <<u64(a + b + ca),
                          Bit(\/ add32(u32(a), u32(b)) < u32(a)
                              \/ add32(u32(a) + u32(b), ca) < ca)>>
      [] m = "addi"  -> <<u64(z + n), ca>>
      [] m = "addic" -> <<u64(a + n), Bit(u32(a) > u32(-n - 1))>>
      [] m = "addis" -> <<u64(z + Signed(W, n * 2 ^ (W \div 2))), ca>>
      [] m = "addme" -> LET temp == u64(a + ca - 1)
                        IN  <<temp, Bit(a > temp \/ (a = temp /\ ca = 1))>>
      [] m = "addze" -> LET temp == u64(a + ca)
                        IN  <<temp, Bit(u32(temp) < u32(a))>>

Subtractions == {"subf", "subfc", "subfe", "subfic", "subfme", "subfze", "neg"}
Subtract(m, a, b, n, ca) ==
    CASE m = "subf"   -> <<u64(b - a), ca>>
      [] m = "subfc"  -> <<u64(b - a), Bit(u32(b) >= u32(a))>>
      [] m = "subfe"  -> <<u64(Not(a) + b + ca),
                           Bit(\/ add32(u32(Not(a)), u32(b)) < u32(Not(a))
                               \/ add32(u32(Not(a)) + u32(b), ca) < ca)>>
      [] m = "subfic" -> <<u64(n - a), Bit(u32(a) <= u32(n))>>
      [] m = "subfme" -> LET temp == u64(Not(a) + ca - 1)
                         IN  <<temp, Bit(temp < Not(a) \/ (temp = Not(a) /\ ca = 1))>>
      [] m = "subfze" -> LET temp == u64(Not(a) + ca)
                         IN  <<temp, Bit(temp < ca)>>
      [] m = "neg"    -> <<u64(-s64(a)), ca>>

\* Quotients of words go to the low half of the destination alone.
Products == {"mulli", "mullw", "mulld", "mulhw", "mulhwu", "mulhdu", "divd", "divdu", "divw", "divwu"}
Multiply(m, a, b, n, old) ==
    CASE m = "mulli"  -> u64(s64(a) * n)
      [] m = "mullw"  -> u64(s32(a) * s32(b))
      [] m = "mulld"  -> u64(s64(a) * s64(b))
      [] m = "mulhw"  -> u64(ShiftRight(s32(a) * s32(b), W))
      [] m = "mulhwu" -> ShiftRight(u32(a) * u32(b), W)
      [] m = "mulhdu" -> mulhu(a, b)
      [] m = "divd"   -> u64(Quotient(s64(a), s64(b)))
      [] m = "divdu"  -> a \div b
      [] m = "divw"   -> old - u32(old) + u32(Quotient(s32(a), s32(b)))
      [] m = "divwu"  -> old - u32(old) + (u32(a) \div u32(b))

Unaries == {"extsb", "extsh", "extsw", "cntlzw", "cntlzd", "mr", "not"}
Unary(m, a) ==
    CASE m = "extsb"  -> u64(Signed(W \div 4, a))
      [] m = "extsh"  -> u64(Signed(W \div 2, a))
      [] m = "extsw"  -> u64(s32(a))
      [] m = "cntlzw" -> clz(W, u32(a))
      [] m = "cntlzd" -> clz(2 * W, a)
      [] m = "mr"     -> a
      [] m = "not"    -> Not(a)

Logicals == {"and", "andc", "nand", "or", "orc", "nor", "xor", "eqv"}
Logical(m, a, b) ==
    CASE m = "and"  -> And(a, b)
      [] m = "andc" -> And(a, Not(b))
      [] m = "nand" -> Not(And(a, b))
      [] m = "or"   -> Or(a, b)
      [] m = "orc"  -> Or(a, Not(b))
      [] m = "nor"  -> Not(Or(a, b))
      [] m = "xor"  -> Xor(a, b)
      [] m = "eqv"  -> Not(Xor(a, b))

\* The immediate is a number of half a word, the s forms shift it up.
LogicalImmediates == {"andi", "andis", "ori", "oris", "xori", "xoris"}
LogicalImmediate(m, a, n) ==
    LET up == n * 2 ^ (W \div 2)
    IN  CASE m = "andi"  -> And(a, n)
          [] m = "andis" -> And(a, up)
          [] m = "ori"   -> Or(a, n)
          [] m = "oris"  -> Or(a, up)
          [] m = "xori"  -> Xor(a, n)
          [] m = "xoris" -> Xor(a, up)

-----------------------------------------------------------------------------
(* Shifts and rotations. The count of a shift has one bit more than it      *)
(* takes to shift everything out.                                           *)

Shifts == {"slw", "srw", "sld", "srd"}
Shift(m, a, b) ==
    LET n == b % (2 * W)
        m64 == b % (4 * W)
    IN  CASE m = "slw" -> IF n >= W THEN 0 ELSE u32(u32(a) * 2 ^ n)
          [] m = "srw" -> IF n >= W THEN 0 ELSE ShiftRight(u32(a), n)
          [] m = "sld" -> IF m64 >= 2 * W THEN 0 ELSE u64(a * 2 ^ m64)
          [] m = "srd" -> IF m64 >= 2 * W THEN 0 ELSE ShiftRight(a, m64)

\* Signed shifts leave in ca whether a negative number lost a bit.
SignedShifts == {"sraw", "srawi", "srad", "sradi"}
SignedShift(m, a, b, n) ==
    LET bits == IF m \in {"sraw", "srawi"} THEN W ELSE 2 * W
        x == Signed(bits, a)
        count == b % (2 * bits)
        temp == IF count > bits - 1 THEN bits - 1 ELSE count
    IN  IF m \in {"sraw", "srad"}
        THEN <<u64(ShiftRight(x, temp)), Bit(x < 0 /\ ShiftRight(x, temp) * 2 ^ temp # x)>>
        ELSE IF n = 0 THEN <<u64(x), 0>>
        ELSE <<u64(ShiftRight(x, n)), Bit(x < 0 /\ And(Low(bits, a), ComputeMask(2 * W - n, 2 * W - 1)) # 0)>>

Rotations == {"rldicl", "rldicr", "rldimi", "rlwimi", "rlwinm", "rlwnm", "rotldi", "rotlw",
              "rotlwi", "clrldi", "clrlwi"}
Rotate(m, a, b, old, i) ==
    LET twice == u32(a) + Word * u32(a)
        m32 == ComputeMask(i.mb + W, i.me + W)
        mimi == ComputeMask(i.mb, (2 * W) - 1 - i.sh)
    IN  CASE m = "rldicl" -> And(rotateleft64(a, i.sh), ComputeMask(i.mb, 2 * W - 1))
          [] m = "rldicr" -> And(rotateleft64(a, i.sh), ComputeMask(0, i.me))
          [] m = "rldimi" -> Or(And(rotateleft64(a, i.sh), mimi), And(old, Not(mimi)))
          [] m = "rlwimi" -> Or(And(rotateleft32(u32(a), i.sh), m32), And(old, Not(m32)))
          [] m = "rlwinm" -> And(rotateleft64(twice, i.sh), m32)
          [] m = "rlwnm"  -> And(rotateleft64(twice, b % W), m32)
          [] m = "rotldi" -> rotateleft64(a, i.sh)
          [] m = "rotlw"  -> rotateleft32(u32(a), b % W)
          [] m = "rotlwi" -> rotateleft32(u32(a), i.sh)
          [] m = "clrldi" -> And(a, 2 ^ (2 * W - i.mb) - 1)
          [] m = "clrlwi" -> And(u32(a), 2 ^ (W - i.mb) - 1)

\* The forms whose record form is followed by a comparison of the low word.
RecordForms ==
    {"add", "addc", "adde", "addic", "addme", "addze", "and", "andc", "andi", "andis", "clrlwi",
     "divdu", "divw", "divwu", "eqv", "extsb", "extsh", "extsw", "mr", "mulhwu", "mullw", "mulhdu",
     "neg", "not", "or", "rlwinm", "rlwnm", "rotlwi", "slw", "sraw", "srawi", "srw", "subf",
     "subfc", "subfe", "subfme", "subfze", "xor"}

-----------------------------------------------------------------------------
(* Comparisons and traps.                                                   *)

compare(left, right, so) ==
    [lt |-> Bit(left < right), gt |-> Bit(left > right), eq |-> Bit(left = right), so |-> so]

\* The casts a comparison makes of its operands; an immediate is one already.
Compares ==
    [cmpd |-> <<2 * W, TRUE, FALSE>>, cmpdi |-> <<2 * W, TRUE, TRUE>>,
     cmpld |-> <<2 * W, FALSE, FALSE>>, cmpldi |-> <<2 * W, FALSE, TRUE>>,
     cmplw |-> <<W, FALSE, FALSE>>, cmplwi |-> <<W, FALSE, TRUE>>,
     cmpw |-> <<W, TRUE, FALSE>>, cmpwi |-> <<W, TRUE, TRUE>>]
Compared(entry, a, b, n, so) ==
    LET cast(x) == IF entry[2] THEN Signed(entry[1], x) ELSE Low(entry[1], x)
    IN  compare(cast(a), IF entry[3] THEN n ELSE cast(b), so)

\* What a trap instruction of a name of its own tests: width, signed, relation.
TrapNames ==
    [eq |-> <<FALSE, "=">>, ne |-> <<FALSE, "#">>, ge |-> <<TRUE, ">=">>, gt |-> <<TRUE, ">">>,
     le |-> <<TRUE, "<=">>, lt |-> <<TRUE, "<">>, lge |-> <<FALSE, ">=">>, lgt |-> <<FALSE, ">">>,
     lle |-> <<FALSE, "<=">>, llt |-> <<FALSE, "<">>]
Relation(rel, x, y) ==
    CASE rel = "=" -> x = y [] rel = "#" -> x # y [] rel = ">=" -> x >= y
      [] rel = ">" -> x > y [] rel = "<=" -> x <= y [] rel = "<" -> x < y
\* tw, twi, td and tdi with a name; unsigned and equal ones compare with the
\* immediate as 32 bits.
NamedTrap(bits, name, immediate, a, b, n) ==
    LET sign == TrapNames[name][1]
        x == IF sign THEN Signed(bits, a) ELSE Low(bits, a)
        y == IF immediate THEN IF sign THEN n ELSE u32(n)
             ELSE IF sign THEN Signed(bits, b) ELSE Low(bits, b)
    IN  Relation(TrapNames[name][2], x, y)
\* twi: one test for each bit of the TO field.
Twi(to, a, n) ==
    \/ (to \div 16) % 2 = 1 /\ s32(a) < n
    \/ (to \div 8) % 2 = 1 /\ s32(a) > n
    \/ (to \div 4) % 2 = 1 /\ u32(a) = u32(n)
    \/ (to \div 2) % 2 = 1 /\ u32(a) < u32(n)
    \/ to % 2 = 1 /\ u32(a) > u32(n)

-----------------------------------------------------------------------------
(* Memory. Loads and stores read and write host numbers, the first byte the *)
(* least significant, and swap their bytes. A thread sees its own stores.   *)

View(t) ==
    LET stored(a) == {k \in DOMAIN buffer[t] : a \in DOMAIN buffer[t][k]}
    IN  [a \in DOMAIN mem |-> IF stored(a) = {} THEN mem[a] ELSE buffer[t][Max(stored(a))][a]]
Raw(bytes, ea, n) == FromBytes(n, [k \in 0 .. n - 1 |-> bytes[ea + k]])
bswap(n, x) == FromBytes(n, [k \in 0 .. n - 1 |-> ByteOf(x, n - 1 - k)])
RawBytes(ea, n, x) == [a \in ea .. ea + n - 1 |-> ByteOf(x, a - ea)]

Access(n, signed, indexed, update, reversed) ==
    [n |-> n, signed |-> signed, indexed |-> indexed, update |-> update, reversed |-> reversed]
Plain(n, signed, indexed) == Access(n, signed, indexed, FALSE, FALSE)
Updating(n, signed, indexed) == Access(n, signed, indexed, TRUE, FALSE)
Reversing(n) == Access(n, FALSE, TRUE, FALSE, TRUE)

ByteLoads == [lbz |-> Plain(1, FALSE, FALSE), lbzx |-> Plain(1, FALSE, TRUE), lbzu |-> Updating(1, FALSE, FALSE)]
DoubleLoads == [ld |-> Plain(8, FALSE, FALSE), ldx |-> Plain(8, FALSE, TRUE), ldu |-> Updating(8, FALSE, FALSE)]
HalfLoads == [lha |-> Plain(2, TRUE, FALSE), lhax |-> Plain(2, TRUE, TRUE),
              lhz |-> Plain(2, FALSE, FALSE), lhzx |-> Plain(2, FALSE, TRUE)]
WordLoads == [lwa |-> Plain(4, TRUE, FALSE), lwax |-> Plain(4, TRUE, TRUE), lwbrx |-> Reversing(4),
              lwz |-> Plain(4, FALSE, FALSE), lwzx |-> Plain(4, FALSE, TRUE), lwzu |-> Updating(4, FALSE, FALSE)]
LateLoads == [lbzux |-> Updating(1, FALSE, TRUE), ldux |-> Updating(8, FALSE, TRUE),
              lhau |-> Updating(2, TRUE, FALSE), lhzu |-> Updating(2, FALSE, FALSE),
              lhzux |-> Updating(2, FALSE, TRUE), lwzux |-> Updating(4, FALSE, TRUE)]
Loads == Over(ByteLoads, Over(DoubleLoads, Over(HalfLoads, Over(WordLoads, LateLoads))))

ByteStores == [stb |-> Plain(1, FALSE, FALSE), stbx |-> Plain(1, FALSE, TRUE), stbu |-> Updating(1, FALSE, FALSE)]
DoubleStores == [std |-> Plain(8, FALSE, FALSE), stdx |-> Plain(8, FALSE, TRUE), stdu |-> Updating(8, FALSE, FALSE)]
HalfStores == [sth |-> Plain(2, FALSE, FALSE), sthx |-> Plain(2, FALSE, TRUE), sthbrx |-> Reversing(2)]
WordStores == [stw |-> Plain(4, FALSE, FALSE), stwx |-> Plain(4, FALSE, TRUE), stwbrx |-> Reversing(4),
               stwu |-> Updating(4, FALSE, FALSE), stwux |-> Updating(4, FALSE, TRUE)]
LateStores == [stbux |-> Updating(1, FALSE, TRUE), stdux |-> Updating(8, FALSE, TRUE),
               sthu |-> Updating(2, FALSE, FALSE), sthux |-> Updating(2, FALSE, TRUE)]
Stores == Over(ByteStores, Over(DoubleStores, Over(HalfStores, Over(WordStores, LateStores))))

\* r0 as a base means 0, but not where the address goes back to the base.
Address(access, i, regs) ==
    LET base == IF i.a = 0 /\ ~access.update THEN 0 ELSE u32(regs[i.a])
    IN  u32(base + IF access.indexed THEN u32(regs[i.b]) ELSE i.imm)

\* The atomic instructions add to a pointer, which does not wrap around.
AtomicAddress(i, regs) == (IF i.a = 0 THEN 0 ELSE u32(regs[i.a])) + u32(regs[i.b])
AtomicWidth == [lwarx |-> 4, stwcx |-> 4, ldarx |-> 8, stdcx |-> 8]

-----------------------------------------------------------------------------
Init == \E s \in Starts :
            /\ prog = s.prog
            /\ mem \in s.mem
            /\ r \in s.r
            /\ pc = [t \in Threads |-> 1]
            /\ \E so \in s.so, ca \in s.ca : xer = [t \in Threads |-> [so |-> so, ca |-> ca]]
            /\ cr = [t \in Threads |-> [f \in 0 .. (W \div 4) - 1 |-> [lt |-> 0, gt |-> 0, eq |-> 0, so |-> 0]]]
            /\ reserved = [t \in Threads |-> 0]
            /\ trapped = [t \in Threads |-> FALSE]
            /\ buffer = [t \in Threads |-> <<>>]

Running(t) == pc[t] <= Len(prog[t])
Current(t) == prog[t][pc[t]]
Advance(t) == /\ pc' = [pc EXCEPT ![t] = @ + 1]
              /\ UNCHANGED prog

\* What an instruction that only computes makes of its registers.
Value(i, regs, ca) ==
    LET a == regs[i.a]
        b == regs[i.b]
        z == IF i.a = 0 THEN 0 ELSE a
    IN  CASE i.m \in Additions -> Add(i.m, a, b, z, i.imm, ca)
          [] i.m \in Subtractions -> Subtract(i.m, a, b, i.imm, ca)
          [] i.m \in Products -> <<Multiply(i.m, a, b, i.imm, regs[i.d]), ca>>
          [] i.m \in Unaries -> <<Unary(i.m, a), ca>>
          [] i.m \in Logicals -> <<Logical(i.m, a, b), ca>>
          [] i.m \in LogicalImmediates -> <<LogicalImmediate(i.m, a, i.imm), ca>>
          [] i.m \in Shifts -> <<Shift(i.m, a, b), ca>>
          [] i.m \in SignedShifts -> SignedShift(i.m, a, b, i.imm)
          [] i.m \in Rotations -> <<Rotate(i.m, a, b, regs[i.d], i.imm), ca>>
Computing == Additions \cup Subtractions \cup Products \cup Unaries \cup Logicals
             \cup LogicalImmediates \cup Shifts \cup SignedShifts \cup Rotations

Compute(t) ==
    /\ Current(t).m \in Computing
    /\ LET i == Current(t)
           result == Value(i, r[t], xer[t].ca)
       IN  /\ r' = [r EXCEPT ![t][i.d] = result[1]]
           /\ xer' = [xer EXCEPT ![t].ca = result[2]]
           /\ cr' = IF i.rc /\ i.m \in RecordForms
                    THEN [cr EXCEPT ![t][0] = compare(s32(result[1]), 0, xer[t].so)] ELSE cr
    /\ UNCHANGED <<reserved, trapped, memory>>
    /\ Advance(t)

Compare(t) ==
    /\ Current(t).m \in DOMAIN Compares
    /\ LET i == Current(t)
       IN  cr' = [cr EXCEPT ![t][i.d] = Compared(Compares[i.m], r[t][i.a], r[t][i.b], i.imm, xer[t].so)]
    /\ UNCHANGED <<r, xer, reserved, trapped, memory>>
    /\ Advance(t)

\* imm is the TO field and the immediate of twi, else width, name, immediate.
Trap(t) ==
    /\ Current(t).m \in {"twi", "trap"}
    /\ LET i == Current(t)
           hit == IF i.m = "twi" THEN Twi(i.imm.to, r[t][i.a], i.imm.n)
                  ELSE NamedTrap(i.imm.bits, i.imm.name, i.imm.immediate, r[t][i.a], r[t][i.b], i.imm.n)
       IN  trapped' = [trapped EXCEPT ![t] = @ \/ hit]
    /\ UNCHANGED <<r, xer, cr, reserved, memory>>
    /\ Advance(t)

FieldNames == <<"lt", "gt", "eq", "so">>
Flag(fields, n) == fields[n \div 4][FieldNames[(n % 4) + 1]]
WithFlag(fields, n, x) == [fields EXCEPT ![n \div 4][FieldNames[(n % 4) + 1]] = x]

mfcr(t) ==
    /\ Current(t).m = "mfcr"
    /\ r' = [r EXCEPT ![t][Current(t).d] = NumberOf[{W - 1 - n : n \in {k \in 0 .. W - 1 : Flag(cr[t], k) = 1}}]]
    /\ UNCHANGED <<xer, cr, reserved, trapped, memory>>
    /\ Advance(t)
mtcr(t) ==
    /\ Current(t).m = "mtcr"
    /\ cr' = [cr EXCEPT ![t] = [f \in DOMAIN cr[t] |->
                 LET on(k) == Bit(W - 1 - (4 * f + k) \in BitsOf[u32(r[t][Current(t).a])])
                 IN  [lt |-> on(0), gt |-> on(1), eq |-> on(2), so |-> on(3)]]]
    /\ UNCHANGED <<r, xer, reserved, trapped, memory>>
    /\ Advance(t)
mtxer(t) ==
    /\ Current(t).m = "mtxer"
    /\ LET bits == BitsOf[r[t][Current(t).a]]
       IN  xer' = [xer EXCEPT ![t] = [so |-> Bit(W - 1 \in bits), ca |-> Bit(W - 3 \in bits)]]
    /\ UNCHANGED <<r, cr, reserved, trapped, memory>>
    /\ Advance(t)
\* cror and crorc: one flag of two.
CombineFlags(t) ==
    /\ Current(t).m \in {"cror", "crorc"}
    /\ LET i == Current(t)
           b == Flag(cr[t], i.b)
       IN  cr' = [cr EXCEPT ![t] = WithFlag(@, i.d, IF Flag(@, i.a) = 1 \/ b = (IF i.m = "cror" THEN 1 ELSE 0)
                                                    THEN 1 ELSE 0)]
    /\ UNCHANGED <<r, xer, reserved, trapped, memory>>
    /\ Advance(t)

Load(t) ==
    /\ Current(t).m \in DOMAIN Loads
    /\ LET i == Current(t)
           access == Loads[i.m]
           ea == Address(access, i, r[t])
           read == bswap(access.n, Raw(View(t), ea, access.n))
           x == IF access.reversed THEN bswap(access.n, read) ELSE read
           value == IF access.signed THEN u64(Signed(access.n * (W \div 4), x)) ELSE x
           loaded == [r EXCEPT ![t][i.d] = value]
       IN  r' = IF access.update THEN [loaded EXCEPT ![t][i.a] = @ - u32(@) + ea] ELSE loaded
    /\ UNCHANGED <<xer, cr, reserved, trapped, memory>>
    /\ Advance(t)

Store(t) ==
    /\ Current(t).m \in DOMAIN Stores
    /\ LET i == Current(t)
           access == Stores[i.m]
           ea == Address(access, i, r[t])
           x == r[t][i.d]
           written == IF access.reversed THEN bswap(access.n, x) ELSE x
       IN  /\ buffer' = [buffer EXCEPT ![t] = Append(@, RawBytes(ea, access.n, bswap(access.n, written)))]
           /\ r' = IF access.update THEN [r EXCEPT ![t][i.a] = @ - u32(@) + ea] ELSE r
    /\ UNCHANGED <<xer, cr, reserved, trapped, mem>>
    /\ Advance(t)

\* dcbz clears a line of 32 bytes.
Line == W
dcbz(t) ==
    /\ Current(t).m = "dcbz"
    /\ LET at == u32(AtomicAddress(Current(t), r[t]))
       IN  buffer' = [buffer EXCEPT ![t] = Append(@,
                         [a \in (at - (at % Line)) .. (at - (at % Line) + Line - 1) |-> 0])]
    /\ UNCHANGED <<state, mem>>
    /\ Advance(t)

\* A faulty variant: what was read is kept after its bytes were swapped.
LoadReserve_Swapped(t) ==
    /\ Current(t).m \in {"lwarx", "ldarx"}
    /\ LET i == Current(t)
           n == AtomicWidth[i.m]
           value == bswap(n, Raw(View(t), AtomicAddress(i, r[t]), n))
       IN  /\ reserved' = [reserved EXCEPT ![t] = value]
           /\ r' = [r EXCEPT ![t][i.d] = value]
    /\ UNCHANGED <<xer, cr, trapped, memory>>
    /\ Advance(t)

LoadReserve(t) ==
    /\ Current(t).m \in {"lwarx", "ldarx"}
    /\ LET i == Current(t)
           n == AtomicWidth[i.m]
           raw == Raw(View(t), AtomicAddress(i, r[t]), n)
       IN  /\ reserved' = [reserved EXCEPT ![t] = IF n = 4 THEN @ - u32(@) + raw ELSE raw]
           /\ r' = [r EXCEPT ![t][i.d] = bswap(n, raw)]
    /\ UNCHANGED <<xer, cr, trapped, memory>>
    /\ Advance(t)

\* A faulty variant: a store without a comparison.
StoreConditional_Always(t) ==
    /\ Current(t).m \in {"stwcx", "stdcx"}
    /\ buffer[t] = <<>>
    /\ LET i == Current(t)
           n == AtomicWidth[i.m]
           at == AtomicAddress(i, r[t])
       IN  /\ mem' = Over(RawBytes(at, n, bswap(n, r[t][i.d])), mem)
           /\ cr' = [cr EXCEPT ![t][0] = [lt |-> 0, gt |-> 0, eq |-> 1, so |-> xer[t].so]]
    /\ UNCHANGED <<r, xer, reserved, trapped, buffer>>
    /\ Advance(t)

\* A faulty variant: eq does not depend on the swap.
StoreConditional_Claims(t) ==
    /\ Current(t).m \in {"stwcx", "stdcx"}
    /\ buffer[t] = <<>>
    /\ LET i == Current(t)
           n == AtomicWidth[i.m]
           at == AtomicAddress(i, r[t])
           equal == Raw(mem, at, n) = Low(n * (W \div 4), reserved[t])
       IN  /\ mem' = IF equal THEN Over(RawBytes(at, n, bswap(n, r[t][i.d])), mem) ELSE mem
           /\ cr' = [cr EXCEPT ![t][0] = [lt |-> 0, gt |-> 0, eq |-> 1, so |-> xer[t].so]]
    /\ UNCHANGED <<r, xer, reserved, trapped, buffer>>
    /\ Advance(t)

\* The host's compare-and-swap waits for the stores before it.
StoreConditional(t) ==
    /\ Current(t).m \in {"stwcx", "stdcx"}
    /\ buffer[t] = <<>>
    /\ LET i == Current(t)
           n == AtomicWidth[i.m]
           at == AtomicAddress(i, r[t])
           equal == Raw(mem, at, n) = Low(n * (W \div 4), reserved[t])
       IN  /\ mem' = IF equal THEN Over(RawBytes(at, n, bswap(n, r[t][i.d])), mem) ELSE mem
           /\ cr' = [cr EXCEPT ![t][0] = [lt |-> 0, gt |-> 0, eq |-> Bit(equal), so |-> xer[t].so]]
    /\ UNCHANGED <<r, xer, reserved, trapped, buffer>>
    /\ Advance(t)

\* sync, lwsync, eieio and the cache hints are printed as nothing.
Barrier(t) ==
    /\ Current(t).m \in {"sync", "lwsync", "eieio", "nop"}
    /\ UNCHANGED <<state, memory>>
    /\ Advance(t)

\* bne back to a position of the program, which Translation models.
BranchBack(t) ==
    /\ Current(t).m = "bne"
    /\ pc' = [pc EXCEPT ![t] = IF cr[t][0].eq = 0 THEN Current(t).imm ELSE @ + 1]
    /\ UNCHANGED <<prog, state, memory>>

Step(t) ==
    /\ Running(t)
    /\ \/ Compute(t) \/ Compare(t) \/ Trap(t)
       \/ mfcr(t) \/ mtcr(t) \/ mtxer(t) \/ CombineFlags(t)
       \/ Load(t) \/ Store(t) \/ dcbz(t)
       \/ LoadReserve(t) \/ StoreConditional(t) \/ Barrier(t)
       \/ BranchBack(t)

\* The host's processor completes the oldest store of a thread.
Drain(t) ==
    /\ buffer[t] # <<>>
    /\ mem' = Over(Head(buffer[t]), mem)
    /\ buffer' = [buffer EXCEPT ![t] = Tail(@)]
    /\ UNCHANGED <<prog, pc, state>>

Next == \E t \in Threads : Step(t) \/ Drain(t)

\* Threads are scheduled and stores complete.
Fairness == \A t \in Threads : WF_vars(Step(t)) /\ WF_vars(Drain(t))

Spec == Init /\ [][Next]_vars /\ Fairness
=============================================================================
