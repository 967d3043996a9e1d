------------------------------ MODULE VectorUnit ------------------------------
(***************************************************************************)
(* The vector instructions as recompiler.cpp prints them, on registers as   *)
(* PPCVRegister of ppc_context.h keeps them: the sixteen bytes of a guest   *)
(* register reversed, so that the lanes of a host intrinsic are little      *)
(* endian and in the opposite order. A load reverses, a store reverses      *)
(* back, and every instruction that moves bytes between lanes has to make   *)
(* up for it (README.md:114). The module is the host side; it implements    *)
(* GuestVectors, with every register seen reversed.                         *)
(*                                                                          *)
(* Operands are those of the disassembler's tables (external), intrinsics   *)
(* are what the processor's manual says (external); namespaces simd and mem *)
(* are not in the repository and are taken for the intrinsics they name.    *)
(***************************************************************************)
EXTENDS VectorTerms

CONSTANTS
    Listings,   \* the sequences of instructions to run
    Files,      \* the register files they start with, in guest order
    Memory      \* the memory they start with

VARIABLES
    v, mem, cr6,  \* the registers reversed, the memory, CR6
    prog, pc      \* the program and the position of the next instruction

unitVars == <<v, mem, cr6, prog, pc>>

-----------------------------------------------------------------------------
(* The tables of ppc_context.h: row n is what lvlx, lvrx, lvsl, lvsr use    *)
(* for an address n bytes behind a multiple of 16; 255 selects a zero.      *)

VectorMaskL(n) == [i \in Bytes |-> IF i < n THEN 255 ELSE 15 - (i - n)]
\* A faulty variant: the bytes of a right load one place off.
VectorMaskR_Shifted(n) == [i \in Bytes |-> IF i < n THEN n - i ELSE 255]
VectorMaskR(n) == [i \in Bytes |-> IF i < n THEN n - 1 - i ELSE 255]
VectorShiftTableL(n) == [i \in Bytes |-> Const(15 - i + n)]
VectorShiftTableR(n) == [i \in Bytes |-> Const(31 - i - n)]

-----------------------------------------------------------------------------
(* Intrinsics on host registers; lane j starts at byte w * j.               *)

Lane(x, w, j) == [k \in 0 .. w - 1 |-> x[w * j + k]]
FromLanes(w, Result(_)) == [i \in Bytes |-> Result(i \div w)[i % w]]

shuffle_epi8(x, mask) == [i \in Bytes |-> IF mask[i] >= 128 THEN Zero ELSE x[mask[i] % 16]]
shuffle_epi32(x, sel(_)) == FromLanes(4, LAMBDA j : Lane(x, 4, sel(j)))
alignr_epi8(hi, lo, n) ==
    [i \in Bytes |-> IF i + n < 16 THEN lo[i + n]
                     ELSE IF i + n < 32 THEN hi[i + n - 16] ELSE Zero]
unpackhi(w, x, y) ==
    LET half == 8 \div w
    IN  FromLanes(w, LAMBDA j : Lane(IF j % 2 = 0 THEN x ELSE y, w, half + (j \div 2)))
unpacklo(w, x, y) == FromLanes(w, LAMBDA j : Lane(IF j % 2 = 0 THEN x ELSE y, w, j \div 2))
\* _mm_cvtepi8_epi16 and _mm_cvtepi16_epi32: widen the low half.
cvtepi(w, x) == FromLanes(2 * w, LAMBDA j : [k \in 0 .. 2 * w - 1 |-> Term("sext", 0, <<Lane(x, w, j)>>, k)])
\* _mm_packs*: the lanes of x, then those of y, narrowed by op.
pack(op, w, x, y) ==
    LET n == 16 \div w
    IN  FromLanes(w \div 2, LAMBDA j : [k \in 0 .. (w \div 2) - 1 |->
            Term(op, 0, <<IF j < n THEN Lane(x, w, j) ELSE Lane(y, w, j - n)>>, k)])
blend_ps(x, y, mask) ==
    FromLanes(4, LAMBDA j : Lane(IF (mask \div 2 ^ j) % 2 = 1 THEN y ELSE x, 4, j))
\* _mm_dp_ps: the products of the lanes in a mask, summed into every lane.
dp_ps(x, y, lanes) ==
    FromLanes(4, LAMBDA j : [k \in 0 .. 3 |->
        Term("dot", 0, {<<Lane(x, 4, i), Lane(y, 4, i)>> : i \in lanes}, k)])

\* An intrinsic that works lane by lane. andnot complements its first operand.
Lanewise(op, w, imm, args) ==
    FromLanes(w, LAMBDA j : [k \in 0 .. w - 1 |->
        LET ls == [n \in DOMAIN args |-> Lane(args[n], w, j)]
        IN  IF op = "andnot" THEN Term("andc", imm, <<ls[2], ls[1]>>, k)
            ELSE Term(op, imm, ls, k)])

\* The 128 bits of a register, and the helpers that shift them.
Bits(x) == [p \in 0 .. 127 |-> <<x[p \div 8], p % 8>>]
FromBits(bits) == [i \in Bytes |-> ByteOf([t \in 0 .. 7 |-> bits[8 * i + t]])]
OrBits(x, y) == [p \in 0 .. 127 |-> IF x[p] = NoBit THEN y[p] ELSE x[p]]
slli_epi64(x, n) == [p \in 0 .. 127 |-> IF (p % 64) >= n THEN x[p - n] ELSE NoBit]
srli_epi64(x, n) == [p \in 0 .. 127 |-> IF (p % 64) + n < 64 THEN x[p + n] ELSE NoBit]
slli_si128(x, n) == [p \in 0 .. 127 |-> IF p >= 8 * n THEN x[p - 8 * n] ELSE NoBit]
srli_si128(x, n) == [p \in 0 .. 127 |-> IF p + 8 * n < 128 THEN x[p + 8 * n] ELSE NoBit]

mm_vsl(a, b) ==
    LET shift == b[15][2] % 8
        x == Bits(a)
    IN  IF shift = 0 THEN a
        ELSE FromBits(OrBits(slli_epi64(x, shift), srli_epi64(slli_si128(x, 8), 64 - shift)))

\* insert_ps(.., .., 0x10) puts 32-bit lane 0 of its second operand in lane 1.
mm_vsr(a, b) ==
    LET shift == b[0][2] % 8
        x == srli_epi64(Bits(a), shift)
        y == srli_epi64(srli_si128(Bits(a), 4), shift)
    IN  FromBits([p \in 0 .. 127 |-> IF p \in 32 .. 63 THEN y[p - 32] ELSE x[p]])

\* e = 15 - (c & 15); bit 4 of a byte of c, shifted to bit 7, chooses b.
mm_perm_epi8(a, b, c) ==
    [i \in Bytes |-> LET e == 15 - (c[i][2] % 16)
                     IN  IF (c[i][2] \div 16) % 2 = 1 THEN b[e] ELSE a[e]]

-----------------------------------------------------------------------------
(* The instructions that are one intrinsic working lane by lane: its        *)
(* operation, the width of its lanes, its operands in order (1 is the first *)
(* source). A mnemonic stands for its VMX128 form too where the code has    *)
(* one case for both.                                                       *)

Row(op, w, src) == [op |-> op, w |-> w, src |-> src]

LanesAdd ==
    [vaddfp |-> Row("addf", 4, <<1, 2>>),    vaddshs |-> Row("adds_s", 2, <<1, 2>>),
     vaddubm |-> Row("add", 1, <<1, 2>>),    vaddubs |-> Row("adds_u", 1, <<1, 2>>),
     vadduhm |-> Row("add", 2, <<1, 2>>),    vadduwm |-> Row("add", 4, <<1, 2>>),
     vadduws |-> Row("adds_u", 4, <<1, 2>>), vand |-> Row("and", 1, <<1, 2>>),
     vandc |-> Row("andnot", 1, <<2, 1>>),   vavgsb |-> Row("avg_s", 1, <<1, 2>>),
     vavgsh |-> Row("avg_s", 2, <<1, 2>>),   vavgub |-> Row("avg_u", 1, <<1, 2>>),
     vavguh |-> Row("avg_u", 2, <<1, 2>>)]

LanesConvert ==
    [vctsxs |-> Row("to_s", 4, <<1>>),  vctuxs |-> Row("to_u", 4, <<1>>),
     vcfsx |-> Row("from_s", 4, <<1>>), vcfux |-> Row("from_u", 4, <<1>>)]

LanesMinMax ==
    [vexptefp |-> Row("exp2", 4, <<1>>),     vlogefp |-> Row("log2", 4, <<1>>),
     vmaddfp |-> Row("madd", 4, <<1, 2, 3>>), vmaxfp |-> Row("maxf", 4, <<1, 2>>),
     vmaxsh |-> Row("max_s", 2, <<1, 2>>),   vmaxsw |-> Row("max_s", 4, <<1, 2>>),
     vmaxuh |-> Row("max_u", 2, <<1, 2>>),   vminfp |-> Row("minf", 4, <<1, 2>>),
     vminsh |-> Row("min_s", 2, <<1, 2>>),   vminuh |-> Row("min_u", 2, <<1, 2>>)]

LanesMultiply ==
    [vmulfp128 |-> Row("mulf", 4, <<1, 2>>), vnmsubfp |-> Row("nmsub", 4, <<1, 2, 3>>),
     vnor |-> Row("nor", 1, <<1, 2>>),       vor |-> Row("or", 1, <<1, 2>>)]

LanesRound ==
    [vrefp |-> Row("recip", 4, <<1>>), vrfim |-> Row("floor", 4, <<1>>),
     vrfin |-> Row("nearest", 4, <<1>>), vrfiz |-> Row("trunc_f", 4, <<1>>)]

LanesSplatSub ==
    [vspltisb |-> Row("imm", 1, <<>>),       vspltish |-> Row("imm", 2, <<>>),
     vspltisw |-> Row("imm", 4, <<>>)]

LanesSubtract ==
    [vsubfp |-> Row("subf", 4, <<1, 2>>),    vsubshs |-> Row("subs_s", 2, <<1, 2>>),
     vsubsws |-> Row("subs_s", 4, <<1, 2>>), vsububs |-> Row("subs_u", 1, <<1, 2>>),
     vsubuhm |-> Row("sub", 2, <<1, 2>>)]

\* vavgsw adds in 32 bits, which wraps, before it halves.
LanesLate ==
    [vaddsbs |-> Row("adds_s", 1, <<1, 2>>), vaddsws |-> Row("adds_s", 4, <<1, 2>>),
     vadduhs |-> Row("adds_u", 2, <<1, 2>>), vminsw |-> Row("min_s", 4, <<1, 2>>),
     vavgsw |-> Row("avg_s_wrapping", 4, <<1, 2>>), vsubsbs |-> Row("subs_s", 1, <<1, 2>>),
     vsububm |-> Row("sub", 1, <<1, 2>>)]

LanesMisc == [vrsqrtefp |-> Row("rsqrt", 4, <<1>>), vxor |-> Row("xor", 1, <<1, 2>>)]

Lanes == Over(LanesAdd, Over(LanesConvert, Over(LanesMinMax, Over(LanesMultiply, Over(LanesRound,
             Over(LanesSplatSub, Over(LanesSubtract, Over(LanesLate, LanesMisc))))))))

-----------------------------------------------------------------------------
(* Comparisons: operation, width, and the width of the lanes whose top bits *)
(* setFromMask gathers for the record form (0: no record form handled).     *)

Comparison(op, w, masked) == [op |-> op, w |-> w, masked |-> masked]

Compares ==
    [vcmpbfp |-> Comparison("bounds", 4, 4), vcmpeqfp |-> Comparison("eqf", 4, 4),
     vcmpequb |-> Comparison("eq", 1, 1),    vcmpequw |-> Comparison("eq", 4, 4),
     vcmpgefp |-> Comparison("gef", 4, 4),   vcmpgtfp |-> Comparison("gtf", 4, 4),
     vcmpgtub |-> Comparison("gt_u", 1, 0),  vcmpgtuh |-> Comparison("gt_u", 2, 0)]
ComparesLate ==
    [vcmpequh |-> Comparison("eq", 2, 1),    vcmpgtsh |-> Comparison("gt_s", 2, 1),
     vcmpgtsw |-> Comparison("gt_s", 4, 1)]
AllCompares == Over(Compares, ComparesLate)

\* What the top bits of the lanes of the given width show of a result.
SetFromMask(x, w) == {LaneOf(x[w * j + w - 1]) : j \in 0 .. (16 \div w) - 1}

\* Shifts: the count of lane i is read at byte w * i of the second operand.
ShiftsB == [vslb |-> <<"shl", 1>>, vslh |-> <<"shl", 2>>, vsrah |-> <<"sar", 2>>,
            vsrh |-> <<"shr", 2>>, vrlh |-> <<"rol", 2>>]
ShiftsW == [vslw |-> <<"shl", 4>>]
ShiftsR == [vsraw |-> <<"sar", 4>>, vsrw |-> <<"shr", 4>>]
ShiftsLate == [vsrab |-> <<"sar", 1>>]
Shifts == Over(ShiftsB, Over(ShiftsW, Over(ShiftsR, ShiftsLate)))

ShiftLanes(entry, x, y) ==
    LET w == entry[2]
    IN  FromLanes(w, LAMBDA j : [k \in 0 .. w - 1 |->
            Term(entry[1], 0, <<Lane(x, w, j), [z \in {0} |-> y[w * j]]>>, k)])

-----------------------------------------------------------------------------
(* Instructions that move bytes between lanes.                              *)

Merge(m, a, b) ==
    CASE m = "vmrghb" -> unpackhi(1, b, a)
      [] m = "vmrghh" -> unpackhi(2, b, a)
      [] m = "vmrghw" -> unpackhi(4, b, a)
      [] m = "vmrglb" -> unpacklo(1, b, a)
      [] m = "vmrglh" -> unpacklo(2, b, a)
      [] m = "vmrglw" -> unpacklo(4, b, a)

DotProduct(m, a, b) ==
    IF m = "vmsum3fp128" THEN dp_ps(a, b, {1, 2, 3}) ELSE dp_ps(a, b, {0, 1, 2, 3})

PermuteWords(a, imm) == shuffle_epi32(a, LAMBDA j : 3 - ((imm \div 4 ^ j) % 4))

\* Packs by one intrinsic, the second operand in front. vpkuhum masks first;
\* vpkuhus packs as if its halfwords were signed.
PacksByIntrinsic == {"vpkshss", "vpkshus", "vpkswss", "vpkuhum", "vpkuhus"}
Pack(m, a, b) ==
    CASE m = "vpkshss" -> pack("sat_ss", 2, b, a)
      [] m = "vpkshus" -> pack("sat_su", 2, b, a)
      [] m = "vpkswss" -> pack("sat_ss", 4, b, a)
      [] m = "vpkuhum" -> pack("trunc", 2, b, a)
      [] m = "vpkuhus" -> pack("sat_su", 2, b, a)

RotateInsert(d, a, mask, z) ==
    LET shuffle(j) == (j + 4 - z) % 4
    IN  blend_ps(d, shuffle_epi32(a, shuffle), mask)

Select(a, b, c) ==
    Lanewise("or", 1, 0, <<Lanewise("andnot", 1, 0, <<c, a>>), Lanewise("and", 1, 0, <<c, b>>)>>)

ShiftDouble(a, b, n) == alignr_epi8(a, b, 16 - n)

SplatByte(a, n) == [i \in Bytes |-> a[15 - n]]
SplatHalf(a, n) == [i \in Bytes |-> a[2 * (7 - n) + (i % 2)]]
\* A faulty variant: the word is counted from the wrong end.
SplatWord_Forward(a, n) == shuffle_epi32(a, LAMBDA j : n)
SplatWord(a, n) == shuffle_epi32(a, LAMBDA j : 3 - n)

Unpack(m, a) ==
    CASE m = "vupkhsb" -> cvtepi(1, unpackhi(8, a, a))
      [] m = "vupkhsh" -> cvtepi(2, unpackhi(8, a, a))
      [] m = "vupklsb" -> cvtepi(1, a)
      [] m = "vupklsh" -> cvtepi(2, a)

\* The count is taken from byte 15, and zeros are shifted in at the wrong end.
ShiftOctets(a, b) ==
    LET shift == (b[15][2] \div 8) % 32
    IN  IF shift >= 16 THEN [i \in Bytes |-> Zero]
        ELSE alignr_epi8([i \in Bytes |-> Zero], a, 16 - shift)
-----------------------------------------------------------------------------
(* Instructions printed as several statements, which write the destination  *)
(* lane by lane and read the sources in between.                            *)

\* The register file after lane n of width w of register d is set, and after
\* four lanes of two bytes are, each to Val of the file as it is then.
WriteLane(file, d, w, n, lane) ==
    [file EXCEPT ![d] = [b \in Bytes |-> IF b \div w = n THEN lane[b % w] ELSE file[d][b]]]
WriteFour(file, d, first, Val(_, _)) ==
    LET f1 == WriteLane(file, d, 2, first, Val(file, 0))
        f2 == WriteLane(f1, d, 2, first + 1, Val(f1, 1))
        f3 == WriteLane(f2, d, 2, first + 2, Val(f2, 2))
    IN  WriteLane(f3, d, 2, first + 3, Val(f3, 3))

PacksByLoop == [vpkswus |-> "sat_su", vpkuwum |-> "trunc", vpkuwus |-> "sat_uu"]

\* The second operand is saved in vTemp and packed into the low half of the
\* destination before the first operand is read.
PackWords(file, op, d, s1, s2) ==
    LET narrow(x, i) == [k \in 0 .. 1 |-> Term(op, 0, <<Lane(x, 4, i)>>, k)]
        low == WriteFour(file, d, 0, LAMBDA f, i : narrow(file[s2], i))
        vTemp == low[s1]
    IN  WriteFour(low, d, 4, LAMBDA f, i : narrow(vTemp, i))

\* temp collects the bytes of the colour, lane i of the source at byte
\* indices[i] of temp, before it is stored.
PackColour(file, d, s, lane) ==
    LET indices == <<3, 0, 1, 2>>
        byteAt(k) == CHOOSE i \in 0 .. 3 : indices[i + 1] = k
        temp == [k \in 0 .. 3 |-> Term("pack_colour", 0, <<Lane(file[s], 4, byteAt(k))>>, 0)]
    IN  WriteLane(file, d, 4, lane, temp)

\* Each half is stored as soon as it is made.
PackHalves(file, d, s) ==
    WriteFour(file, d, 4, LAMBDA f, i : [k \in 0 .. 1 |-> Term("half", 0, <<Lane(f[s], 4, i)>>, k)])

UnpackColour(a) ==
    LET indices == <<3, 0, 1, 2>>
    IN  FromLanes(4, LAMBDA j : [k \in 0 .. 3 |->
            Term("unpack_colour", 0, <<[z \in {0} |-> a[indices[j + 1]]]>>, k)])
UnpackShorts(a) ==
    FromLanes(4, LAMBDA j : [k \in 0 .. 3 |->
        IF j >= 2 THEN Term("short_plus_3", 0, <<Lane(a, 2, j - 2)>>, k)
        ELSE Term(IF j = 1 THEN "float_0" ELSE "float_1", 0, <<>>, k)])

-----------------------------------------------------------------------------
(* Loads and stores. A guest address is an offset into host memory.         *)

Load(m, ea) ==
    LET off == ea % 16
        line == [i \in Bytes |-> mem[ea - off + i]]
    IN  CASE m = "lvlx" -> shuffle_epi8(line, VectorMaskL(off))
          [] m = "lvrx" -> IF off # 0 THEN shuffle_epi8(line, VectorMaskR(off))
                           ELSE [i \in Bytes |-> Zero]
          [] m = "lvsl" -> VectorShiftTableL(off)
          [] m = "lvsr" -> VectorShiftTableR(off)
\* lvx and the element loads are one case.
LoadLine(ea) == shuffle_epi8([i \in Bytes |-> mem[ea - (ea % 16) + i]], VectorMaskL(0))

\* PPC_STORE_U16 and PPC_STORE_U32 swap the bytes of the lane they store.
StoreLane(x, w, ea) ==
    LET at == ea - (ea % w)
        lane == Lane(x, w, (16 \div w) - 1 - ((at % 16) \div w))
    IN  [n \in at .. at + w - 1 |-> lane[w - 1 - (n - at)]]
StoreLeft(x, ea) == [n \in ea .. ea + 15 - (ea % 16) |-> x[15 - (n - ea)]]
StoreRight(x, ea) == [n \in ea - (ea % 16) .. ea - 1 |-> x[ea - n - 1]]
StoreLine(x, ea) ==
    LET line == shuffle_epi8(x, VectorMaskL(0))
    IN  [n \in ea - (ea % 16) .. ea - (ea % 16) + 15 |-> line[n % 16]]

Stored(m, x, ea) ==
    CASE m = "stvehx" -> StoreLane(x, 2, ea)
      [] m = "stvewx" -> StoreLane(x, 4, ea)
      [] m = "stvlx"  -> StoreLeft(x, ea)
      [] m = "stvrx"  -> StoreRight(x, ea)
      [] m = "stvx"   -> StoreLine(x, ea)
StoreInsns == {"stvehx", "stvewx", "stvlx", "stvrx", "stvx"}
-----------------------------------------------------------------------------
MergeInsns == {"vmrghb", "vmrghh", "vmrghw", "vmrglb", "vmrglh", "vmrglw"}
UnpackInsns == {"vupkhsb", "vupkhsh", "vupklsb", "vupklsh"}

\* What an instruction of one statement leaves in its destination.
Result(i) ==
    LET a == v[i.s[1]]
        b == v[i.s[2]]
    IN  CASE i.m \in DOMAIN Lanes -> Lanewise(Lanes[i.m].op, Lanes[i.m].w, i.imm,
                                        [n \in DOMAIN Lanes[i.m].src |-> v[i.s[Lanes[i.m].src[n]]]])
          [] i.m \in DOMAIN AllCompares -> Lanewise(AllCompares[i.m].op, AllCompares[i.m].w, 0, <<a, b>>)
          [] i.m \in DOMAIN Shifts -> ShiftLanes(Shifts[i.m], a, b)
          [] i.m \in MergeInsns -> Merge(i.m, a, b)
          [] i.m \in UnpackInsns -> Unpack(i.m, a)
          [] i.m \in PacksByIntrinsic -> Pack(i.m, a, b)
          [] i.m \in {"vmsum3fp128", "vmsum4fp128"} -> DotProduct(i.m, a, b)
          [] i.m = "vpermwi128" -> PermuteWords(a, i.imm)
          [] i.m = "vrlimi128" -> RotateInsert(v[i.d], a, i.imm \div 4, i.imm % 4)
          [] i.m = "vsel" -> Select(a, b, v[i.s[3]])
          [] i.m = "vperm" -> mm_perm_epi8(a, b, v[i.s[3]])
          [] i.m = "vsldoi" -> ShiftDouble(a, b, i.imm)
          [] i.m = "vslo" -> ShiftOctets(a, b)
          [] i.m = "vsl" -> mm_vsl(a, b)
          [] i.m = "vsr" -> mm_vsr(a, b)
          [] i.m = "vspltb" -> SplatByte(a, i.imm)
          [] i.m = "vsplth" -> SplatHalf(a, i.imm)
          [] i.m = "vspltw" -> SplatWord(a, i.imm)
          [] i.m = "vupkd3d128" -> IF i.imm = 0 THEN UnpackColour(a) ELSE UnpackShorts(a)
          [] i.m \in {"lvlx", "lvrx", "lvsl", "lvsr"} -> Load(i.m, i.ea)
          [] i.m = "lvx" -> LoadLine(i.ea)

\* The register file an instruction leaves.
File(i) ==
    CASE i.m \in DOMAIN PacksByLoop -> PackWords(v, PacksByLoop[i.m], i.d, i.s[1], i.s[2])
      [] i.m = "vpkd3d128" -> IF i.imm = 5 THEN PackHalves(v, i.d, i.s[1])
                              ELSE PackColour(v, i.d, i.s[1], i.imm)
      [] OTHER -> [v EXCEPT ![i.d] = Result(i)]

Record(i) == /\ i.m \in DOMAIN AllCompares
             /\ i.imm = 1
             /\ AllCompares[i.m].masked # 0
-----------------------------------------------------------------------------
(* The instructions the code accounts for the reversal in, and the operands *)
(* they have: registers of a set R, immediates as wide as they are encoded. *)
(* vavgsw, vpkuhus and vslo do not what the console does, whatever their    *)
(* operands; vcmpbfp. looks at the sign of a lane only, vcmpgtub. and       *)
(* vcmpgtuh. set no CR6; and what is printed as several statements reads    *)
(* its first source after it has written the destination.                   *)

Reads(i, n, R) == i.s \in [1 .. n -> R]

Accounted(i, R) ==
    /\ i.d \in R
    /\ \/ /\ i.m \in DOMAIN Lanes \ {"vavgsw"}
          /\ Reads(i, Len(Lanes[i.m].src), R)
          /\ i.m \in {"vmaddfp", "vnmsubfp"} => i.imm = 0
       \/ /\ i.m \in DOMAIN AllCompares
          /\ Reads(i, 2, R)
          /\ i.imm = 1 => i.m \notin {"vcmpbfp", "vcmpgtub", "vcmpgtuh"}
       \/ /\ i.m \in DOMAIN Shifts \cup MergeInsns \cup (PacksByIntrinsic \ {"vpkuhus"})
                   \cup {"vmsum3fp128", "vmsum4fp128", "vsl", "vsr"}
          /\ Reads(i, 2, R)
       \/ i.m \in UnpackInsns \cup {"vupkd3d128"} /\ Reads(i, 1, R)
       \/ i.m \in {"vsel", "vperm"} /\ Reads(i, 3, R)
       \/ i.m = "vpermwi128" /\ Reads(i, 1, R) /\ i.imm \in 0 .. 255
       \/ i.m = "vrlimi128" /\ Reads(i, 1, R) /\ i.imm \in 0 .. 63
       \/ i.m = "vsldoi" /\ Reads(i, 2, R) /\ i.imm \in 0 .. 15
       \/ i.m = "vspltb" /\ Reads(i, 1, R) /\ i.imm \in 0 .. 15
       \/ i.m = "vsplth" /\ Reads(i, 1, R) /\ i.imm \in 0 .. 7
       \/ i.m = "vspltw" /\ Reads(i, 1, R) /\ i.imm \in 0 .. 3
       \/ i.m \in DOMAIN PacksByLoop /\ Reads(i, 2, R) /\ i.s[1] # i.d
       \/ i.m = "vpkd3d128" /\ Reads(i, 1, R) /\ i.imm \in 0 .. 3
       \/ i.m = "vpkd3d128" /\ Reads(i, 1, R) /\ i.imm = 5 /\ i.s[1] # i.d
       \/ i.m \in {"lvlx", "lvrx", "lvsl", "lvsr", "lvx"} /\ i.ea \in Nat
       \/ i.m \in StoreInsns /\ Reads(i, 1, R) /\ i.ea \in Nat

\* What the programs are: instructions the code accounts for.
ASSUME ListingsAssumption ==
    \A p \in Listings : /\ Len(p) \in Nat
                        /\ \A n \in 1 .. Len(p), f \in Files : Accounted(p[n], DOMAIN f)

\* The controls of a permutation and the counts of a shift, wherever the
\* program has come to: numbers, not what another instruction made of bytes.
Controlled(i) ==
    /\ i.m = "vperm" => \A n \in Bytes : v[i.s[3]][n][2] \in Int
    /\ i.m \in {"vsl", "vsr"} => \A n \in Bytes : v[i.s[2]][n][2] \in Int
ControlsKnown == pc <= Len(prog) => Controlled(prog[pc])
-----------------------------------------------------------------------------
UnitInit ==
    /\ prog \in Listings
    /\ pc = 1
    /\ v \in {[r \in DOMAIN f |-> Reversed(f[r])] : f \in Files}
    /\ mem = Memory
    /\ cr6 = {}

Store(i) ==
    /\ i.m \in StoreInsns
    /\ mem' = Over(Stored(i.m, v[i.s[1]], i.ea), mem)
    /\ UNCHANGED <<v, cr6>>

Calculate(i) ==
    /\ i.m \notin StoreInsns
    /\ v' = File(i)
    /\ cr6' = IF Record(i) THEN SetFromMask(Result(i), AllCompares[i.m].masked) ELSE cr6
    /\ UNCHANGED mem

UnitNext ==
    /\ pc <= Len(prog)
    /\ pc' = pc + 1
    /\ UNCHANGED prog
    /\ Store(prog[pc]) \/ Calculate(prog[pc])

UnitSpec == UnitInit /\ [][UnitNext]_unitVars

-----------------------------------------------------------------------------
Guest == INSTANCE GuestVectors
             WITH gv <- [r \in DOMAIN v |-> Reversed(v[r])], gmem <- mem, gcr6 <- cr6

\* Seen with every register reversed, the host does what the console does:
\* no instruction puts a byte into the wrong lane, or reads it from one, in
\* any of the cases of recompiler.cpp that account for the reversal.
ImplementsGuest == Guest!Spec
=============================================================================
