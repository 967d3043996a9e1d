----------------------------- MODULE GuestVectors -----------------------------
(***************************************************************************)
(* What the vector instructions of the console do to its registers and its  *)
(* memory: byte 0 of a register is its most significant one, lane 0 holds   *)
(* byte 0, and memory is big-endian. VectorUnit, which keeps every register *)
(* the other way round, is shown to implement this module. Nothing here is  *)
(* in src/: it is the architecture the recompiled instructions have to      *)
(* imitate, as far as the game code recompiled uses it.                     *)
(***************************************************************************)
EXTENDS VectorTerms

VARIABLES
    gv, gmem, gcr6,  \* the vector registers, the memory, CR6
    prog, pc         \* the program and the position of the next instruction

vars == <<gv, gmem, gcr6, prog, pc>>

-----------------------------------------------------------------------------
\* Lane j of width w, and the register made of lanes Result(j).
Lane(x, w, j) == [k \in 0 .. w - 1 |-> x[w * j + (w - 1 - k)]]
FromLanes(w, Result(_)) == [i \in Bytes |-> Result(i \div w)[w - 1 - (i % w)]]

\* Instructions that work on each lane by itself: operation and lane width.
Add == [vaddfp |-> <<"addf", 4>>, vaddshs |-> <<"adds_s", 2>>,
        vaddubm |-> <<"add", 1>>, vaddubs |-> <<"adds_u", 1>>,
        vadduhm |-> <<"add", 2>>, vadduwm |-> <<"add", 4>>,
        vadduws |-> <<"adds_u", 4>>, vaddsbs |-> <<"adds_s", 1>>,
        vaddsws |-> <<"adds_s", 4>>, vadduhs |-> <<"adds_u", 2>>]
Subtract == [vsubfp |-> <<"subf", 4>>, vsubshs |-> <<"subs_s", 2>>,
             vsubsws |-> <<"subs_s", 4>>, vsububs |-> <<"subs_u", 1>>,
             vsubuhm |-> <<"sub", 2>>, vsubsbs |-> <<"subs_s", 1>>,
             vsububm |-> <<"sub", 1>>]
BitOps == [vand |-> <<"and", 1>>, vandc |-> <<"andc", 1>>,
            vor |-> <<"or", 1>>, vnor |-> <<"nor", 1>>, vxor |-> <<"xor", 1>>]
Average == [vavgsb |-> <<"avg_s", 1>>, vavgsh |-> <<"avg_s", 2>>,
            vavgsw |-> <<"avg_s", 4>>, vavgub |-> <<"avg_u", 1>>,
            vavguh |-> <<"avg_u", 2>>]
MinMax == [vmaxfp |-> <<"maxf", 4>>, vmaxsh |-> <<"max_s", 2>>,
           vmaxsw |-> <<"max_s", 4>>, vmaxuh |-> <<"max_u", 2>>,
           vminfp |-> <<"minf", 4>>, vminsh |-> <<"min_s", 2>>,
           vminuh |-> <<"min_u", 2>>, vminsw |-> <<"min_s", 4>>]
Float == [vctsxs |-> <<"to_s", 4>>, vctuxs |-> <<"to_u", 4>>,
          vcfsx |-> <<"from_s", 4>>, vcfux |-> <<"from_u", 4>>,
          vexptefp |-> <<"exp2", 4>>, vlogefp |-> <<"log2", 4>>,
          vrefp |-> <<"recip", 4>>, vrsqrtefp |-> <<"rsqrt", 4>>,
          vrfim |-> <<"floor", 4>>, vrfin |-> <<"nearest", 4>>,
          vrfiz |-> <<"trunc_f", 4>>, vmulfp128 |-> <<"mulf", 4>>]
Splat == [vspltisb |-> <<"imm", 1>>, vspltish |-> <<"imm", 2>>,
          vspltisw |-> <<"imm", 4>>]
Lanewise == Over(Add, Over(Subtract, Over(BitOps, Over(Average, Over(MinMax, Over(Float, Splat))))))

\* Comparisons; the record forms set CR6 from all lanes of the result.
Compare == [vcmpbfp |-> <<"bounds", 4>>, vcmpeqfp |-> <<"eqf", 4>>,
            vcmpequb |-> <<"eq", 1>>, vcmpequh |-> <<"eq", 2>>,
            vcmpequw |-> <<"eq", 4>>, vcmpgefp |-> <<"gef", 4>>,
            vcmpgtfp |-> <<"gtf", 4>>, vcmpgtub |-> <<"gt_u", 1>>,
            vcmpgtuh |-> <<"gt_u", 2>>, vcmpgtsh |-> <<"gt_s", 2>>,
            vcmpgtsw |-> <<"gt_s", 4>>]

\* Shifts by the low bits of the lane of the second operand.
Shift == [vslb |-> <<"shl", 1>>, vslh |-> <<"shl", 2>>, vslw |-> <<"shl", 4>>,
          vsrh |-> <<"shr", 2>>, vsrw |-> <<"shr", 4>>, vsrab |-> <<"sar", 1>>,
          vsrah |-> <<"sar", 2>>, vsraw |-> <<"sar", 4>>, vrlh |-> <<"rol", 2>>]

\* Packs narrow the lanes of both operands, the first operand's first.
Pack == [vpkshss |-> <<"sat_ss", 2>>, vpkshus |-> <<"sat_su", 2>>,
         vpkswss |-> <<"sat_ss", 4>>, vpkswus |-> <<"sat_su", 4>>,
         vpkuhum |-> <<"trunc", 2>>, vpkuhus |-> <<"sat_uu", 2>>,
         vpkuwum |-> <<"trunc", 4>>, vpkuwus |-> <<"sat_uu", 4>>]
\* Unpacks widen the lanes of the high or the low half of one operand.
Unpack == [vupkhsb |-> <<1, 0>>, vupkhsh |-> <<2, 0>>,
           vupklsb |-> <<1, 8>>, vupklsh |-> <<2, 4>>]
\* Merges interleave the high or the low halves of the operands.
Merge == [vmrghb |-> <<1, 0>>, vmrghh |-> <<2, 0>>, vmrghw |-> <<4, 0>>,
          vmrglb |-> <<1, 8>>, vmrglh |-> <<2, 4>>, vmrglw |-> <<4, 2>>]

\* Multiply-add and select combine three operands lane by lane.
MultiplyAdd == [vmaddfp |-> <<"madd", 4>>, vnmsubfp |-> <<"nmsub", 4>>]
-----------------------------------------------------------------------------
Exec3(m, a, b, c) ==
    IF m = "vsel"
    THEN FromLanes(1, LAMBDA j : [k \in {0} |-> Term("or", 0,
             <<[z \in {0} |-> Term("andc", 0, <<Lane(a, 1, j), Lane(c, 1, j)>>, 0)],
               [z \in {0} |-> Term("and", 0, <<Lane(c, 1, j), Lane(b, 1, j)>>, 0)]>>, 0)])
    ELSE IF m = "vperm"
    THEN [i \in Bytes |-> LET n == c[i][2] % 32 IN IF n < 16 THEN a[n] ELSE b[n - 16]]
    ELSE FromLanes(4, LAMBDA j : [k \in 0 .. 3 |-> Term(MultiplyAdd[m][1], 0,
             <<Lane(a, 4, j), Lane(b, 4, j), Lane(c, 4, j)>>, k)])

LanewiseResult(entry, imm, args) ==
    FromLanes(entry[2], LAMBDA j : [k \in 0 .. entry[2] - 1 |->
        Term(entry[1], imm, [n \in DOMAIN args |-> Lane(args[n], entry[2], j)], k)])

ShiftResult(entry, a, b) ==
    FromLanes(entry[2], LAMBDA j : [k \in 0 .. entry[2] - 1 |->
        Term(entry[1], 0, <<Lane(a, entry[2], j), [z \in {0} |-> Lane(b, entry[2], j)[0]]>>, k)])

PackResult(entry, a, b) ==
    LET w == entry[2]
        n == 16 \div w
    IN  FromLanes(w \div 2, LAMBDA j : [k \in 0 .. (w \div 2) - 1 |->
            Term(entry[1], 0, <<IF j < n THEN Lane(a, w, j) ELSE Lane(b, w, j - n)>>, k)])

UnpackResult(entry, a) ==
    FromLanes(2 * entry[1], LAMBDA j : [k \in 0 .. 2 * entry[1] - 1 |->
        Term("sext", 0, <<Lane(a, entry[1], entry[2] + j)>>, k)])

MergeResult(entry, a, b) ==
    FromLanes(entry[1], LAMBDA j : Lane(IF j % 2 = 0 THEN a ELSE b,
                                        entry[1], entry[2] + (j \div 2)))

\* The sum of the products of the first n lanes, in all lanes.
DotProduct(n, a, b) ==
    FromLanes(4, LAMBDA j : [k \in 0 .. 3 |->
        Term("dot", 0, {<<Lane(a, 4, i), Lane(b, 4, i)>> : i \in 0 .. n - 1}, k)])

\* Rotate the lanes of the source left, insert those the mask selects.
RotateInsert(d, a, mask, z) ==
    [i \in Bytes |-> IF (mask \div (2 ^ (3 - (i \div 4)))) % 2 = 1
                     THEN a[(i + 4 * z) % 16] ELSE d[i]]

\* A colour: x y z w in four lanes, packed as w x y z in lane 3 - shift.
PackColour(d, a, shift) ==
    [i \in Bytes |->
        IF i \div 4 = 3 - shift
        THEN Term("pack_colour", 0, <<Lane(a, 4, ((i % 4) + 3) % 4)>>, 0) ELSE d[i]]
UnpackColour(a) ==
    FromLanes(4, LAMBDA j : [k \in 0 .. 3 |->
        Term("unpack_colour", 0, <<[z \in {0} |-> a[12 + ((j + 1) % 4)]]>>, k)])
\* Four halves in the first eight bytes of the result.
PackHalves(d, a) ==
    [i \in Bytes |-> IF i < 8 THEN Term("half", 0, <<Lane(a, 4, i \div 2)>>, 1 - (i % 2))
                     ELSE d[i]]
UnpackShorts(a) ==
    FromLanes(4, LAMBDA j : [k \in 0 .. 3 |->
        IF j < 2 THEN Term("short_plus_3", 0, <<Lane(a, 2, 6 + j)>>, k)
        ELSE Term(IF j = 2 THEN "float_0" ELSE "float_1", 0, <<>>, k)])

\* Shifts of the whole register to the left, by bytes and by bits.
ShiftOctets(a, n) == [i \in Bytes |-> IF i + n < 16 THEN a[i + n] ELSE Zero]
ShiftBits(a, n) ==
    [i \in Bytes |-> ByteOf([t \in 0 .. 7 |->
        LET p == 8 * (15 - i) + t - n
        IN  IF p \in 0 .. 127 THEN <<a[15 - (p \div 8)], p % 8>> ELSE NoBit])]

\* Words, bytes and halfwords picked by an immediate; two registers in a row.
PermuteWords(a, imm) == [n \in Bytes |-> a[4 * ((imm \div (4 ^ (3 - (n \div 4)))) % 4) + (n % 4)]]
SplatByte(a, k) == [n \in Bytes |-> a[k]]
SplatHalf(a, k) == [n \in Bytes |-> a[2 * k + (n % 2)]]
SplatWord(a, k) == [n \in Bytes |-> a[4 * k + (n % 4)]]
ShiftDouble(a, b, k) == [n \in Bytes |-> IF n + k < 16 THEN a[n + k] ELSE b[n + k - 16]]

\* The controls of a permutation that aligns, and loads: the aligned line of
\* an address, and its parts behind and in front of the address.
Loads == {"lvsl", "lvsr", "lvx", "lvlx", "lvrx"}
LoadResult(m, ea) ==
    LET off == ea % 16
    IN  CASE m = "lvsl" -> [n \in Bytes |-> Const(off + n)]
          [] m = "lvsr" -> [n \in Bytes |-> Const(16 - off + n)]
          [] m = "lvx"  -> [n \in Bytes |-> gmem[ea - off + n]]
          [] m = "lvlx" -> [n \in Bytes |-> IF n < 16 - off THEN gmem[ea + n] ELSE Zero]
          [] m = "lvrx" -> [n \in Bytes |-> IF n >= 16 - off THEN gmem[ea - 16 + n] ELSE Zero]

\* What an instruction that only reads registers leaves in its destination.
RegisterResult(i) ==
    LET a == gv[i.s[1]]
        b == gv[i.s[2]]
    IN  CASE i.m \in DOMAIN Lanewise -> LanewiseResult(Lanewise[i.m], i.imm, [n \in DOMAIN i.s |-> gv[i.s[n]]])
          [] i.m \in DOMAIN Compare  -> LanewiseResult(Compare[i.m], 0, <<a, b>>)
          [] i.m \in DOMAIN Shift    -> ShiftResult(Shift[i.m], a, b)
          [] i.m \in DOMAIN Pack     -> PackResult(Pack[i.m], a, b)
          [] i.m \in DOMAIN Unpack   -> UnpackResult(Unpack[i.m], a)
          [] i.m \in DOMAIN Merge    -> MergeResult(Merge[i.m], a, b)
          [] i.m \in DOMAIN MultiplyAdd \cup {"vsel", "vperm"} -> Exec3(i.m, a, b, gv[i.s[3]])
          [] i.m = "vmsum3fp128"     -> DotProduct(3, a, b)
          [] i.m = "vmsum4fp128"     -> DotProduct(4, a, b)
          [] i.m = "vpermwi128"      -> PermuteWords(a, i.imm)
          [] i.m = "vrlimi128"       -> RotateInsert(gv[i.d], a, i.imm \div 4, i.imm % 4)
          [] i.m = "vsldoi"          -> ShiftDouble(a, b, i.imm)
          [] i.m = "vslo"            -> ShiftOctets(a, (b[15][2] \div 8) % 16)
          [] i.m = "vsl"             -> ShiftBits(a, b[15][2] % 8)
          [] i.m = "vsr"             -> ShiftBits(a, -(b[15][2] % 8))
          [] i.m = "vspltb"          -> SplatByte(a, i.imm)
          [] i.m = "vsplth"          -> SplatHalf(a, i.imm)
          [] i.m = "vspltw"          -> SplatWord(a, i.imm)
          [] i.m = "vpkd3d128"       -> IF i.imm = 5 THEN PackHalves(gv[i.d], a) ELSE PackColour(gv[i.d], a, i.imm)
          [] i.m = "vupkd3d128"      -> IF i.imm = 0 THEN UnpackColour(a) ELSE UnpackShorts(a)
          [] i.m \in Loads           -> LoadResult(i.m, i.ea)

Stores == {"stvx", "stvlx", "stvrx", "stvehx", "stvewx"}

\* The bytes a store puts into memory, a partial function of the address.
StoreResult(i) ==
    LET x == gv[i.s[1]]
        off == i.ea % 16
        at(w) == [n \in (i.ea - (i.ea % w)) .. (i.ea - (i.ea % w) + w - 1) |-> x[n % 16]]
    IN  CASE i.m = "stvx"   -> [n \in (i.ea - off) .. (i.ea - off + 15) |-> x[n % 16]]
          [] i.m = "stvlx"  -> [n \in i.ea .. (i.ea + 15 - off) |-> x[n - i.ea]]
          [] i.m = "stvrx"  -> [n \in (i.ea - off) .. (i.ea - 1) |-> x[n + 16 - i.ea]]
          [] i.m = "stvehx" -> at(2)
          [] i.m = "stvewx" -> at(4)

\* The result of a shift by bits is undefined unless all bytes of the second
\* operand agree about the number of bits.
Undefined(i) ==
    /\ i.m \in {"vsl", "vsr"}
    /\ \E n \in Bytes : gv[i.s[2]][n][2] % 8 # gv[i.s[2]][0][2] % 8

Executes(i) ==
    IF i.m \in Stores
    THEN /\ gmem' = Over(StoreResult(i), gmem)
         /\ UNCHANGED <<gv, gcr6>>
    ELSE IF Undefined(i)
    THEN /\ \A r \in DOMAIN gv \ {i.d} : gv'[r] = gv[r]
         /\ UNCHANGED <<gmem, gcr6>>
    ELSE /\ gv' = [gv EXCEPT ![i.d] = RegisterResult(i)]
         /\ gcr6' = IF i.m \in DOMAIN Compare /\ i.imm = 1
                    THEN {LaneOf(RegisterResult(i)[n]) : n \in Bytes} ELSE gcr6
         /\ UNCHANGED gmem

Next == /\ pc <= Len(prog)
        /\ pc' = pc + 1
        /\ UNCHANGED prog
        /\ Executes(prog[pc])

\* Whatever the registers, the memory and the program are at the start.
Spec == TRUE /\ [][Next]_vars
=============================================================================
