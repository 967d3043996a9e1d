----------------------------- MODULE MCVectorUnit -----------------------------
(***************************************************************************)
(* Instances of VectorUnit: every instruction alone, with its sources and   *)
(* its destination the same register or different ones, and the sequences   *)
(* by which games access memory at any address. Left out are the            *)
(* instructions and operands that are not Accounted for. Registers 0 to 2   *)
(* hold distinct bytes, register 3 what controls vperm and counts shifts.   *)
(***************************************************************************)
EXTENDS VectorUnit

Name(r) == CASE r = 0 -> "a" [] r = 1 -> "b" [] r = 2 -> "c"

Controls == {[i \in Bytes |-> Const(n)] : n \in {0, 13, 23}}
            \cup {[i \in Bytes |-> Const((7 * i + 5) % 32)]}

MCFiles == {[r \in 0 .. 3 |-> IF r = 3 THEN c ELSE [i \in Bytes |-> <<Name(r), i>>]] : c \in Controls}

MCMemory == [n \in 0 .. 63 |-> <<"m", n>>]

\* Not what the console does, whatever the operands.
Known == {"vavgsw", "vpkuhus", "vslo"}

-----------------------------------------------------------------------------
(* The destination is register 0, the sources are any of n registers.       *)

Sources(n) == CASE n = 0 -> {<<>>}
                [] n = 1 -> {<<0>>, <<1>>}
                [] n = 2 -> {<<0, 1>>, <<1, 0>>, <<1, 2>>, <<2, 2>>}
                [] n = 3 -> {<<0, 1, 2>>, <<1, 2, 0>>}

Forms(ms, ss, imms) == {Insn(m, 0, s, imm, 0) : m \in ms, s \in ss, imm \in imms}

OnLanes ==
    UNION {Forms({m}, Sources(Len(Lanes[m].src)),
                 IF m \in DOMAIN LanesConvert \cup {"vspltisb", "vspltish", "vspltisw"} THEN {0, 3} ELSE {0}) :
           m \in DOMAIN Lanes \ Known}

\* vcmpbfp. looks at the sign of a lane only; vcmpgtub. and vcmpgtuh. set no CR6.
Comparing ==
    Forms(DOMAIN AllCompares, Sources(2), {0})
    \cup Forms(DOMAIN AllCompares \ {"vcmpbfp", "vcmpgtub", "vcmpgtuh"}, Sources(2), {1})

Moving ==
    Forms(DOMAIN Shifts \cup MergeInsns \cup (PacksByIntrinsic \ Known)
          \cup {"vmsum3fp128", "vmsum4fp128"}, Sources(2), {0})
    \cup Forms(UnpackInsns, Sources(1), {0})
    \cup Forms({"vsldoi"}, Sources(2), 0 .. 15)
    \cup Forms({"vspltb"}, Sources(1), 0 .. 15)
    \cup Forms({"vsplth"}, Sources(1), 0 .. 7)
    \cup Forms({"vspltw"}, Sources(1), 0 .. 3)
    \cup Forms({"vpermwi128"}, Sources(1), {0, 27, 57, 210, 228})
    \cup Forms({"vrlimi128"}, Sources(1), 0 .. 63)
    \cup Forms({"vupkd3d128"}, Sources(1), {0, 1})
    \cup Forms({"vsel"}, Sources(3), {0})
    \cup Forms({"vperm"}, {<<0, 1, 3>>, <<1, 2, 3>>}, {0})
    \cup Forms({"vsl", "vsr"}, {<<0, 3>>, <<1, 3>>}, {0})

\* The first source of these is not the destination: it is read after the
\* destination was written.
Looping ==
    Forms(DOMAIN PacksByLoop, Sources(2) \ {<<0, 1>>}, {0})
    \cup Forms({"vpkd3d128"}, {<<1>>}, {0, 1, 2, 3, 5}) \cup Forms({"vpkd3d128"}, {<<0>>}, {0, 1, 2, 3})

Accessing ==
    {Insn(m, 0, <<1>>, 0, ea) : m \in StoreInsns, ea \in 16 .. 31}
    \cup {Insn(m, 0, <<>>, 0, ea) : m \in {"lvx", "lvlx", "lvrx", "lvsl", "lvsr"}, ea \in 16 .. 31}

Single == OnLanes \cup Comparing \cup Moving \cup Looping \cup Accessing

-----------------------------------------------------------------------------
(* Sequences, with what is at addresses ea .. ea + 15 in register 0.        *)

LoadAligned(ea) == <<Insn("lvx", 1, <<>>, 0, ea), Insn("lvx", 2, <<>>, 0, ea + 15),
                     Insn("lvsl", 3, <<>>, 0, ea), Insn("vperm", 0, <<1, 2, 3>>, 0, 0)>>
LoadLeftRight(ea) == <<Insn("lvlx", 1, <<>>, 0, ea), Insn("lvrx", 2, <<>>, 0, ea + 16),
                       Insn("vor", 0, <<1, 2>>, 0, 0)>>
StoreLeftRight(ea) == <<Insn("stvlx", 0, <<0>>, 0, ea), Insn("stvrx", 0, <<0>>, 0, ea + 16)>>
\* Registers 1 and 2 take the bytes of 0 with zeros in front of each.
WidenAndNarrow == <<Insn("vxor", 3, <<3, 3>>, 0, 0), Insn("vmrghb", 1, <<3, 0>>, 0, 0),
                    Insn("vmrglb", 2, <<3, 0>>, 0, 0), Insn("vpkuhum", 0, <<1, 2>>, 0, 0)>>

Loading == {LoadAligned(ea) : ea \in 16 .. 31} \cup {LoadLeftRight(ea) : ea \in 16 .. 31}

MCPrograms == {<<i>> : i \in Single} \cup Loading \cup {StoreLeftRight(ea) : ea \in 16 .. 31} \cup {WidenAndNarrow}

Done == pc > Len(prog)

\* What two aligned loads and a permutation, or a left and a right load, put
\* together is what the memory holds at the address, at every alignment.
UnalignedLoads ==
    Done /\ prog \in Loading => Reversed(v[0]) = [n \in Bytes |-> mem[prog[1].ea + n]]

\* A left and a right store write the sixteen bytes at an address, at every
\* alignment, and not one byte more.
UnalignedStores ==
    \A ea \in 16 .. 31 : Done /\ prog = StoreLeftRight(ea) =>
        mem = [n \in DOMAIN Memory |-> IF n \in ea .. ea + 15 THEN v[0][15 - (n - ea)] ELSE Memory[n]]

\* Merging the bytes of a register with zeros, high and low half, and packing
\* the two halves gives the register back.
MergesAndPacksInvert ==
    Done /\ prog = WidenAndNarrow =>
        Reversed(v[0]) \in {f[0] : f \in Files}

\* The sequences compilers write for one purpose, of several instructions each,
\* serve it: unaligned vectors are loaded and stored as they are, and bytes
\* that were widened and narrowed are where they were.
SequencesMove == UnalignedLoads /\ UnalignedStores /\ MergesAndPacksInvert
=============================================================================
