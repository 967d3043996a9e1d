---------------------------- MODULE MCDisassembler ----------------------------
(***************************************************************************)
(* Every option and condition of a branch, with and without link, relative *)
(* and absolute, forward and backward; every operand of the table with the *)
(* values that have one bit set, one bit clear, none and all; every mask   *)
(* of a rotate instruction that is a run of ones, and some that are not.   *)
(***************************************************************************)
EXTENDS Disassembler

MCOptionSets == {{"cell", "64"}, {"64"}}

MCMemaddr == 33554432 \* the middle of what a word can branch over

MCLeftovers == {[i \in 1 .. 8 |-> 0], [i \in 1 .. 8 |-> 5]}

Links == {{}, {0}}

Fields == {At(bo, 21) \cup At(bi, 16) : bo \in 0 .. 31, bi \in {0, 1, 2, 3, 6, 9, 12, 31}}

MCCodes ==
  {OP(16) \cup f \cup l \cup a \cup d : f \in Fields, l \in Links, a \in {{}, {1}},
                                      d \in {{3}, 3 .. 15}}
    \cup {OP(19) \cup At(x, 1) \cup f \cup l \cup h : f \in Fields, l \in Links, x \in {16, 528},
                                                 h \in {{}, {11}}}
    \cup {OP(18) \cup l \cup a \cup d : l \in Links, a \in {{}, {1}}, d \in {{2}, {25}, 3 .. 25}}
    \cup {{}, OP(17)}

\* Single bits, their complements, none and all, of values lo .. hi.
Walking(bits) ==
  LET sets == {{}, bits} \cup {{b} : b \in bits} \cup {bits \ {b} : b \in bits}
  IN  {Value(s) : s \in sets}

Unsigned(o) ==
  CASE o.by = "plain" -> Walking(o.piece[1] .. o.piece[2])
    [] o.by \in {"bdm", "bdp"} -> Walking(2 .. 15)
    [] o.by \in {"bo", "boe"} -> 0 .. 31
    [] o.by \in {"fxm", "vperm"} -> Walking(0 .. 7)
    [] o.by = "mb6" -> 0 .. 63
    [] o.by = "sh6" -> 0 .. 63
    [] o.by = "nb" -> 1 .. 32
    [] o.by = "nsi" -> Walking(0 .. 15)
    [] o.by \in {"raq", "ral", "ram", "ras"} -> 0 .. 31
    [] o.by \in {"spr", "tbr"} -> Walking(0 .. 9) \cup {TB}
    [] o.by = "sprg" -> 0 .. 7
    [] o.by \in {"vds128", "va128", "vb128"} -> 0 .. 127
    [] OTHER -> {0}

Top(o) == IF o.by = "plain" THEN o.piece[2] ELSE 15

MCSamples ==
  [name \in DOMAIN Operands |->
     LET o == Operands[name]
         signed == {SignExtend(v, Top(o)) : v \in Unsigned(o)}
     IN  CASE o.by = "nsi" -> {-v : v \in signed}
           [] "SIGNED" \in o.flags -> signed
           [] OTHER -> Unsigned(o)]

\* The bits outside the operand that its insertion or extraction looks at.  A
\* hint goes with the options that can have one.
MCBases ==
  [name \in DOMAIN Operands |->
     LET by == Operands[name].by
     IN  CASE by \in {"bdm", "bdp"} -> {At(bo, 21) : bo \in {4, 12, 16, 18}}
           [] by = "fxm" -> {{}, {20}, {1, 2, 5}, {1, 2, 5, 20}, {4}}
           [] by \in {"raq", "ral", "ram", "bat", "rbs"} -> {At(r, 21) : r \in {0, 1, 9, 31}}
           [] by = "bba" -> {At(r, 16) : r \in {0, 1, 9, 31}}
           [] by = "sprg" -> {{}, {8}}
           [] OTHER -> {{}}]

Run(first, length) == {(first + i) % 32 : i \in 0 .. length - 1}

MCMasks ==
  {Run(i, n) : i \in 0 .. 31, n \in 0 .. 32}
    \cup {Run(i, 3) \cup Run(j, 2) : i \in 0 .. 31, j \in {0, 5, 30}}
===============================================================================
