----------------------------- MODULE VectorTerms -----------------------------
(***************************************************************************)
(* What GuestVectors and VectorUnit share: a byte of a vector is a symbolic *)
(* value. What an instruction computes from lanes is an uninterpreted term, *)
(* equal to another one only if the operation, the immediate, the lanes it  *)
(* reads and the byte of the result are. That abstracts the arithmetic and  *)
(* keeps which byte of which lane goes where, which is all a reversed       *)
(* vector can get wrong. A lane is a function from the significance of a    *)
(* byte (0 the least) to the byte, whatever order a vector keeps them in.   *)
(***************************************************************************)
EXTENDS Integers, Sequences

Bytes == 0 .. 15

Reversed(vec) == [i \in Bytes |-> vec[15 - i]]

Const(n) == <<"const", n>>
Zero == Const(0)

ZeroLane(lane) == \A k \in DOMAIN lane : lane[k] = Zero

\* Byte k of what operation op makes of lanes args and an immediate; the
\* algebra idioms rely on: x | 0 = x, x | x = x, x ^ x = 0.
Term(op, imm, args, k) ==
    CASE op = "or" /\ ZeroLane(args[1])    -> args[2][k]
      [] op = "or" /\ ZeroLane(args[2])    -> args[1][k]
      [] op = "or" /\ args[1] = args[2]    -> args[1][k]
      [] op = "xor" /\ args[1] = args[2]   -> Zero
      [] op = "trunc"                      -> args[1][k]
      [] OTHER                             -> <<op, imm, args, k>>

\* The lane a byte of a comparison belongs to: all its bytes are alike.
LaneOf(byte) == IF Len(byte) = 4 THEN SubSeq(byte, 1, 3) ELSE byte

\* A byte put together from bits: bits[t] = <<byte, u>> is bit u of a byte.
NoBit == <<Zero, 0>>
ByteOf(bits) ==
    LET b == bits[0][1]
    IN  IF bits \in {[t \in 0 .. 7 |-> <<b, t>>], [t \in 0 .. 7 |-> NoBit]} THEN b
        ELSE <<"bits", bits>>

\* What f has, and what g has elsewhere.
Over(f, g) == [x \in DOMAIN f \cup DOMAIN g |-> IF x \in DOMAIN f THEN f[x] ELSE g[x]]

\* Shapes of instructions: m is the mnemonic, d the destination, s the source
\* registers, imm an immediate, ea an effective address.
Insn(m, d, s, imm, ea) == [m |-> m, d |-> d, s |-> s, imm |-> imm, ea |-> ea]
=============================================================================
