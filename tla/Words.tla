-------------------------------- MODULE Words --------------------------------
(***************************************************************************)
(* Numbers of a fixed width and the bits they are made of. A word has W     *)
(* bits, a doubleword, which is a register, 2 * W; a byte has W / 4. The    *)
(* program has W = 32.                                                      *)
(***************************************************************************)
EXTENDS Integers, FiniteSetsExt

CONSTANT W

ASSUME WAssumption == W \in Nat \ {0} /\ W % 4 = 0

Word == 2 ^ W
DWord == 2 ^ (2 * W)
Byte == 2 ^ (W \div 4)

\* The lowest n bits of x, and what they are as a two's complement.
Low(n, x) == x % 2 ^ n
Signed(n, x) == IF Low(n, x) < 2 ^ (n - 1) THEN Low(n, x) ELSE Low(n, x) - 2 ^ n

\* Tables, so that a number's bits are worked out once.
BitsOf == [x \in 0 .. DWord - 1 |-> {k \in 0 .. 2 * W - 1 : (x \div 2 ^ k) % 2 = 1}]
NumberOf == [S \in SUBSET (0 .. 2 * W - 1) |-> CHOOSE x \in 0 .. DWord - 1 : BitsOf[x] = S]

And(x, y) == NumberOf[BitsOf[x] \cap BitsOf[y]]
Or(x, y) == NumberOf[BitsOf[x] \cup BitsOf[y]]
Not(x) == DWord - 1 - x
Xor(x, y) == NumberOf[(BitsOf[x] \ BitsOf[y]) \cup (BitsOf[y] \ BitsOf[x])]

Bit(p) == IF p THEN 1 ELSE 0

\* Bytes of a number, byte 0 the least significant, and the number they make.
ByteOf(x, k) == (x \div 2 ^ (k * (W \div 4))) % Byte
FromBytes(n, b) ==
    LET from[k \in 0 .. n] == IF k = n THEN 0 ELSE b[k] + Byte * from[k + 1]
    IN  from[0]

\* What f has, and what g has elsewhere: bytes stored over a memory.
Over(f, g) == [x \in DOMAIN f \cup DOMAIN g |-> IF x \in DOMAIN f THEN f[x] ELSE g[x]]

\* An instruction: mnemonic, destination, sources, immediate, record form.
Insn(m, d, a, b, imm, rc) == [m |-> m, d |-> d, a |-> a, b |-> b, imm |-> imm, rc |-> rc]
Rotation(sh, mb, me) == [sh |-> sh, mb |-> mb, me |-> me]
=============================================================================
