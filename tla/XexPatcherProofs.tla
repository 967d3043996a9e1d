--------------------------- MODULE XexPatcherProofs ---------------------------
(***************************************************************************)
(* Theorems about XexPatcher, for every width of a word, file, title update *)
(* and list of compression blocks whose sizes fit into a word: a body that  *)
(* is decompressed where it is, from the last block to the first, overwrites*)
(* nothing that is still to be read and nothing outside of the room for the *)
(* image, and every block ends up in its place.                             *)
(***************************************************************************)
EXTENDS XexPatcher, FiniteSetTheorems, WellFoundedInduction, TLAPS

-----------------------------------------------------------------------------
(* Sums of sizes.                                                          *)

\* A set of natural numbers that is not empty has a least one.
LEMMA LeastNat ==
  ASSUME NEW T, T # {}, T \subseteq Nat
  PROVE  \E n \in T : \A m \in T : n <= m
<1> DEFINE R == OpToRel(<, Nat)
<1>1. PICK x \in T : \A y \in T : ~(<<y, x>> \in R)
  <2>. HIDE DEF R
  <2>1. IsWellFoundedOn(R, Nat)
    BY NatLessThanWellFounded DEF R
  <2>. QED
    BY <2>1, WFMin
<1>2. \A y \in T : ~(y < x)
  BY <1>1 DEF OpToRel
<1>. QED
  BY <1>2

\* s[n] is the sum of the first n sizes.
Adds(s, sizes, m) == s = [n \in 0 .. m |-> IF n = 0 THEN 0 ELSE s[n - 1] + sizes[n]]

LEMMA AddsExists ==
  ASSUME NEW sizes \in Seq(Nat), NEW m \in Nat, m <= Len(sizes)
  PROVE  \E s : Adds(s, sizes, m)
<1> DEFINE T == {n \in 0 .. Len(sizes) : ~ \E s : Adds(s, sizes, n)}
<1>. SUFFICES ASSUME T # {} PROVE FALSE
  OBVIOUS
<1>1. PICK n \in T : \A k \in T : n <= k
  <2>. HIDE DEF T
  <2>1. T \subseteq Nat
    BY DEF T
  <2>. QED
    BY <2>1, LeastNat
<1>2. CASE n = 0
  <2> DEFINE z == [k \in 0 .. 0 |-> 0]
  <2>1. z = [k \in 0 .. 0 |-> IF k = 0 THEN 0 ELSE z[k - 1] + sizes[k]]
    OBVIOUS
  <2>2. Adds(z, sizes, 0)
    BY <2>1 DEF Adds
  <2>. QED
    BY <1>2, <2>2
<1>3. CASE n # 0
  <2>1. n - 1 \in 0 .. Len(sizes) /\ ~(n <= n - 1) /\ n \in Nat
    BY <1>3
  <2>2. PICK s : Adds(s, sizes, n - 1)
    BY <1>1, <2>1
  <2> DEFINE t == [k \in 0 .. n |-> IF k = n THEN s[n - 1] + sizes[n] ELSE s[k]]
  <2>3. s = [k \in 0 .. n - 1 |-> IF k = 0 THEN 0 ELSE s[k - 1] + sizes[k]]
    BY <2>2 DEF Adds
  <2>4. ASSUME NEW k \in 0 .. n
        PROVE  t[k] = IF k = 0 THEN 0 ELSE t[k - 1] + sizes[k]
    <3>1. CASE k = n
      <4>1. n - 1 \in 0 .. n /\ n - 1 # n /\ t[n - 1] = s[n - 1]
        BY <2>1
      <4>. QED
        BY <3>1, <4>1, <1>3
    <3>2. CASE k # n
      <4>1. k \in 0 .. n - 1 /\ t[k] = s[k] /\ (k # 0 => k - 1 \in 0 .. n /\ k - 1 # n)
        BY <3>2, <2>1
      <4>2. s[k] = IF k = 0 THEN 0 ELSE s[k - 1] + sizes[k]
        BY <2>3, <4>1
      <4>3. k # 0 => t[k - 1] = s[k - 1]
        BY <4>1
      <4>. QED
        BY <4>1, <4>2, <4>3
    <3>. QED
      BY <3>1, <3>2
  <2>5. Adds(t, sizes, n)
    <3>1. t = [k \in 0 .. n |-> t[k]]
      OBVIOUS
    <3>. HIDE DEF t
    <3>2. t = [k \in 0 .. n |-> IF k = 0 THEN 0 ELSE t[k - 1] + sizes[k]]
      BY <3>1, <2>4
    <3>. QED
      BY <3>2 DEF Adds
  <2>. QED
    BY <2>5
<1>. QED
  BY <1>2, <1>3

LEMMA SumFacts ==
  ASSUME NEW sizes \in Seq(Nat)
  PROVE  LET s == PartialSums(sizes) IN
         /\ s[0] = 0
         /\ \A n \in 1 .. Len(sizes) : s[n] = s[n - 1] + sizes[n]
         /\ \A n \in 0 .. Len(sizes) : s[n] \in Nat
<1> DEFINE s == PartialSums(sizes)
<1>1. Adds(s, sizes, Len(sizes))
  <2>1. PICK t : Adds(t, sizes, Len(sizes))
    BY AddsExists
  <2>2. s = CHOOSE f : f = [n \in 0 .. Len(sizes) |-> IF n = 0 THEN 0 ELSE f[n - 1] + sizes[n]]
    BY Zenon DEF PartialSums
  <2>. QED
    BY <2>1, <2>2 DEF Adds
<1>. HIDE DEF s
<1>2. \A n \in 0 .. Len(sizes) : s[n] = IF n = 0 THEN 0 ELSE s[n - 1] + sizes[n]
  BY <1>1 DEF Adds
<1>3. s[0] = 0 /\ \A n \in 1 .. Len(sizes) : s[n] = s[n - 1] + sizes[n]
  BY <1>2
<1>4. \A n \in 0 .. Len(sizes) : s[n] \in Nat
  <2> DEFINE T == {n \in 0 .. Len(sizes) : s[n] \notin Nat}
  <2>. SUFFICES ASSUME T # {} PROVE FALSE
    OBVIOUS
  <2>1. PICK n \in T : \A k \in T : n <= k
    <3>. HIDE DEF T
    <3>1. T \subseteq Nat
      BY DEF T
    <3>. QED
      BY <3>1, LeastNat
  <2>2. n # 0
    BY <1>3
  <2>3. n - 1 \in 0 .. Len(sizes) /\ ~(n <= n - 1)
    BY <2>2
  <2>4. s[n - 1] \in Nat
    BY <2>1, <2>3
  <2>5. n \in 1 .. Len(sizes) /\ sizes[n] \in Nat
    BY <2>2
  <2>6. s[n] \in Nat
    BY <1>3, <2>4, <2>5
  <2>. QED
    BY <2>1, <2>6
<1>. QED
  BY <1>3, <1>4 DEF s

LEMMA BlockFacts ==
  ASSUME NEW blocks \in Seq(Nat \X Nat)
  PROVE  LET D == DataSizes(blocks)
             B == BasicSizes(blocks)
         IN  /\ D[0] = 0 /\ B[0] = 0
             /\ \A n \in 1 .. Len(blocks) :
                  /\ blocks[n][1] \in Nat /\ blocks[n][2] \in Nat
                  /\ D[n] = D[n - 1] + blocks[n][1]
                  /\ B[n] = B[n - 1] + (blocks[n][1] + blocks[n][2])
             /\ \A n \in 0 .. Len(blocks) : D[n] \in Nat /\ B[n] \in Nat
<1> DEFINE d == [n \in DOMAIN blocks |-> blocks[n][1]]
           b == [n \in DOMAIN blocks |-> blocks[n][1] + blocks[n][2]]
<1>1. \A n \in 1 .. Len(blocks) : blocks[n][1] \in Nat /\ blocks[n][2] \in Nat
  <2>1. \A n \in 1 .. Len(blocks) : blocks[n] \in Nat \X Nat
    OBVIOUS
  <2>. QED
    BY <2>1
<1>2. DOMAIN blocks = 1 .. Len(blocks) /\ Len(blocks) \in Nat
  OBVIOUS
<1>3. d \in Seq(Nat) /\ Len(d) = Len(blocks)
  BY <1>1, <1>2
<1>4. b \in Seq(Nat) /\ Len(b) = Len(blocks)
  BY <1>1, <1>2
<1>5. /\ PartialSums(d)[0] = 0
      /\ \A n \in 1 .. Len(d) : PartialSums(d)[n] = PartialSums(d)[n - 1] + d[n]
      /\ \A n \in 0 .. Len(d) : PartialSums(d)[n] \in Nat
  <2>. HIDE DEF d
  <2>. QED
    BY <1>3, SumFacts
<1>6. /\ PartialSums(b)[0] = 0
      /\ \A n \in 1 .. Len(b) : PartialSums(b)[n] = PartialSums(b)[n - 1] + b[n]
      /\ \A n \in 0 .. Len(b) : PartialSums(b)[n] \in Nat
  <2>. HIDE DEF b
  <2>. QED
    BY <1>4, SumFacts
<1>7. DataSizes(blocks) = PartialSums(d) /\ BasicSizes(blocks) = PartialSums(b)
  BY DEF DataSizes, BasicSizes
<1>8. \A n \in 1 .. Len(blocks) : d[n] = blocks[n][1] /\ b[n] = blocks[n][1] + blocks[n][2]
  BY <1>2
<1>. HIDE DEF d, b
<1>. QED
  BY <1>1, <1>3, <1>4, <1>5, <1>6, <1>7, <1>8

\* What a block becomes is behind what the blocks before it become, and a
\* block is never read behind the place it is written to.
LEMMA BlockOrder ==
  ASSUME NEW blocks \in Seq(Nat \X Nat)
  PROVE  LET D == DataSizes(blocks)
             B == BasicSizes(blocks)
         IN  /\ \A n \in 0 .. Len(blocks) : D[n] <= B[n]
             /\ \A m, n \in 0 .. Len(blocks) : m <= n => B[m] <= B[n]
<1> DEFINE D == DataSizes(blocks)
           B == BasicSizes(blocks)
<1>1. /\ D[0] = 0 /\ B[0] = 0
      /\ \A n \in 1 .. Len(blocks) :
           /\ blocks[n][1] \in Nat /\ blocks[n][2] \in Nat
           /\ D[n] = D[n - 1] + blocks[n][1]
           /\ B[n] = B[n - 1] + (blocks[n][1] + blocks[n][2])
      /\ \A n \in 0 .. Len(blocks) : D[n] \in Nat /\ B[n] \in Nat
  BY BlockFacts
<1>0. Len(blocks) \in Nat
  OBVIOUS
<1>. HIDE DEF D, B
<1>2. \A n \in 0 .. Len(blocks) : D[n] <= B[n]
  <2> DEFINE T == {n \in 0 .. Len(blocks) : ~(D[n] <= B[n])}
  <2>. SUFFICES ASSUME T # {} PROVE FALSE
    OBVIOUS
  <2>1. PICK n \in T : \A k \in T : n <= k
    <3>. HIDE DEF T
    <3>1. T \subseteq Nat
      BY DEF T
    <3>. QED
      BY <3>1, LeastNat
  <2>2. n \in 1 .. Len(blocks) /\ n - 1 \in 0 .. Len(blocks) /\ ~(n <= n - 1)
    BY <1>1
  <2>3. D[n - 1] <= B[n - 1]
    BY <2>1, <2>2
  <2>4. /\ D[n] = D[n - 1] + blocks[n][1] /\ B[n] = B[n - 1] + (blocks[n][1] + blocks[n][2])
        /\ D[n - 1] \in Nat /\ B[n - 1] \in Nat /\ blocks[n][1] \in Nat /\ blocks[n][2] \in Nat
    BY <1>1, <2>2
  <2>5. D[n] <= B[n]
    <3>. HIDE DEF T
    <3>1. \A p, q, x, y \in Nat : p <= q => p + x <= q + (x + y)
      OBVIOUS
    <3>. QED
      BY <2>3, <2>4, <3>1
  <2>. QED
    BY <2>5
<1>3. ASSUME NEW m \in 0 .. Len(blocks), NEW n \in 0 .. Len(blocks), m <= n
      PROVE  B[m] <= B[n]
  <2> DEFINE T == {k \in m .. Len(blocks) : ~(B[m] <= B[k])}
  <2>. SUFFICES ASSUME T # {} PROVE FALSE
    BY <1>3
  <2>1. PICK k \in T : \A j \in T : k <= j
    <3>. HIDE DEF T
    <3>1. T \subseteq Nat
      BY DEF T
    <3>. QED
      BY <3>1, LeastNat
  <2>2. k # m
    <3>1. B[m] \in Nat /\ B[m] <= B[m]
      BY <1>1
    <3>. QED
      BY <3>1
  <2>3. k \in 1 .. Len(blocks) /\ k - 1 \in m .. Len(blocks) /\ ~(k <= k - 1) /\ k - 1 \in 0 .. Len(blocks)
    BY <2>2
  <2>4. B[m] <= B[k - 1]
    BY <2>1, <2>3
  <2>5. B[k] = B[k - 1] + (blocks[k][1] + blocks[k][2]) /\ blocks[k][1] \in Nat /\ blocks[k][2] \in Nat
    BY <1>1, <2>3
  <2>6. B[m] \in Nat /\ B[k - 1] \in Nat
    BY <1>1, <2>3
  <2>7. B[m] <= B[k]
    <3>. HIDE DEF T
    <3>1. \A p, q, x, y \in Nat : p <= q => p <= q + (x + y)
      OBVIOUS
    <3>. QED
      BY <2>4, <2>5, <2>6, <3>1
  <2>. QED
    BY <2>7
<1>. QED
  BY <1>2, <1>3 DEF D, B

-----------------------------------------------------------------------------
(* Memory.                                                                 *)

LEMMA SizeOf ==
  ASSUME NEW mem, NEW n \in Nat, DOMAIN mem = 0 .. n - 1
  PROVE  Size(mem) = n
<1>1. \A x, y \in Int : Cardinality(x .. y) = IF x > y THEN 0 ELSE y - x + 1
  BY FS_Interval
<1>2. Cardinality(0 .. n - 1) = IF 0 > n - 1 THEN 0 ELSE n - 1 - 0 + 1
  BY <1>1
<1>. QED
  BY <1>2 DEF Size

\* A block's step: its d cells of data go from one place to another, with z
\* zeros behind them.
Moved(mem, from, to, d, z) ==
  LET zeroed == Write(mem, to + d, [k \in 1 .. z |-> Zero])
  IN  Write(zeroed, to, Slice(zeroed, from, d))

\* What that makes of the first size cells of a memory.
HasMoved(new, mem, size, from, to, d, z) ==
  /\ DOMAIN new = 0 .. size - 1
  /\ \A o \in 0 .. size - 1 : (o < to \/ o >= to + d + z) => new[o] = mem[o]
  /\ \A k \in 0 .. d + z - 1 : new[to + k] = IF k < d THEN mem[from + k] ELSE Zero

LEMMA MoveBlock ==
  ASSUME NEW mem, NEW size \in Nat, DOMAIN mem = 0 .. size - 1,
         NEW from \in Nat, NEW to \in Nat, NEW d \in Nat, NEW z \in Nat,
         from <= to, to + d + z <= size
  PROVE  HasMoved(Moved(mem, from, to, d, z), mem, size, from, to, d, z)
<1> DEFINE zeros == [k \in 1 .. z |-> Zero]
           zeroed == Write(mem, to + d, zeros)
           moved == Slice(zeroed, from, d)
           new == Write(zeroed, to, moved)
<1>1. /\ DOMAIN zeroed = 0 .. size - 1
      /\ \A o \in 0 .. size - 1 : zeroed[o] = IF o - (to + d) + 1 \in 1 .. z THEN Zero ELSE mem[o]
  BY DEF Write
<1>. HIDE DEF zeroed
<1>2. DOMAIN moved = 1 .. d /\ \A k \in 1 .. d : moved[k] = zeroed[from + k - 1]
  BY DEF Slice
<1>. HIDE DEF moved
<1>3. /\ DOMAIN new = 0 .. size - 1
      /\ \A o \in 0 .. size - 1 : new[o] = IF o - to + 1 \in 1 .. d THEN moved[o - to + 1] ELSE zeroed[o]
  BY <1>1, <1>2 DEF Write
<1>. HIDE DEF new
<1>4. ASSUME NEW o \in 0 .. size - 1, o < to \/ o >= to + d + z
      PROVE  new[o] = mem[o]
  <2>1. o - to + 1 \notin 1 .. d /\ o - (to + d) + 1 \notin 1 .. z
    BY <1>4
  <2>. QED
    BY <2>1, <1>1, <1>3
<1>5. ASSUME NEW k \in 0 .. d + z - 1
      PROVE  new[to + k] = IF k < d THEN mem[from + k] ELSE Zero
  <2>1. to + k \in 0 .. size - 1
    OBVIOUS
  <2>2. CASE k < d
    <3>1. to + k - to + 1 = k + 1 /\ k + 1 \in 1 .. d
      BY <2>2
    <3>2. new[to + k] = zeroed[from + (k + 1) - 1]
      BY <3>1, <2>1, <1>2, <1>3
    <3>3. from + (k + 1) - 1 = from + k
      OBVIOUS
    <3>4. from + k \in 0 .. size - 1 /\ from + k - (to + d) + 1 \notin 1 .. z
      BY <2>2
    <3>5. zeroed[from + k] = mem[from + k]
      BY <1>1, <3>4
    <3>. QED
      BY <2>2, <3>2, <3>3, <3>5
  <2>3. CASE ~(k < d)
    <3>1. to + k - to + 1 \notin 1 .. d /\ to + k - (to + d) + 1 \in 1 .. z
      BY <2>3
    <3>2. new[to + k] = zeroed[to + k]
      <4>1. new[to + k] = IF (to + k) - to + 1 \in 1 .. d THEN moved[(to + k) - to + 1] ELSE zeroed[to + k]
        BY <1>3, <2>1
      <4>2. (to + k) - to + 1 \notin 1 .. d
        BY <2>3
      <4>. QED
        BY <4>1, <4>2
    <3>3. zeroed[to + k] = Zero
      BY <1>1, <2>1, <3>1
    <3>. QED
      BY <2>3, <3>2, <3>3
  <2>. QED
    BY <2>2, <2>3
<1>. QED
  BY <1>3, <1>4, <1>5 DEF new, moved, zeroed, Moved, HasMoved

-----------------------------------------------------------------------------
(* The invariant.                                                          *)

\* The base's body as it is in the file.
Raw(o) == IF o + 1 \notin DOMAIN body THEN Zero ELSE body[o + 1]

RoomInv ==
  stage \in {"keys", "decrypt", "decompress", "inPlace"} =>
    Size(out) \in Nat /\ DOMAIN out = 0 .. Size(out) - 1

FormatInv ==
  stage \in {"decompress", "inPlace", "reformat"} => Has(base[FormatAt], "format")

\* Behind the new header is the body.
BodyInv ==
  /\ stage \in {"keys", "decrypt"} =>
       \A o \in DOMAIN out : o >= targetSize => out[o] = Raw(o - targetSize)
  /\ stage = "decompress" =>
       \A o \in DOMAIN out : o >= targetSize => out[o] = Stored(o - targetSize)

\* The cursors are behind block i, the data of the blocks up to i is where it
\* was, and the blocks behind i are in their places.
BlockInv ==
  stage = "inPlace" =>
    LET blocks == format.blocks IN
    /\ format.compression = "BASIC"
    /\ SizesFit =>
         /\ i \in 0 .. Len(blocks)
         /\ src = targetSize + DataSizes(blocks)[i]
         /\ dst = targetSize + BasicSizes(blocks)[i]
         /\ targetSize + BasicSize(blocks) <= Size(out)
         /\ \A o \in DOMAIN out : targetSize <= o /\ o < src => out[o] = Stored(o - targetSize)
         /\ \A n \in i + 1 .. Len(blocks) : Decompressed(n)

Inv == input \in Inputs /\ RoomInv /\ FormatInv /\ BodyInv /\ BlockInv /\ DecompressesInPlace

\* What fits into a word is not changed by it.
LEMMA Fits ==
  ASSUME NEW n, n \in Nat
  PROVE  /\ n < WordSize => Unsigned(n) = n
         /\ 2 * n < WordSize => Signed(n) = n
<1>1. WordSize \in Nat \ {0}
  BY WordAssumption DEF WordAssumption
<1>2. n < WordSize => n % WordSize = n
  BY <1>1
<1>. QED
  BY <1>1, <1>2 DEF Unsigned, Signed

LEMMA InputFacts ==
  ASSUME input \in Inputs
  PROVE  /\ targetSize \in Nat /\ headerSize \in Nat
         /\ Has(base[FormatAt], "format") => format.blocks \in Seq(Nat \X Nat)
<1>1. XexAssumption
  BY XexAssumption
<1>2. /\ Has(base[FormatAt], "format") => base[FormatAt][2].blocks \in Seq(Nat \X Nat)
      /\ descriptor.targetSize \in Nat
      /\ descriptor.headerCopy.to \in Nat /\ descriptor.headerCopy.size \in Nat
  <2>1. /\ Has(base[FormatAt], "format") => base[FormatAt][2].blocks \in Seq(Word \X Word)
        /\ descriptor.targetSize \in Word
        /\ descriptor.headerCopy.to \in Word /\ descriptor.headerCopy.size \in Word
    BY <1>1 DEF XexAssumption, base, descriptor, patch
  <2>2. Word \subseteq Nat
    BY DEF Word
  <2>3. Word \X Word \subseteq Nat \X Nat
    BY <2>2
  <2>4. Seq(Word \X Word) \subseteq Seq(Nat \X Nat)
    BY <2>3
  <2>. QED
    BY <2>1, <2>2, <2>4
<1>3. targetSize \in Nat
  BY <1>2 DEF targetSize
<1>4. headerSize \in Nat
  BY DEF headerSize, Number
<1>. QED
  BY <1>2, <1>3, <1>4 DEF format

\* What is said of the input stays true of it.
LEMMA Same ==
  ASSUME input' = input
  PROVE  /\ targetSize' = targetSize /\ format' = format /\ base' = base
         /\ \A o : Stored(o)' = Stored(o)
         /\ \A o : Raw(o)' = Raw(o)
         /\ SizesFit' <=> SizesFit
<1>1. base' = base /\ headerSize' = headerSize
  BY DEF base, headerSize
<1>2. body' = body /\ originalKey' = originalKey /\ format' = format
  BY <1>1 DEF body, originalKey, format
<1>3. targetSize' = targetSize
  BY DEF targetSize, descriptor, patch
<1>4. \A o : Stored(o)' = Stored(o)
  BY <1>2 DEF Stored
<1>5. \A o : Raw(o)' = Raw(o)
  BY <1>2 DEF Raw
<1>6. SizesFit' <=> SizesFit
  BY <1>2, <1>3 DEF SizesFit
<1>. QED
  BY <1>1, <1>2, <1>3, <1>4, <1>5, <1>6

-----------------------------------------------------------------------------
(* The steps.                                                              *)

LEMMA InitInv == Init => Inv
BY DEF Init, Inv, RoomInv, FormatInv, BodyInv, BlockInv, DecompressesInPlace

\* Where nothing is said of the buffer.
LEMMA OtherStage ==
  ASSUME Inv, input' = input,
         stage' \notin {"keys", "decrypt", "decompress", "inPlace", "reformat"}
  PROVE  Inv'
BY DEF Inv, RoomInv, FormatInv, BodyInv, BlockInv, DecompressesInPlace

LEMMA AppendStep ==
  ASSUME Inv, Append_
  PROVE  Inv'
<1> DEFINE header == Resize(out, targetSize)
           imageSize == IF ImageSizeAt < targetSize THEN Number(header[ImageSizeAt]) ELSE 0
           room == Resize(header, targetSize + imageSize)
<1>1. input' = input /\ stage = "append" /\ input \in Inputs
  BY DEF Append_, Inv
<1>2. CASE stage' = "done"
  BY <1>1, <1>2, OtherStage
<1>3. CASE stage' # "done"
  <2>1. stage' = "keys" /\ out' = Write(room, targetSize, body)
    BY <1>3 DEF Append_, Return, Go
  <2>2. targetSize \in Nat /\ imageSize \in Nat
    BY <1>1, InputFacts DEF Number
  <2>. HIDE DEF imageSize
  <2>3. DOMAIN header = 0 .. targetSize - 1
    BY DEF Resize
  <2>. HIDE DEF header
  <2>4. /\ DOMAIN room = 0 .. (targetSize + imageSize) - 1
        /\ \A o \in DOMAIN room : o >= targetSize => room[o] = Zero
    BY <2>2, <2>3 DEF Resize
  <2>. HIDE DEF room
  <2>5. /\ DOMAIN out' = DOMAIN room
        /\ \A o \in DOMAIN room : out'[o] = IF o - targetSize + 1 \in DOMAIN body THEN body[o - targetSize + 1] ELSE room[o]
    BY <2>1 DEF Write
  <2>6. Size(out') = targetSize + imageSize
    BY <2>2, <2>4, <2>5, SizeOf
  <2>7. RoomInv'
    <3>1. DOMAIN out' = 0 .. Size(out') - 1 /\ Size(out') \in Nat
      BY <2>2, <2>4, <2>5, <2>6
    <3>2. Size(out)' = Size(out')
      BY DEF Size
    <3>. QED
      BY <3>1, <3>2 DEF RoomInv
  <2>8. \A o \in DOMAIN out' : o >= targetSize => out'[o] = Raw(o - targetSize)
    BY <2>4, <2>5 DEF Raw
  <2>9. BodyInv'
    BY <2>1, <2>8, <1>1, Same DEF BodyInv
  <2>. QED
    BY <1>1, <2>1, <2>7, <2>9 DEF Inv, FormatInv, BlockInv, DecompressesInPlace
<1>. QED
  BY <1>2, <1>3

LEMMA CheckKeysStep ==
  ASSUME Inv, CheckKeys
  PROVE  Inv'
<1>1. input' = input /\ stage = "keys" /\ input \in Inputs
  BY DEF CheckKeys, Inv
<1>2. CASE stage' = "done"
  BY <1>1, <1>2, OtherStage
<1>3. CASE stage' # "done"
  <2>1. stage' = "decrypt" /\ out' = out
    BY <1>3 DEF CheckKeys, Return, Go
  <2>2. Size(out)' = Size(out)
    BY <2>1 DEF Size
  <2>3. RoomInv'
    BY <1>1, <2>1, <2>2 DEF Inv, RoomInv
  <2>4. BodyInv'
    BY <1>1, <2>1, Same DEF Inv, BodyInv
  <2>. QED
    BY <1>1, <2>1, <2>3, <2>4 DEF Inv, FormatInv, BlockInv, DecompressesInPlace
<1>. QED
  BY <1>2, <1>3

LEMMA DecryptBodyStep ==
  ASSUME Inv, DecryptBody
  PROVE  Inv'
<1>1. input' = input /\ stage = "decrypt" /\ input \in Inputs
  BY DEF DecryptBody, Inv
<1>2. CASE stage' = "done"
  BY <1>1, <1>2, OtherStage
<1>3. CASE stage' # "done"
  <2> DEFINE plain == [k \in DOMAIN body |-> Decrypt(originalKey, out[targetSize + k - 1])]
  <2>1. /\ stage' = "decompress" /\ Has(base[FormatAt], "format")
        /\ out' = IF format.encryption = "NONE" THEN out ELSE Write(out, targetSize, plain)
    BY <1>3 DEF DecryptBody, Return, Go
  <2>2. /\ targetSize \in Nat
        /\ Size(out) \in Nat /\ DOMAIN out = 0 .. Size(out) - 1
        /\ \A o \in DOMAIN out : o >= targetSize => out[o] = Raw(o - targetSize)
    BY <1>1, InputFacts DEF Inv, RoomInv, BodyInv
  <2>3. /\ DOMAIN out' = DOMAIN out
        /\ \A o \in DOMAIN out : o >= targetSize => out'[o] = Stored(o - targetSize)
    <3>1. CASE format.encryption = "NONE"
      BY <3>1, <2>1, <2>2 DEF Raw, Stored
    <3>2. CASE format.encryption # "NONE"
      <4>1. DOMAIN plain = DOMAIN body /\ \A k \in DOMAIN body : plain[k] = Decrypt(originalKey, out[targetSize + k - 1])
        OBVIOUS
      <4>. HIDE DEF plain
      <4>2. /\ DOMAIN out' = DOMAIN out
            /\ \A o \in DOMAIN out : out'[o] = IF o - targetSize + 1 \in DOMAIN plain THEN plain[o - targetSize + 1] ELSE out[o]
        BY <3>2, <2>1 DEF Write
      <4>3. ASSUME NEW o \in DOMAIN out, o >= targetSize
            PROVE  out'[o] = Stored(o - targetSize)
        <5>1. o \in Nat /\ targetSize + (o - targetSize + 1) - 1 = o
          BY <2>2
        <5>2. CASE o - targetSize + 1 \in DOMAIN body
          <6>1. out'[o] = Decrypt(originalKey, out[o])
            BY <4>1, <4>2, <5>1, <5>2
          <6>2. out[o] = body[o - targetSize + 1]
            BY <2>2, <4>3, <5>2 DEF Raw
          <6>. QED
            BY <6>1, <6>2, <5>2, <3>2 DEF Stored
        <5>3. CASE o - targetSize + 1 \notin DOMAIN body
          BY <4>1, <4>2, <5>3, <2>2, <4>3 DEF Raw, Stored
        <5>. QED
          BY <5>2, <5>3
      <4>. QED
        BY <4>2, <4>3
    <3>. QED
      BY <3>1, <3>2
  <2>4. RoomInv'
    <3>1. Size(out)' = Size(out)
      BY <2>3 DEF Size
    <3>. QED
      BY <3>1, <2>2, <2>3 DEF RoomInv
  <2>5. BodyInv'
    BY <1>1, <2>1, <2>3, Same DEF BodyInv
  <2>6. FormatInv'
    BY <1>1, <2>1, Same DEF FormatInv
  <2>. QED
    BY <1>1, <2>1, <2>4, <2>5, <2>6 DEF Inv, BlockInv, DecompressesInPlace
<1>. QED
  BY <1>2, <1>3

LEMMA DecompressStep ==
  ASSUME Inv, Decompress
  PROVE  Inv'
<1>1. /\ input' = input /\ stage = "decompress" /\ input \in Inputs
      /\ Has(base[FormatAt], "format")
  BY DEF Decompress, Inv, FormatInv
<1>2. CASE stage' = "done"
  BY <1>1, <1>2, OtherStage
<1>3. CASE stage' # "done"
  <2>1. format' = format /\ base' = base /\ targetSize' = targetSize
    BY <1>1, Same
  <2>2. /\ Size(out) \in Nat /\ DOMAIN out = 0 .. Size(out) - 1
        /\ \A o \in DOMAIN out : o >= targetSize => out[o] = Stored(o - targetSize)
    BY <1>1 DEF Inv, RoomInv, BodyInv
  <2>3. CASE format.compression = "NONE"
    <3>1. stage' = "reformat" /\ out' = out
      BY <2>3, <1>3 DEF Decompress, Return, Go
    <3>2. DecompressesInPlace'
      BY <3>1, <2>1, <2>2, <2>3, <1>1, Same DEF DecompressesInPlace
    <3>. QED
      BY <3>1, <3>2, <2>1, <1>1 DEF Inv, RoomInv, FormatInv, BodyInv, BlockInv
  <2>6. CASE format.compression = "BASIC" /\ ~SizesFit
    <3>1. stage' = "inPlace" /\ out' = out
      BY <2>6, <1>3 DEF Decompress, Return, Go
    <3>2. RoomInv'
      BY <3>1, <2>2 DEF RoomInv, Size
    <3>3. BlockInv'
      BY <3>1, <2>6, <2>1, <1>1, Same DEF BlockInv
    <3>4. DecompressesInPlace'
      BY <3>1, <2>6, <1>1, Same DEF DecompressesInPlace
    <3>. QED
      BY <3>1, <3>2, <3>3, <3>4, <1>1, <2>1 DEF Inv, FormatInv, BodyInv
  <2>4. CASE format.compression = "BASIC" /\ SizesFit
    <3> DEFINE blocks == format.blocks
               D == DataSizes(blocks)
               B == BasicSizes(blocks)
               N == Len(blocks)
    <3>0. /\ stage' = "inPlace" /\ out' = out
          /\ ~(Size(out) < Unsigned(targetSize + BasicSize(blocks)))
          /\ i' = N
          /\ src' = targetSize + Signed(DataSize(blocks))
          /\ dst' = targetSize + Signed(BasicSize(blocks))
      BY <2>4, <1>3 DEF Decompress, Return, Go
    <3>2. targetSize \in Nat /\ blocks \in Seq(Nat \X Nat) /\ N \in Nat
      BY <1>1, InputFacts
    <3>3. /\ \A n \in 1 .. N : /\ blocks[n][1] \in Nat /\ blocks[n][2] \in Nat
                               /\ D[n] = D[n - 1] + blocks[n][1]
                               /\ B[n] = B[n - 1] + (blocks[n][1] + blocks[n][2])
          /\ \A n \in 0 .. N : D[n] \in Nat /\ B[n] \in Nat /\ D[n] <= B[n]
      BY <3>2, BlockFacts, BlockOrder
    <3>4. DataSize(blocks) = D[N] /\ BasicSize(blocks) = B[N]
      BY DEF DataSize, BasicSize
    <3>10. 2 * BasicSize(blocks) < WordSize /\ targetSize + BasicSize(blocks) < WordSize
      BY <2>4 DEF SizesFit
    <3>5. format'.blocks = blocks
      BY <2>1
    <3>. HIDE DEF D, B, N, blocks
    <3>1. /\ stage' = "inPlace" /\ out' = out
          /\ ~(Size(out) < targetSize + BasicSize(blocks))
          /\ i' = N
          /\ src' = targetSize + DataSize(blocks)
          /\ dst' = targetSize + BasicSize(blocks)
      <4>1. /\ N \in 0 .. N
            /\ D[N] \in Nat /\ B[N] \in Nat /\ D[N] <= B[N]
        BY <3>2, <3>3
      <4>2. 2 * D[N] < WordSize /\ 2 * B[N] < WordSize /\ targetSize + B[N] < WordSize
        BY <4>1, <3>4, <3>10, WordAssumption DEF WordAssumption
      <4>3. Signed(D[N]) = D[N] /\ Signed(B[N]) = B[N]
        BY <4>1, <4>2, Fits
      <4>4. targetSize + B[N] \in Nat
        BY <4>1, <3>2
      <4>5. Unsigned(targetSize + B[N]) = targetSize + B[N]
        BY <4>2, <4>4, Fits
      <4>. QED
        BY <3>0, <3>4, <4>3, <4>5
    <3>6. RoomInv'
      <4>1. Size(out)' = Size(out)
        BY <3>1 DEF Size
      <4>. QED
        BY <4>1, <3>1, <2>2 DEF RoomInv
    <3>7. Size(out)' = Size(out)
      BY <3>1 DEF Size
    <3>8. BlockInv'
      <4>1. /\ i' \in 0 .. N /\ src' = targetSize + D[i'] /\ dst' = targetSize + B[i']
            /\ targetSize + BasicSize(blocks) <= Size(out)
        BY <3>1, <3>2, <3>3, <3>4, <2>2
      <4>2. \A o \in DOMAIN out' : targetSize <= o /\ o < src' => out'[o] = Stored(o - targetSize)'
        BY <3>1, <2>2, <1>1, Same
      <4>3. i' + 1 .. N = {}
        BY <3>1, <3>2
      <4>. QED
        BY <4>1, <4>2, <4>3, <3>1, <3>5, <3>7, <2>1, <2>4 DEF BlockInv, D, B, N
    <3>9. DecompressesInPlace'
      <4>1. SUFFICES ASSUME i' # 0
                     PROVE  /\ targetSize <= src' - blocks[i'][1]
                            /\ src' <= dst' - blocks[i'][2]
                            /\ dst' <= Size(out)
        BY <3>1, <3>5, <3>7, <2>1 DEF DecompressesInPlace
      <4>2. N \in 1 .. N /\ N - 1 \in 0 .. N
        BY <4>1, <3>1, <3>2
      <4>3. /\ blocks[N][1] \in Nat /\ blocks[N][2] \in Nat
            /\ D[N] = D[N - 1] + blocks[N][1]
            /\ B[N] = B[N - 1] + (blocks[N][1] + blocks[N][2])
            /\ D[N - 1] \in Nat /\ B[N - 1] \in Nat /\ D[N - 1] <= B[N - 1]
        BY <4>2, <3>3
      <4>4. /\ src' = targetSize + (D[N - 1] + blocks[N][1])
            /\ dst' = targetSize + (B[N - 1] + (blocks[N][1] + blocks[N][2]))
            /\ ~(Size(out) < dst') /\ Size(out) \in Nat
        BY <4>3, <3>1, <3>4, <2>2
      <4>5. \A t, s, p, q, x, y \in Nat :
              p <= q /\ ~(s < t + (q + (x + y)))
              => t <= (t + (p + x)) - x /\ t + (p + x) <= (t + (q + (x + y))) - y /\ t + (q + (x + y)) <= s
        OBVIOUS
      <4>6. /\ targetSize <= src' - blocks[N][1] /\ src' <= dst' - blocks[N][2]
            /\ dst' <= Size(out)
        BY <4>3, <4>4, <4>5, <3>2
      <4>. QED
        BY <4>6, <3>1
    <3>. QED
      BY <1>1, <2>1, <3>1, <3>6, <3>8, <3>9 DEF Inv, FormatInv, BodyInv
  <2>5. CASE format.compression \notin {"NONE", "BASIC"}
    <3>1. stage' = "reformat"
      BY <2>5, <1>3 DEF Decompress, Return, Go
    <3>. QED
      BY <3>1, <2>1, <2>5, <1>1 DEF Inv, RoomInv, FormatInv, BodyInv, BlockInv, DecompressesInPlace
  <2>. QED
    BY <2>3, <2>4, <2>5, <2>6
<1>. QED
  BY <1>2, <1>3

\* A step within the buffer, if the blocks' sizes fit.
LEMMA FittingBlockStep ==
  ASSUME Inv, DecompressBlock, SizesFit, stage' # "done"
  PROVE  Inv'
<1> DEFINE blocks == format.blocks
           D == DataSizes(blocks)
           B == BasicSizes(blocks)
           N == Len(blocks)
<1>1. /\ input' = input /\ stage = "inPlace" /\ input \in Inputs
      /\ Has(base[FormatAt], "format")
  BY DEF DecompressBlock, Inv, FormatInv
<1>2. format' = format /\ base' = base /\ targetSize' = targetSize /\ format'.blocks = blocks
  BY <1>1, Same
<1>3. /\ Size(out) \in Nat /\ DOMAIN out = 0 .. Size(out) - 1
      /\ format.compression = "BASIC"
      /\ i \in 0 .. N
      /\ src = targetSize + D[i] /\ dst = targetSize + B[i]
      /\ targetSize + B[N] <= Size(out)
      /\ \A o \in DOMAIN out : targetSize <= o /\ o < src => out[o] = Stored(o - targetSize)
      /\ \A n \in i + 1 .. N : Decompressed(n)
  BY <1>1 DEF Inv, RoomInv, BlockInv, BasicSize
<1>4. targetSize \in Nat /\ blocks \in Seq(Nat \X Nat) /\ N \in Nat /\ DOMAIN blocks = 1 .. N
  BY <1>1, InputFacts
<1>5. /\ \A n \in 1 .. N : /\ blocks[n][1] \in Nat /\ blocks[n][2] \in Nat
                           /\ D[n] = D[n - 1] + blocks[n][1]
                           /\ B[n] = B[n - 1] + (blocks[n][1] + blocks[n][2])
      /\ \A n \in 0 .. N : D[n] \in Nat /\ B[n] \in Nat /\ D[n] <= B[n]
      /\ \A m, n \in 0 .. N : m <= n => B[m] <= B[n]
  BY <1>4, BlockFacts, BlockOrder
<1>6. CASE i = 0
  <2>1. stage' = "reformat" /\ out' = out
    BY <1>1, <1>6 DEF DecompressBlock, Go
  <2>2. \A n \in 1 .. N : Decompressed(n)
    BY <1>3, <1>6
  <2>3. \A n \in 1 .. N : Decompressed(n)'
    BY <2>1, <2>2, <1>1, <1>2, Same DEF Decompressed
  <2>4. DecompressesInPlace'
    BY <2>1, <2>3, <1>2, <1>3, <1>4 DEF DecompressesInPlace
  <2>. QED
    BY <2>1, <2>4, <1>1, <1>2 DEF Inv, RoomInv, FormatInv, BodyInv, BlockInv
<1>7. CASE i # 0
  <2>0. PICK j \in 1 .. N : j = i
    BY <1>3, <1>4, <1>7
  <2> DEFINE d == blocks[j][1]
             z == blocks[j][2]
             from == targetSize + D[j - 1]
             to == targetSize + B[j - 1]
             size == Size(out)
             zeroed == Write(out, dst - z, [k \in 1 .. z |-> Zero])
  <2>1. /\ stage' = stage /\ i' = j - 1
        /\ dst' = dst - z - d /\ src' = src - d
        /\ out' = Write(zeroed, dst', Slice(zeroed, src', d))
    BY <2>0, <1>1, <1>7 DEF DecompressBlock, Return
  <2>. HIDE DEF D, B, N, blocks
  <2>2. /\ j \in 1 .. N /\ j - 1 \in 0 .. N
        /\ d \in Nat /\ z \in Nat /\ D[j] = D[j - 1] + d /\ B[j] = B[j - 1] + (d + z)
        /\ D[j - 1] \in Nat /\ B[j - 1] \in Nat /\ D[j - 1] <= B[j - 1] /\ B[j] <= B[N] /\ B[N] \in Nat /\ D[j] \in Nat /\ B[j] \in Nat
    <3>1. j - 1 \in 0 .. N /\ j \in 0 .. N /\ N \in 0 .. N /\ j <= N
      BY <1>4
    <3>. QED
      BY <3>1, <1>5
  <2>3. /\ from \in Nat /\ to \in Nat /\ size \in Nat
        /\ dst - z = to + d /\ dst' = to /\ src' = from
        /\ from <= to /\ to + d + z <= size /\ dst = to + d + z /\ src = from + d
    <3>. HIDE DEF d, z, size
    <3>1. size \in Nat /\ targetSize \in Nat /\ src = targetSize + D[j] /\ dst = targetSize + B[j] /\ targetSize + B[N] <= size
      BY <2>0, <1>3, <1>4 DEF size
    <3>2. src = targetSize + (D[j - 1] + d) /\ dst = targetSize + (B[j - 1] + (d + z))
      BY <3>1, <2>2
    <3>3. from \in Nat /\ to \in Nat /\ from <= to
      BY <3>1, <2>2
    <3>4. src = from + d /\ dst = to + d + z
      BY <3>1, <3>2, <2>2
    <3>5. targetSize + B[j] <= size
      BY <3>1, <2>2
    <3>6. to + d + z <= size
      BY <3>1, <3>4, <3>5
    <3>. HIDE DEF from, to
    <3>7. dst - z = to + d /\ dst - z - d = to /\ src - d = from
      BY <3>3, <3>4, <2>2
    <3>. QED
      BY <3>1, <3>3, <3>4, <3>6, <3>7, <2>1
  <2>4. /\ DOMAIN out' = 0 .. size - 1
        /\ \A o \in 0 .. size - 1 : (o < to \/ o >= to + d + z) => out'[o] = out[o]
        /\ \A k \in 0 .. d + z - 1 : out'[to + k] = IF k < d THEN out[from + k] ELSE Zero
    <3>1. out' = Moved(out, from, to, d, z)
      BY <2>1, <2>3 DEF Moved
    <3>2. DOMAIN out = 0 .. size - 1
      BY <1>3
    <3>3. /\ size \in Nat /\ from \in Nat /\ to \in Nat /\ d \in Nat /\ z \in Nat
          /\ from <= to /\ to + d + z <= size
      BY <2>2, <2>3
    <3>. HIDE DEF from, to, d, z, size, zeroed
    <3>4. HasMoved(Moved(out, from, to, d, z), out, size, from, to, d, z)
      BY <3>2, <3>3, MoveBlock
    <3>. QED
      BY <3>1, <3>4 DEF HasMoved
  <2>5. Size(out)' = size
    <3>1. Size(out') = size
      <4>. HIDE DEF size
      <4>. QED
        BY <2>3, <2>4, SizeOf
    <3>2. Size(out)' = Size(out')
      BY DEF Size
    <3>. QED
      BY <3>1, <3>2
  <2>. HIDE DEF from, to, d, z, size, zeroed
  <2>6. \A o \in 0 .. size - 1 : targetSize <= o /\ o < src => out[o] = Stored(o - targetSize)
    BY <1>3 DEF size
  <2>7. RoomInv'
    BY <2>3, <2>4, <2>5 DEF RoomInv
  <2>8. \A o \in DOMAIN out' : targetSize <= o /\ o < src' => out'[o] = Stored(o - targetSize)'
    <3>1. ASSUME NEW o \in 0 .. size - 1, targetSize <= o, o < src'
          PROVE  out'[o] = Stored(o - targetSize)
      <4>1. o < to /\ o < src
        BY <3>1, <2>2, <2>3
      <4>. QED
        BY <3>1, <4>1, <2>4, <2>6
    <3>. QED
      BY <3>1, <2>4, <1>1, Same
  \* The block that has just been moved.
  <2>9. Decompressed(j)'
    <3>1. ASSUME NEW o \in 0 .. d + z - 1
          PROVE  out'[to + o] = IF o < d THEN Stored(D[j - 1] + o) ELSE Zero
      <4>1. CASE o < d
        <5>1. from + o \in 0 .. size - 1 /\ from + o < src
          BY <4>1, <2>2, <2>3
        <5>2. targetSize <= from + o /\ (from + o) - targetSize = D[j - 1] + o
          <6>1. o \in Nat /\ targetSize \in Nat /\ D[j - 1] \in Nat
            BY <2>2, <1>4
          <6>. QED
            BY <6>1 DEF from
        <5>3. out[from + o] = Stored(D[j - 1] + o)
          BY <5>1, <5>2, <2>6
        <5>. QED
          BY <4>1, <5>3, <2>4
      <4>2. CASE ~(o < d)
        BY <4>2, <2>4
      <4>. QED
        BY <4>1, <4>2
    <3>2. \A o : Stored(o)' = Stored(o)
      BY <1>1, Same
    <3>. QED
      BY <3>1, <3>2, <1>2 DEF Decompressed, D, B, d, z, to, blocks
  \* Those behind it are left alone.
  <2>10. ASSUME NEW n \in j + 1 .. N
         PROVE  Decompressed(n)'
    <3> DEFINE e == blocks[n][1]
               y == blocks[n][2]
               at == targetSize + B[n - 1]
    <3>1. /\ n \in 1 .. N /\ n - 1 \in 0 .. N /\ j <= n - 1 /\ j \in 0 .. N /\ n \in 0 .. N /\ n <= N /\ N \in 0 .. N
      BY <2>2, <1>4
    <3>2. /\ e \in Nat /\ y \in Nat /\ B[n] = B[n - 1] + (e + y) /\ B[j] <= B[n - 1] /\ B[n] <= B[N]
          /\ B[n - 1] \in Nat /\ B[n] \in Nat
      BY <3>1, <1>5 DEF B, N, blocks
    <3>3. targetSize \in Nat /\ targetSize + B[N] <= size /\ dst = targetSize + B[j]
      BY <2>0, <1>3, <1>4 DEF size, B, N
    <3>4. \A o \in 0 .. e + y - 1 : out[at + o] = IF o < e THEN Stored(DataSizes(blocks)[n - 1] + o) ELSE Zero
      BY <2>0, <1>3 DEF Decompressed, B, N, blocks
    <3>. HIDE DEF e, y
    <3>5. at \in Nat /\ to + d + z <= at /\ at + e + y <= size
      BY <3>2, <3>3, <2>2, <2>3
    <3>. HIDE DEF at
    <3>6. \A o \in 0 .. e + y - 1 : at + o \in 0 .. size - 1 /\ at + o >= to + d + z
      BY <3>2, <3>5, <2>2, <2>3
    <3>7. \A o \in 0 .. e + y - 1 : out'[at + o] = out[at + o]
      BY <3>6, <2>4
    <3>8. \A o \in 0 .. e + y - 1 : out'[at + o] = IF o < e THEN Stored(DataSizes(blocks)[n - 1] + o) ELSE Zero
      BY <3>4, <3>7
    <3>9. \A o : Stored(o)' = Stored(o)
      BY <1>1, Same
    <3>. QED
      BY <3>8, <3>9, <1>2 DEF Decompressed, B, e, y, at, blocks
  <2>11. BlockInv'
    <3>1. /\ i' \in 0 .. N /\ src' = targetSize + D[i'] /\ dst' = targetSize + B[i']
          /\ targetSize + B[N] <= size
      BY <2>1, <2>2, <2>3, <1>3 DEF from, to, size, D, B, N
    <3>2. \A n \in i' + 1 .. N : Decompressed(n)'
      <4>1. \A n \in i' + 1 .. N : n = j \/ n \in j + 1 .. N
        BY <2>1, <2>2, <1>4
      <4>. QED
        BY <4>1, <2>9, <2>10
    <3>. QED
      BY <3>1, <3>2, <2>1, <2>5, <2>8, <1>1, <1>2, <1>3 DEF BlockInv, D, B, N, BasicSize, blocks
  <2>12. DecompressesInPlace'
    <3>1. SUFFICES ASSUME i' # 0
                   PROVE  /\ targetSize <= src' - blocks[i'][1]
                          /\ src' <= dst' - blocks[i'][2]
                          /\ dst' <= size
      BY <2>1, <2>5, <1>1, <1>2 DEF DecompressesInPlace, blocks
    <3>2. i' = j - 1 /\ j - 1 \in 1 .. N /\ (j - 1) - 1 \in 0 .. N
      BY <3>1, <2>1, <2>2, <1>4
    <3>3. /\ blocks[i'][1] \in Nat /\ blocks[i'][2] \in Nat
          /\ D[i'] = D[i' - 1] + blocks[i'][1]
          /\ B[i'] = B[i' - 1] + (blocks[i'][1] + blocks[i'][2])
          /\ D[i' - 1] \in Nat /\ B[i' - 1] \in Nat /\ D[i' - 1] <= B[i' - 1]
      BY <3>2, <1>5 DEF D, B, N, blocks
    <3>4. src' = targetSize + D[i'] /\ dst' = targetSize + B[i'] /\ targetSize \in Nat
      BY <3>2, <2>3, <1>4 DEF from, to
    <3>. QED
      BY <3>3, <3>4, <2>2, <2>3
  <2>. QED
    BY <2>1, <2>7, <2>11, <2>12, <1>1, <1>2 DEF Inv, FormatInv, BodyInv
<1>. QED
  BY <1>6, <1>7

LEMMA DecompressBlockStep ==
  ASSUME Inv, DecompressBlock
  PROVE  Inv'
<1>1. /\ input' = input /\ stage = "inPlace" /\ input \in Inputs
      /\ Has(base[FormatAt], "format")
  BY DEF DecompressBlock, Inv, FormatInv
<1>2. CASE stage' = "done"
  BY <1>1, <1>2, OtherStage
<1>3. CASE stage' # "done" /\ ~SizesFit
  <2>1. \/ stage' = "reformat" /\ out' = out
        \/ /\ stage' = "inPlace"
           /\ \E to, cells, at, zeros : out' = Write(Write(out, at, zeros), to, cells)
    BY <1>1, <1>3 DEF DecompressBlock, Return, Go
  <2>2. /\ Size(out) \in Nat /\ DOMAIN out = 0 .. Size(out) - 1
        /\ format.compression = "BASIC"
    BY <1>1 DEF Inv, RoomInv, BlockInv
  <2>3. DOMAIN out' = DOMAIN out
    BY <2>1 DEF Write
  <2>4. RoomInv'
    BY <2>1, <2>2, <2>3 DEF RoomInv, Size
  <2>5. BlockInv'
    BY <2>2, <1>1, <1>3, Same DEF BlockInv
  <2>6. DecompressesInPlace'
    BY <2>1, <2>2, <1>1, <1>3, Same DEF DecompressesInPlace
  <2>. QED
    BY <2>1, <2>4, <2>5, <2>6, <1>1, Same DEF Inv, FormatInv, BodyInv
<1>. QED
  BY <1>2, <1>3, FittingBlockStep

LEMMA NextInv == Inv /\ [Next]_vars => Inv'
<1>. SUFFICES ASSUME Inv, [Next]_vars PROVE Inv'
  OBVIOUS
<1>1. CASE Validate
  <2>1. input' = input /\ stage' \in {"done", "headerDelta"}
    BY <1>1 DEF Validate, Return, Go
  <2>. QED
    BY <2>1, OtherStage
<1>2. CASE ApplyEntry
  <2>1. input' = input /\ stage \in {"headerDelta", "imageDelta"}
    BY <1>2 DEF ApplyEntry, Deltas
  <2>2. stage' \in {"done", stage}
    BY <1>2 DEF ApplyEntry, Return
  <2>. QED
    BY <2>1, <2>2, OtherStage
<1>3. CASE EndDelta
  <2>1. input' = input /\ stage' \in {"append", "blocks"}
    BY <1>3 DEF EndDelta, Deltas, Go
  <2>. QED
    BY <2>1, OtherStage
<1>4. CASE Append_
  BY <1>4, AppendStep
<1>5. CASE CheckKeys
  BY <1>5, CheckKeysStep
<1>6. CASE DecryptBody
  BY <1>6, DecryptBodyStep
<1>7. CASE Decompress
  BY <1>7, DecompressStep
<1>8. CASE DecompressBlock
  BY <1>8, DecompressBlockStep
<1>9. CASE Reformat
  <2>1. input' = input /\ stage' \in {"done", "blocks"}
    BY <1>9 DEF Reformat, Return, Go
  <2>. QED
    BY <2>1, OtherStage
<1>10. CASE NextBlock
  <2>1. input' = input /\ stage' \in {"done", "imageDelta"}
    BY <1>10 DEF NextBlock, Return, Go
  <2>. QED
    BY <2>1, OtherStage
<1>11. CASE UNCHANGED vars
  <2>1. input' = input /\ stage' = stage /\ out' = out /\ i' = i /\ src' = src /\ dst' = dst
    BY <1>11 DEF vars, cursors
  <2>2. Size(out)' = Size(out)
    BY <2>1 DEF Size
  <2>3. \A n : Decompressed(n)' <=> Decompressed(n)
    BY <2>1, Same DEF Decompressed
  <2>4. RoomInv' /\ FormatInv' /\ BodyInv'
    BY <2>1, <2>2, Same DEF Inv, RoomInv, FormatInv, BodyInv
  <2>5. BlockInv'
    BY <2>1, <2>2, <2>3, Same DEF Inv, BlockInv
  <2>6. DecompressesInPlace'
    BY <2>1, <2>2, <2>3, Same DEF Inv, DecompressesInPlace
  <2>. QED
    BY <2>1, <2>4, <2>5, <2>6 DEF Inv
<1>. QED
  BY <1>1, <1>2, <1>3, <1>4, <1>5, <1>6, <1>7, <1>8, <1>9, <1>10, <1>11 DEF Next

-----------------------------------------------------------------------------

\* XexPatcher::apply decompresses the base's body where it is, for all blocks
\* whose sizes fit into the types they are added up in: no block is overwritten
\* before it is read, nothing in front of the image and behind the buffer is
\* touched, and each ends up in its place. The sums are the code's, in int32_t,
\* and the test of them, in uint32_t, is all that keeps them in the buffer.
THEOREM BlocksFindTheirPlaces == Spec => []DecompressesInPlace
<1>1. Inv => DecompressesInPlace
  BY DEF Inv
<1>. QED
  BY <1>1, InitInv, NextInv, PTL DEF Spec
=============================================================================
