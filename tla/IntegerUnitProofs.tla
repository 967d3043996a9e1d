-------------------------- MODULE IntegerUnitProofs --------------------------
(***************************************************************************)
(* Proofs about IntegerUnit for words of every width W and for any number   *)
(* of threads: LockExcludes and NothingLost, and that the unit does what    *)
(* GuestIntegers allows, LoneThreadAgrees. First the threads that share the *)
(* memory, in four parts.                                                   *)
(* Powers of two, division and what bswap, RawBytes and FromBytes are to    *)
(* each other: a number that is stored and loaded again is the number, cut  *)
(* to its bytes. What each instruction of the programs does, in terms of    *)
(* the numbers the console has in memory. Threads that count with lwarx     *)
(* and stwcx. keep CountInv: the counter is the number of threads whose     *)
(* stwcx. has succeeded. Threads that take a lock keep LockInv: the lock    *)
(* is 1 while one thread has it, from its stwcx. to the moment at which the *)
(* store of 0 leaves its buffer, and the counter is the number of threads   *)
(* whose store of it has left theirs.                                       *)
(*                                                                          *)
(* Then a thread that runs alone, from numbers to states. A number is known *)
(* by its bits: On says which are set, and Numbers that no two numbers have *)
(* the same. Each group of instructions that only compute is compared by    *)
(* the bits, or by the remainders, of what it makes: logical instructions,  *)
(* shifts, masks and rotations, sums and their carries, products and        *)
(* quotients (ValuesAgree). Comparisons and traps follow from the same      *)
(* lemmas, and the condition register, which the console keeps as a row of  *)
(* flags, from where its flags are. Loads and stores meet the console's     *)
(* memory through Seen, the memory with the stores of the thread's buffer   *)
(* in it: a store is seen when it enters the buffer and nothing happens     *)
(* when it leaves. LoneInv is the invariant: registers hold numbers of      *)
(* their width, other threads have neither a program nor stores under way   *)
(* nor a reservation.                                                       *)
(***************************************************************************)
EXTENDS MCIntegerUnit, TLAPS, FiniteSetTheorems, FunctionTheorems, SequenceTheorems
-----------------------------------------------------------------------------
(* Powers of two, numbers of bytes. 2 ^ n is known to the library as the    *)
(* number of subsets of a set of n elements.                                *)

LEMMA Interval ==
  ASSUME NEW a \in Nat, NEW n \in Nat
  PROVE  IsFiniteSet(a + 1 .. a + n) /\ Cardinality(a + 1 .. a + n) = n
<1>1. /\ IsFiniteSet(a + 1 .. a + n)
      /\ Cardinality(a + 1 .. a + n) = IF a + 1 > a + n THEN 0 ELSE a + n - (a + 1) + 1
  <2>1. \A x, y \in Int : /\ IsFiniteSet(x .. y)
                           /\ Cardinality(x .. y) = IF x > y THEN 0 ELSE y - x + 1
    BY FS_Interval
  <2>2. a + 1 \in Int /\ a + n \in Int OBVIOUS
  <2>. QED BY <2>1, <2>2
<1>2. CASE n = 0
  <2>1. a + 1 > a + n BY <1>2
  <2>. QED BY <1>1, <1>2, <2>1
<1>3. CASE n # 0
  <2>1. ~(a + 1 > a + n) /\ a + n - (a + 1) + 1 = n BY <1>3
  <2>. QED BY <1>1, <2>1
<1>. QED BY <1>2, <1>3

LEMMA PowerSum ==
  ASSUME NEW m \in Nat, NEW n \in Nat
  PROVE  2 ^ (m + n) = 2 ^ m * 2 ^ n
<1> DEFINE A == 1 .. m
           B == m + 1 .. m + n
           f == [p \in (SUBSET A) \X (SUBSET B) |-> p[1] \cup p[2]]
<1>1. /\ IsFiniteSet(A) /\ Cardinality(A) = m
      /\ IsFiniteSet(B) /\ Cardinality(B) = n
      /\ IsFiniteSet(1 .. m + n) /\ Cardinality(1 .. m + n) = m + n
  <2>1. IsFiniteSet(A) /\ Cardinality(A) = m BY Interval
  <2>2. IsFiniteSet(B) /\ Cardinality(B) = n BY Interval
  <2>3. IsFiniteSet(1 .. m + n) /\ Cardinality(1 .. m + n) = m + n
    <3>1. m + n \in Nat /\ 0 + (m + n) = m + n /\ 0 + 1 = 1 OBVIOUS
    <3>. QED BY <3>1, Interval
  <2>. QED BY <2>1, <2>2, <2>3
<1>2. A \cup B = 1 .. m + n /\ A \cap B = {} OBVIOUS
<1> HIDE DEF A, B
<1>3. f \in Bijection((SUBSET A) \X (SUBSET B), SUBSET (1 .. m + n))
  <2>1. f \in [(SUBSET A) \X (SUBSET B) -> SUBSET (1 .. m + n)] BY <1>2
  <2>2. \A p, q \in (SUBSET A) \X (SUBSET B) : f[p] = f[q] => p = q
    <3> SUFFICES ASSUME NEW p \in (SUBSET A) \X (SUBSET B), NEW q \in (SUBSET A) \X (SUBSET B),
                        f[p] = f[q]
                 PROVE  p = q
      OBVIOUS
    <3>1. p[1] \cup p[2] = q[1] \cup q[2] OBVIOUS
    <3>2. p[1] = q[1] BY <3>1, <1>2
    <3>3. p[2] = q[2] BY <3>1, <1>2
    <3>. QED BY <3>2, <3>3
  <2>3. \A S \in SUBSET (1 .. m + n) : \E p \in (SUBSET A) \X (SUBSET B) : f[p] = S
    <3> SUFFICES ASSUME NEW S \in SUBSET (1 .. m + n)
                 PROVE  \E p \in (SUBSET A) \X (SUBSET B) : f[p] = S
      OBVIOUS
    <3>1. <<S \cap A, S \cap B>> \in (SUBSET A) \X (SUBSET B) OBVIOUS
    <3>2. f[<<S \cap A, S \cap B>>] = (S \cap A) \cup (S \cap B) BY <3>1
    <3>3. (S \cap A) \cup (S \cap B) = S BY <1>2
    <3>. QED BY <3>1, <3>2, <3>3
  <2>. QED BY <2>1, <2>2, <2>3 DEF Bijection, Injection, Surjection, IsInjective
<1>4. /\ IsFiniteSet(SUBSET A) /\ Cardinality(SUBSET A) = 2 ^ m
      /\ IsFiniteSet(SUBSET B) /\ Cardinality(SUBSET B) = 2 ^ n
      /\ Cardinality(SUBSET (1 .. m + n)) = 2 ^ (m + n)
  BY <1>1, FS_SUBSET
<1>5. /\ IsFiniteSet((SUBSET A) \X (SUBSET B))
      /\ Cardinality((SUBSET A) \X (SUBSET B)) = 2 ^ m * 2 ^ n
  BY <1>4, FS_Product
<1>6. ExistsBijection((SUBSET A) \X (SUBSET B), SUBSET (1 .. m + n))
  BY <1>3 DEF ExistsBijection
<1>. QED BY <1>4, <1>5, <1>6, FS_Bijection

LEMMA PowerPositive ==
  ASSUME NEW n \in Nat
  PROVE  2 ^ n \in Nat \ {0}
<1>1. IsFiniteSet(1 .. n) /\ Cardinality(1 .. n) = n
  <2>1. 0 + 1 = 1 /\ 0 + n = n OBVIOUS
  <2>. QED BY <2>1, Interval
<1>2. IsFiniteSet(SUBSET (1 .. n)) /\ Cardinality(SUBSET (1 .. n)) = 2 ^ n
  BY <1>1, FS_SUBSET
<1>3. Cardinality(SUBSET (1 .. n)) # 0 BY <1>2, FS_EmptySet
<1>. QED BY <1>2, <1>3, FS_CardinalityType

-----------------------------------------------------------------------------
(* Division with a remainder, induction over a set of numbers.              *)

LEMMA Division ==
  ASSUME NEW M \in Nat \ {0}, NEW q \in Int, NEW e \in 0 .. M - 1
  PROVE  (q * M + e) \div M = q /\ (q * M + e) % M = e
<1> DEFINE x == q * M + e
           p == x \div M
           d == x % M
<1>1. x \in Int /\ p \in Int /\ d \in 0 .. M - 1 /\ x = M * p + d
  <2>1. x \in Int OBVIOUS
  <2>. HIDE DEF x
  <2>. QED BY <2>1
<1>2. M * (p - q) = e - d
  <2>1. x = q * M + e /\ q * M = M * q /\ M * (p - q) = M * p - M * q BY <1>1
  <2>2. M * p \in Int /\ M * q \in Int BY <1>1
  <2>. HIDE DEF x, p, d
  <2>. QED BY <1>1, <2>1, <2>2
<1> HIDE DEF x, p, d
<1>3. p = q
  <2>1. e - d < M /\ e - d > -M BY <1>1
  <2>2. CASE p - q >= 1
    <3>1. M * (p - q) >= M BY <1>1, <2>2
    <3>. QED BY <1>1, <1>2, <2>1, <3>1
  <2>3. CASE p - q <= -1
    <3>1. M * (p - q) <= -M BY <1>1, <2>3
    <3>. QED BY <1>1, <1>2, <2>1, <3>1
  <2>. QED BY <1>1, <2>2, <2>3
<1>4. d = e
  <2>1. M * (p - q) = 0 BY <1>1, <1>3
  <2>. QED BY <1>1, <1>2, <2>1
<1>. QED BY <1>3, <1>4 DEF x, p, d

LEMMA Remainder ==
  ASSUME NEW M \in Nat \ {0}, NEW x \in Int
  PROVE  /\ x \div M \in Int /\ x % M \in 0 .. M - 1
         /\ x = (x \div M) * M + (x % M)
         /\ x \in Nat => x \div M \in Nat
<1> DEFINE q == x \div M
           e == x % M
<1>2. q \in Int /\ e \in 0 .. M - 1 /\ x = M * q + e OBVIOUS
<1> HIDE DEF q, e
<1>3. q * M = M * q BY <1>2
<1>4. ASSUME x \in Nat
      PROVE  q \in Nat
  <2>1. CASE q <= -1
    <3>1. M * q <= -M BY <1>2, <2>1
    <3>. QED BY <1>2, <1>4, <3>1
  <2>. QED BY <1>2, <2>1
<1>5. q \in Int /\ e \in 0 .. M - 1 /\ x = q * M + e /\ (x \in Nat => q \in Nat)
  BY <1>2, <1>3, <1>4
<1>. QED BY <1>5 DEF q, e

\* Dividing twice is dividing by the product; the remainder by a product.
LEMMA DivideTwice ==
  ASSUME NEW M \in Nat \ {0}, NEW N \in Nat \ {0}, NEW x \in Int
  PROVE  /\ M * N \in Nat \ {0}
         /\ (x \div M) \div N = x \div (M * N)
         /\ x % (M * N) = (x % M) + M * ((x \div M) % N)
<1> DEFINE y == x \div M
           e == x % M
           z == y \div N
           d == y % N
<1>1. y \in Int /\ e \in 0 .. M - 1 /\ x = y * M + e BY Remainder
<1>2. z \in Int /\ d \in 0 .. N - 1 /\ y = z * N + d
  <2>. HIDE DEF y
  <2>. QED BY <1>1, Remainder
<1> HIDE DEF y, e, z, d
<1>3. M * N \in Nat \ {0} /\ M * d \in Int /\ e + M * d \in 0 .. M * N - 1
  <2>1. M * d \in Nat /\ M * N \in Nat /\ M * N >= 1 BY <1>2
  <2>2. M * d <= M * (N - 1) /\ M * (N - 1) = M * N - M BY <1>2
  <2>. QED BY <1>1, <2>1, <2>2
<1>4. x = z * (M * N) + (e + M * d)
  <2>1. y * M = z * (M * N) + M * d BY <1>2
  <2>2. y * M \in Int /\ z * (M * N) \in Int BY <1>1, <1>2
  <2>. QED BY <1>1, <1>3, <2>1, <2>2
<1> DEFINE L == M * N
           c == e + M * d
<1>5. L \in Nat \ {0} /\ c \in 0 .. L - 1 /\ x = z * L + c BY <1>3, <1>4
<1> HIDE DEF L, c
<1>6. x \div L = z /\ x % L = c BY <1>2, <1>5, Division
<1>. QED BY <1>3, <1>6 DEF L, c, d, e, y, z

LEMMA Induction ==
  ASSUME NEW S, 0 \in S, \A n \in Nat : n \in S => n + 1 \in S
  PROVE  \A n \in Nat : n \in S
<1> SUFFICES ASSUME \E n \in Nat : n \notin S
             PROVE  FALSE
  OBVIOUS
<1> DEFINE T == {n \in Nat : n \notin S}
           R1 == OpToRel(<, Nat)
<1>1. PICK i \in T : \A j \in T : ~(<<j, i>> \in R1)
  <2>1. IsWellFoundedOn(R1, Nat) BY NatLessThanWellFounded
  <2>2. T # {} /\ T \in SUBSET Nat OBVIOUS
  <2>. HIDE DEF R1, T
  <2>. QED BY <2>1, <2>2, WFMin
<1>2. \A j \in T : ~(j < i) BY <1>1 DEF OpToRel
<1>3. i # 0 /\ i - 1 \in Nat /\ (i - 1) + 1 = i OBVIOUS
<1>4. i - 1 \notin T BY <1>2, <1>3
<1>. QED BY <1>3, <1>4

-----------------------------------------------------------------------------
(* The place of a byte in a number.                                         *)

Place(k) == 2 ^ (k * (W \div 4))

LEMMA Places ==
  /\ W \div 4 \in Nat \ {0} /\ W = 4 * (W \div 4)
  /\ Byte \in Nat /\ Byte >= 2
  /\ Place(0) = 1
  /\ \A k \in Nat : Place(k) \in Nat \ {0} /\ Place(k + 1) = Place(k) * Byte
<1>1. W \div 4 \in Nat \ {0} /\ W = 4 * (W \div 4) BY WAssumption
<1> DEFINE Q == W \div 4
<1>2. Q \in Nat \ {0} BY <1>1
<1> HIDE DEF Q
<1>3. Byte = 2 ^ Q BY DEF Byte, Q
<1>4. Byte \in Nat /\ Byte >= 2
  <2>1. Q - 1 \in Nat /\ 1 + (Q - 1) = Q BY <1>2
  <2>2. 2 ^ Q = 2 ^ 1 * 2 ^ (Q - 1) BY <2>1, PowerSum
  <2>3. 2 ^ 1 = 2 OBVIOUS
  <2>4. 2 ^ (Q - 1) \in Nat \ {0} BY <2>1, PowerPositive
  <2>. QED BY <1>3, <2>2, <2>3, <2>4
<1>5. Place(0) = 1
  <2>1. 0 * Q = 0 /\ 2 ^ 0 = 1 BY <1>2
  <2>. QED BY <2>1 DEF Place, Q
<1>6. ASSUME NEW k \in Nat
      PROVE  Place(k) \in Nat \ {0} /\ Place(k + 1) = Place(k) * Byte
  <2>1. k * Q \in Nat /\ (k + 1) * Q = k * Q + Q BY <1>2
  <2>2. Place(k) \in Nat \ {0} BY <2>1, PowerPositive DEF Place, Q
  <2>3. 2 ^ (k * Q + Q) = 2 ^ (k * Q) * 2 ^ Q BY <2>1, <1>2, PowerSum
  <2>. QED BY <1>3, <2>1, <2>2, <2>3 DEF Place, Q
<1>. QED BY <1>1, <1>4, <1>5, <1>6

\* What FromBytes adds up, from byte k on.
Sums(n, b, f) == f = [k \in 0 .. n |-> IF k = n THEN 0 ELSE b[k] + Byte * f[k + 1]]

LEMMA SumsExist ==
  ASSUME NEW n \in Nat, NEW b \in [0 .. n - 1 -> 0 .. Byte - 1]
  PROVE  \E f : Sums(n, b, f)
<1> DEFINE From(j, g) == g = [k \in n - j .. n |-> IF k = n THEN 0 ELSE b[k] + Byte * g[k + 1]]
           S == {j \in Nat : j <= n => \E g : From(j, g)}
<1>1. 0 \in S
  <2>1. From(0, [k \in n - 0 .. n |-> 0]) OBVIOUS
  <2>. QED BY <2>1
<1>2. ASSUME NEW j \in Nat, j \in S
      PROVE  j + 1 \in S
  <2> SUFFICES ASSUME j + 1 <= n
               PROVE  \E g : From(j + 1, g)
    OBVIOUS
  <2>1. PICK g : From(j, g) BY <1>2
  <2> DEFINE m == n - (j + 1)
             h == [k \in m .. n |-> IF k = m THEN b[k] + Byte * g[k + 1] ELSE g[k]]
  <2>2. m \in Nat /\ m + 1 = n - j /\ m # n /\ m <= n OBVIOUS
  <2> HIDE DEF m
  <2>3. ASSUME NEW k \in m .. n
        PROVE  h[k] = IF k = n THEN 0 ELSE b[k] + Byte * h[k + 1]
    <3>1. CASE k = m
      <4>1. k + 1 \in m .. n /\ k + 1 # m BY <2>2, <3>1
      <4>. QED BY <2>2, <3>1, <4>1
    <3>2. CASE k # m
      <4>1. k \in n - j .. n /\ h[k] = g[k] BY <2>2, <3>2
      <4>2. g[k] = IF k = n THEN 0 ELSE b[k] + Byte * g[k + 1] BY <2>1, <4>1
      <4>3. k # n => k + 1 \in m .. n /\ k + 1 # m BY <2>2
      <4>. QED BY <4>1, <4>2, <4>3
    <3>. QED BY <3>1, <3>2
  <2>4. From(j + 1, h)
    <3>1. h = [k \in m .. n |-> h[k]] OBVIOUS
    <3>. HIDE DEF h
    <3>. QED BY <2>3, <3>1 DEF m
  <2>. QED BY <2>4
<1>3. \A j \in Nat : j \in S
  <2>. HIDE DEF S
  <2>. QED BY <1>1, <1>2, Induction
<1>4. PICK g : From(n, g) BY <1>3
<1>5. n - n = 0 OBVIOUS
<1>. QED BY <1>4, <1>5 DEF Sums

LEMMA FromBytesSums ==
  ASSUME NEW n \in Nat, NEW b \in [0 .. n - 1 -> 0 .. Byte - 1]
  PROVE  \E f : Sums(n, b, f) /\ FromBytes(n, b) = f[0]
<1>1. FromBytes(n, b) = (CHOOSE f : Sums(n, b, f))[0] BY DEF FromBytes, Sums
<1>. QED BY <1>1, SumsExist

\* The sums from byte k on are a number of as many bytes as are left.
LEMMA SumsBound ==
  ASSUME NEW n \in Nat, NEW b \in [0 .. n - 1 -> 0 .. Byte - 1], NEW f, Sums(n, b, f)
  PROVE  \A k \in 0 .. n : f[k] \in 0 .. Place(n - k) - 1
<1> DEFINE S == {j \in Nat : j <= n => f[n - j] \in 0 .. Place(j) - 1}
<1>1. 0 \in S BY Places DEF Sums
<1>2. ASSUME NEW j \in Nat, j \in S
      PROVE  j + 1 \in S
  <2> SUFFICES ASSUME j + 1 <= n
               PROVE  f[n - (j + 1)] \in 0 .. Place(j + 1) - 1
    OBVIOUS
  <2> DEFINE m == n - (j + 1)
  <2>1. m \in 0 .. n - 1 /\ m \in 0 .. n /\ m # n /\ m + 1 = n - j OBVIOUS
  <2> HIDE DEF m
  <2>2. f[m] = b[m] + Byte * f[m + 1] /\ b[m] \in 0 .. Byte - 1 BY <2>1 DEF Sums
  <2>3. f[m + 1] \in 0 .. Place(j) - 1 BY <1>2, <2>1
  <2>4. Byte \in Nat /\ Place(j) \in Nat /\ Place(j + 1) = Place(j) * Byte
    BY Places
  <2> DEFINE x == b[m]
             y == f[m + 1]
             p == Place(j)
  <2>5. x \in 0 .. Byte - 1 /\ y \in 0 .. p - 1 /\ p \in Nat /\ Byte \in Nat
    BY <2>2, <2>3, <2>4
  <2>6. x + Byte * y \in 0 .. (p * Byte) - 1
    <3>. HIDE DEF x, y, p
    <3>1. Byte * y \in Nat /\ Byte * y <= Byte * (p - 1) /\ Byte * (p - 1) = p * Byte - Byte
      BY <2>5
    <3>. QED BY <2>5, <3>1
  <2>7. f[m] \in 0 .. Place(j + 1) - 1 BY <2>2, <2>4, <2>6
  <2>. QED BY <2>7 DEF m
<1>3. \A j \in Nat : j \in S
  <2>. HIDE DEF S
  <2>. QED BY <1>1, <1>2, Induction
<1>. QED
  <2> SUFFICES ASSUME NEW k \in 0 .. n
               PROVE  f[k] \in 0 .. Place(n - k) - 1
    OBVIOUS
  <2>1. n - k \in Nat /\ n - k <= n /\ n - (n - k) = k OBVIOUS
  <2>2. f[n - (n - k)] \in 0 .. Place(n - k) - 1 BY <1>3, <2>1
  <2>. QED BY <2>1, <2>2

\* The number is what the bytes before k make, below the sums from k on.
LEMMA SumsSplit ==
  ASSUME NEW n \in Nat, NEW b \in [0 .. n - 1 -> 0 .. Byte - 1], NEW f, Sums(n, b, f)
  PROVE  \A k \in 0 .. n : \E e \in 0 .. Place(k) - 1 : f[0] = f[k] * Place(k) + e
<1> DEFINE P(k) == \E e \in 0 .. Place(k) - 1 : f[0] = f[k] * Place(k) + e
           S == {k \in Nat : k <= n => P(k)}
<1>0. \A k \in 0 .. n : f[k] \in Nat
  <2>1. \A k \in 0 .. n : f[k] \in 0 .. Place(n - k) - 1 BY SumsBound
  <2>. QED BY <2>1
<1>1. 0 \in S
  <2>1. 0 \in 0 .. Place(0) - 1 /\ f[0] = f[0] * Place(0) + 0
    <3>1. f[0] \in Nat /\ f[0] = f[0] * 1 + 0 BY <1>0
    <3>2. Place(0) = 1 BY Places
    <3>. QED BY <3>1, <3>2
  <2>. QED BY <2>1
<1>2. ASSUME NEW k \in Nat, k \in S
      PROVE  k + 1 \in S
  <2> SUFFICES ASSUME k + 1 <= n
               PROVE  P(k + 1)
    OBVIOUS
  <2>1. k \in 0 .. n /\ k # n /\ k \in 0 .. n - 1 /\ k + 1 \in 0 .. n OBVIOUS
  <2>2. PICK e \in 0 .. Place(k) - 1 : f[0] = f[k] * Place(k) + e BY <1>2, <2>1
  <2> DEFINE x == b[k]
             y == f[k + 1]
             p == Place(k)
  <2>3. f[k] = x + Byte * y /\ x \in 0 .. Byte - 1 /\ y \in Nat
    BY <1>0, <2>1 DEF Sums
  <2>4. Byte \in Nat /\ p \in Nat \ {0} /\ Place(k + 1) = p * Byte BY Places
  <2>5. e \in 0 .. p - 1 /\ f[0] = f[k] * p + e BY <2>2
  <2> HIDE DEF x, y, p
  <2>6. f[0] = y * (p * Byte) + (x * p + e)
    <3>1. (x + Byte * y) * p = x * p + y * (p * Byte) BY <2>3, <2>4
    <3>2. x * p \in Int /\ y * (p * Byte) \in Int BY <2>3, <2>4
    <3>. QED BY <2>3, <2>5, <3>1, <3>2
  <2>7. x * p + e \in 0 .. (p * Byte) - 1
    <3>1. x * p \in Nat /\ x * p <= (Byte - 1) * p /\ (Byte - 1) * p = p * Byte - p
      BY <2>3, <2>4
    <3>2. p * Byte \in Nat BY <2>4
    <3>. QED BY <2>4, <2>5, <3>1, <3>2, SMTT(30)
  <2>. QED BY <2>4, <2>6, <2>7 DEF y
<1>3. \A j \in Nat : j \in S
  <2>. HIDE DEF S
  <2>. QED BY <1>1, <1>2, Induction
<1>. QED BY <1>3

\* Taking bytes out of a number undoes putting them together, and the other
\* way around.
LEMMA BytesOfNumber ==
  ASSUME NEW n \in Nat, NEW b \in [0 .. n - 1 -> 0 .. Byte - 1]
  PROVE  /\ FromBytes(n, b) \in 0 .. Place(n) - 1
         /\ \A k \in 0 .. n - 1 : ByteOf(FromBytes(n, b), k) = b[k]
<1>1. PICK f : Sums(n, b, f) /\ FromBytes(n, b) = f[0] BY FromBytesSums
<1>2. \A k \in 0 .. n : f[k] \in 0 .. Place(n - k) - 1 BY <1>1, SumsBound
<1>3. FromBytes(n, b) \in 0 .. Place(n) - 1
  <2>1. 0 \in 0 .. n /\ n - 0 = n OBVIOUS
  <2>. QED BY <1>1, <1>2, <2>1
<1>4. ASSUME NEW k \in 0 .. n - 1
      PROVE  ByteOf(f[0], k) = b[k]
  <2>1. k \in 0 .. n /\ k # n /\ k + 1 \in 0 .. n /\ k \in Nat OBVIOUS
  <2>2. PICK e \in 0 .. Place(k) - 1 : f[0] = f[k] * Place(k) + e
    BY <1>1, <2>1, SumsSplit
  <2>3. f[k] \in Int /\ f[k + 1] \in Int BY <1>2, <2>1
  <2>4. Place(k) \in Nat \ {0} /\ Byte \in Nat \ {0} BY <2>1, Places
  <2>5. f[0] \div Place(k) = f[k] BY <2>2, <2>3, <2>4, Division
  <2>6. f[k] = f[k + 1] * Byte + b[k] /\ b[k] \in 0 .. Byte - 1
    <3>1. f[k] = b[k] + Byte * f[k + 1] /\ b[k] \in 0 .. Byte - 1
      BY <1>1, <2>1 DEF Sums
    <3>2. \A x, y, z \in Int : x + y * z = z * y + x OBVIOUS
    <3>3. b[k] \in Int /\ Byte \in Int BY <2>4, <3>1
    <3>. QED BY <2>3, <3>1, <3>2, <3>3
  <2>7. f[k] % Byte = b[k]
    <3>1. \A q \in Int, e1 \in 0 .. Byte - 1 : (q * Byte + e1) % Byte = e1
      BY <2>4, Division
    <3>2. (f[k + 1] * Byte + b[k]) % Byte = b[k] BY <2>3, <2>6, <3>1
    <3>. QED BY <2>6, <3>2
  <2>. QED BY <2>5, <2>7 DEF ByteOf, Place
<1>. QED BY <1>1, <1>3, <1>4

LEMMA ByteType ==
  ASSUME NEW x \in Int, NEW k \in Nat
  PROVE  ByteOf(x, k) \in 0 .. Byte - 1
<1>1. Place(k) \in Nat \ {0} /\ Byte \in Nat \ {0} BY Places
<1>2. x \div Place(k) \in Int BY <1>1, Remainder
<1>3. (x \div Place(k)) % Byte \in 0 .. Byte - 1 BY <1>1, <1>2, Remainder
<1>. QED BY <1>3 DEF ByteOf, Place

LEMMA NumberOfBytes ==
  ASSUME NEW n \in Nat, NEW x \in Int
  PROVE  FromBytes(n, [k \in 0 .. n - 1 |-> ByteOf(x, k)]) = x % Place(n)
<1> DEFINE b == [k \in 0 .. n - 1 |-> ByteOf(x, k)]
           S == {j \in Nat : j <= n => \A f : Sums(n, b, f) =>
                    f[n - j] = (x \div Place(n - j)) % Place(j)}
<1>1. b \in [0 .. n - 1 -> 0 .. Byte - 1]
  <2>1. \A k \in 0 .. n - 1 : k \in Nat OBVIOUS
  <2>. QED BY <2>1, ByteType
<1>2. \A k \in 0 .. n - 1 : b[k] = (x \div Place(k)) % Byte BY DEF ByteOf, Place
<1> HIDE DEF b
<1>3. 0 \in S
  <2> SUFFICES ASSUME NEW f, Sums(n, b, f)
               PROVE  f[n - 0] = (x \div Place(n - 0)) % Place(0)
    OBVIOUS
  <2>1. f[n] = 0 /\ n - 0 = n BY DEF Sums
  <2>2. Place(n) \in Nat \ {0} /\ Place(0) = 1 BY Places
  <2>3. x \div Place(n) \in Int BY <2>2, Remainder
  <2>4. (x \div Place(n)) % 1 = 0 BY <2>3
  <2>. QED BY <2>1, <2>2, <2>4
<1>4. ASSUME NEW j \in Nat, j \in S
      PROVE  j + 1 \in S
  <2> SUFFICES ASSUME j + 1 <= n, NEW f, Sums(n, b, f)
               PROVE  f[n - (j + 1)] = (x \div Place(n - (j + 1))) % Place(j + 1)
    OBVIOUS
  <2> DEFINE m == n - (j + 1)
  <2>1. m \in Nat /\ m \in 0 .. n - 1 /\ m \in 0 .. n /\ m # n /\ m + 1 = n - j
    OBVIOUS
  <2> HIDE DEF m
  <2>2. f[m] = b[m] + Byte * f[m + 1] BY <2>1 DEF Sums
  <2>3. f[m + 1] = (x \div Place(m + 1)) % Place(j) BY <1>4, <2>1
  <2>4. /\ Byte \in Nat \ {0} /\ Place(j) \in Nat \ {0} /\ Place(j + 1) = Place(j) * Byte
        /\ Place(m) \in Nat \ {0} /\ Place(m + 1) = Place(m) * Byte
    BY <2>1, Places
  <2> DEFINE y == x \div Place(m)
  <2>5. y \in Int BY <2>4, Remainder
  <2>6. x \div Place(m + 1) = y \div Byte
    <3>1. (x \div Place(m)) \div Byte = x \div (Place(m) * Byte)
      BY <2>4, DivideTwice
    <3>. QED BY <2>4, <3>1
  <2> HIDE DEF y
  <2>7. y % (Byte * Place(j)) = (y % Byte) + Byte * ((y \div Byte) % Place(j))
    BY <2>4, <2>5, DivideTwice
  <2>8. Byte * Place(j) = Place(j + 1) BY <2>4
  <2>9. b[m] = y % Byte BY <1>2, <2>1 DEF y
  <2>10. f[m] = y % Place(j + 1) BY <2>2, <2>3, <2>6, <2>7, <2>8, <2>9
  <2>. QED BY <2>10 DEF y, m
<1>5. \A j \in Nat : j \in S
  <2>. HIDE DEF S
  <2>. QED BY <1>3, <1>4, Induction
<1>6. PICK f : Sums(n, b, f) /\ FromBytes(n, b) = f[0] BY <1>1, FromBytesSums
<1>7. n - n = 0 /\ Place(0) = 1 /\ x \div 1 = x BY Places
<1>8. f[n - n] = (x \div Place(n - n)) % Place(n) BY <1>5, <1>6
<1>9. FromBytes(n, b) = x % Place(n) BY <1>6, <1>7, <1>8
<1>. QED BY <1>9 DEF b

-----------------------------------------------------------------------------
(* Words and doublewords of bytes.                                          *)

LEMMA Widths ==
  /\ Place(4) = Word /\ Place(8) = DWord
  /\ Word \in Nat /\ Word >= 16 /\ DWord \in Nat /\ DWord = Word * Word
<1>1. 4 * (W \div 4) = W /\ 8 * (W \div 4) = 2 * W /\ W \in Nat /\ 2 * W = W + W
  BY WAssumption
<1>2. Place(4) = Word /\ Place(8) = DWord BY <1>1 DEF Place, Word, DWord
<1>3. DWord = Word * Word BY <1>1, PowerSum DEF Word, DWord
<1>4. Word \in Nat /\ Word >= 16
  <2>1. Byte \in Nat /\ Byte >= 2 BY Places
  <2>2. /\ Place(1) = Byte /\ Place(2) = Byte * Byte /\ Place(3) = Byte * Byte * Byte
        /\ Place(4) = Byte * Byte * Byte * Byte
    <3>1. /\ Place(0) = 1 /\ Place(0 + 1) = Place(0) * Byte /\ Place(1 + 1) = Place(1) * Byte
          /\ Place(2 + 1) = Place(2) * Byte /\ Place(3 + 1) = Place(3) * Byte
      BY Places
    <3>2. 0 + 1 = 1 /\ 1 + 1 = 2 /\ 2 + 1 = 3 /\ 3 + 1 = 4 /\ 1 * Byte = Byte
      BY <2>1
    <3>. QED BY <3>1, <3>2
  <2>3. Byte * Byte \in Nat /\ Byte * Byte >= 4 BY <2>1
  <2>4. Byte * Byte * Byte * Byte = (Byte * Byte) * (Byte * Byte) BY <2>1
  <2>5. \A x \in Nat : x >= 4 => x * x \in Nat /\ x * x >= 16 OBVIOUS
  <2>. QED BY <1>2, <2>2, <2>3, <2>4, <2>5
<1>5. DWord \in Nat BY <1>3, <1>4
<1>. QED BY <1>2, <1>3, <1>4, <1>5

-----------------------------------------------------------------------------
(* Threads that all run one of the programs with atomic instructions.       *)

\* The number the console has in n bytes from a on.
Number(m, a, n) == bswap(n, Raw(m, a, n))

Alike(p) == prog = [t \in Threads |-> p]
CRField == [lt : {0, 1}, gt : {0, 1}, eq : {0, 1}, so : {0, 1}]
Bytes == [0 .. 15 -> 0 .. Byte - 1]
Typed ==
    /\ r \in [Threads -> [0 .. 5 -> Nat]] /\ \A t \in Threads : r[t][1] = 8 /\ r[t][2] = 4
    /\ xer \in [Threads -> [so : {0, 1}, ca : {0, 1}]]
    /\ cr \in [Threads -> [0 .. (W \div 4) - 1 -> CRField]]
    /\ reserved \in [Threads -> Nat]
    /\ mem \in Bytes
Placed == pc \in [Threads -> Nat] /\ DOMAIN buffer = Threads
Succeeded(t) == cr[t][0].eq = 1
\* The number a thread's last lwarx or ldarx has read.
Read(t, n) == bswap(n, reserved[t] % Place(n))

\* Increment and IncrementDouble, of the n bytes from a on.
Increments(p, n, a) ==
    \/ p = Increment /\ n = 4 /\ a = 8
    \/ p = IncrementDouble /\ n = 8 /\ a = 4
Counted(t) == pc[t] = 5 \/ (pc[t] = 4 /\ Succeeded(t))
Counting(t, n) ==
    /\ pc[t] \in 1 .. 5
    /\ pc[t] = 2 => r[t][3] = Read(t, n)
    /\ pc[t] = 3 => r[t][3] % Place(n) = (Read(t, n) + 1) % Place(n)
    /\ buffer[t] = <<>>
CountInv(n, a) ==
    /\ Typed /\ Placed
    /\ \A t \in Threads : Counting(t, n)
    /\ Number(mem, a, n) = Cardinality({t \in Threads : Counted(t)}) % Place(n)

\* Locked. A store of the counter, or of the lock that is given back, that
\* waits in a buffer.
StoreOf(a, x) == RawBytes(a, 4, bswap(4, x))
Owner(t) ==
    \/ pc[t] \in 7 .. 13
    \/ pc[t] = 6 /\ Succeeded(t)
    \/ pc[t] = 14 /\ buffer[t] # <<>>
\* Its increment is in the memory.
Stored(t) ==
    \/ pc[t] \in 11 .. 13 /\ buffer[t] = <<>>
    \/ pc[t] = 14 /\ Len(buffer[t]) <= 1
Incremented == (Number(mem, 12, 4) + 1) % Word
Locking(t) ==
    /\ pc[t] \in 1 .. 14
    /\ pc[t] \in 2 .. 5 => r[t][3] = Read(t, 4)
    /\ pc[t] = 3 => (Succeeded(t) <=> r[t][3] = 0)
    /\ pc[t] \in 4 .. 5 => r[t][3] = 0
    /\ pc[t] = 5 => r[t][4] = 1
    /\ pc[t] = 9 => r[t][5] = Number(mem, 12, 4)
    /\ pc[t] = 10 => r[t][5] % Word = Incremented
    /\ pc[t] = 13 => r[t][4] = 0
Pending(t) ==
    /\ pc[t] \in 1 .. 10 => buffer[t] = <<>>
    /\ pc[t] \in 11 .. 13 => buffer[t] = <<>> \/ buffer[t] = <<StoreOf(12, Incremented)>>
    /\ pc[t] = 14 => \/ buffer[t] = <<>>
                     \/ buffer[t] = <<StoreOf(8, 0)>>
                     \/ buffer[t] = <<StoreOf(12, Incremented), StoreOf(8, 0)>>
LockInv ==
    /\ Typed /\ Placed
    /\ \A t \in Threads : Locking(t) /\ Pending(t)
    /\ \A t, u \in Threads : Owner(t) /\ Owner(u) => t = u
    /\ Number(mem, 8, 4) = Bit(\E t \in Threads : Owner(t))
    /\ Number(mem, 12, 4) = Cardinality({t \in Threads : Stored(t)}) % Word

\* Swapping twice gives the number back, cut to its bytes.
LEMMA Swapped ==
  ASSUME NEW n \in Nat, NEW x \in Int
  PROVE  /\ bswap(n, x) \in 0 .. Place(n) - 1
         /\ \A k \in 0 .. n - 1 : ByteOf(bswap(n, x), n - 1 - k) = ByteOf(x, k)
         /\ bswap(n, bswap(n, x)) = x % Place(n)
<1> DEFINE b == [k \in 0 .. n - 1 |-> ByteOf(x, n - 1 - k)]
           y == bswap(n, x)
<1>1. b \in [0 .. n - 1 -> 0 .. Byte - 1]
  <2>1. \A k \in 0 .. n - 1 : n - 1 - k \in Nat OBVIOUS
  <2>. QED BY <2>1, ByteType
<1>2. y = FromBytes(n, b) BY DEF bswap
<1>3. /\ y \in 0 .. Place(n) - 1
      /\ \A k \in 0 .. n - 1 : ByteOf(y, k) = b[k]
  <2>. HIDE DEF b, y
  <2>. QED BY <1>1, <1>2, BytesOfNumber
<1>4. \A k \in 0 .. n - 1 : /\ n - 1 - k \in 0 .. n - 1
                            /\ n - 1 - (n - 1 - k) = k
  OBVIOUS
<1>5. \A k \in 0 .. n - 1 : ByteOf(y, n - 1 - k) = ByteOf(x, k)
  <2>. HIDE DEF y
  <2>. QED BY <1>3, <1>4
<1>6. bswap(n, y) = FromBytes(n, [k \in 0 .. n - 1 |-> ByteOf(x, k)])
  <2>. HIDE DEF y
  <2>1. [k \in 0 .. n - 1 |-> ByteOf(y, n - 1 - k)] = [k \in 0 .. n - 1 |-> ByteOf(x, k)]
    BY <1>5
  <2>. QED BY <2>1 DEF bswap
<1>. QED BY <1>3, <1>5, <1>6, NumberOfBytes

LEMMA SwapCuts ==
  ASSUME NEW n \in Nat, NEW x \in Int
  PROVE  bswap(n, x % Place(n)) = bswap(n, x)
<1> DEFINE y == bswap(n, x)
<1>1. Place(n) \in Nat \ {0} BY Places
<1>2. y \in 0 .. Place(n) - 1 /\ bswap(n, y) = x % Place(n) BY Swapped
<1> HIDE DEF y
<1>3. bswap(n, bswap(n, y)) = y % Place(n) BY <1>1, <1>2, Swapped
<1>4. y % Place(n) = y BY <1>1, <1>2
<1>. QED BY <1>2, <1>3, <1>4 DEF y

-----------------------------------------------------------------------------
(* Reading and writing memory.                                              *)

LEMMA RawType ==
  ASSUME NEW m \in Bytes, NEW n \in Nat, NEW a \in Nat, a + n <= 16
  PROVE  /\ Raw(m, a, n) \in 0 .. Place(n) - 1
         /\ \A k \in 0 .. n - 1 : ByteOf(Raw(m, a, n), k) = m[a + k]
<1> DEFINE b == [k \in 0 .. n - 1 |-> m[a + k]]
<1>1. b \in [0 .. n - 1 -> 0 .. Byte - 1] BY DEF Bytes
<1>2. Raw(m, a, n) = FromBytes(n, b) BY DEF Raw
<1>3. \A k \in 0 .. n - 1 : b[k] = m[a + k] OBVIOUS
<1> HIDE DEF b
<1>. QED BY <1>1, <1>2, <1>3, BytesOfNumber

LEMMA NumberType ==
  ASSUME NEW m \in Bytes, NEW n \in Nat, NEW a \in Nat, a + n <= 16
  PROVE  /\ Number(m, a, n) \in 0 .. Place(n) - 1
         /\ bswap(n, Number(m, a, n)) = Raw(m, a, n)
<1>1. Place(n) \in Nat \ {0} BY Places
<1>2. Raw(m, a, n) \in 0 .. Place(n) - 1 BY RawType
<1>3. Raw(m, a, n) \in Int /\ Raw(m, a, n) % Place(n) = Raw(m, a, n)
  BY <1>1, <1>2
<1>. QED BY <1>3, Swapped DEF Number

\* What memory is after a store.
After(m, a, n, x) == Over(RawBytes(a, n, bswap(n, x)), m)

LEMMA AfterIs ==
  ASSUME NEW m \in Bytes, NEW n \in Nat, NEW a \in Nat, a + n <= 16, NEW x \in Int
  PROVE  /\ After(m, a, n, x) \in Bytes
         /\ \A k \in 0 .. n - 1 : After(m, a, n, x)[a + k] = ByteOf(bswap(n, x), k)
         /\ \A c \in 0 .. 15 : c \notin a .. a + n - 1 => After(m, a, n, x)[c] = m[c]
<1> DEFINE s == RawBytes(a, n, bswap(n, x))
<1>1. s = [c \in a .. a + n - 1 |-> ByteOf(bswap(n, x), c - a)] BY DEF RawBytes
<1>2. bswap(n, x) \in Int
  <2>1. Place(n) \in Nat \ {0} /\ bswap(n, x) \in 0 .. Place(n) - 1
    BY Places, Swapped
  <2>. QED BY <2>1
<1>3. \A c \in a .. a + n - 1 : c - a \in Nat /\ s[c] \in 0 .. Byte - 1
  <2>1. \A c \in a .. a + n - 1 : c - a \in Nat OBVIOUS
  <2>. QED BY <1>1, <1>2, <2>1, ByteType
<1>4. DOMAIN s = a .. a + n - 1 BY <1>1
<1>5. After(m, a, n, x) = [c \in (a .. a + n - 1) \cup (0 .. 15) |->
                              IF c \in a .. a + n - 1 THEN s[c] ELSE m[c]]
  <2>1. DOMAIN m = 0 .. 15 BY DEF Bytes
  <2>. HIDE DEF s
  <2>. QED BY <1>4, <2>1 DEF After, s, Over
<1>6. (a .. a + n - 1) \cup (0 .. 15) = 0 .. 15 OBVIOUS
<1>7. \A k \in 0 .. n - 1 : /\ a + k \in a .. a + n - 1 /\ (a + k) - a = k /\ a + k \in 0 .. 15
                            /\ s[a + k] = ByteOf(bswap(n, x), k)
  <2>1. \A k \in 0 .. n - 1 : a + k \in a .. a + n - 1 /\ (a + k) - a = k /\ a + k \in 0 .. 15
    OBVIOUS
  <2>. QED BY <1>1, <2>1
<1> HIDE DEF s
<1>. QED BY <1>3, <1>5, <1>6, <1>7 DEF Bytes

\* What a store of a number leaves in memory, its bytes swapped, is read back as
\* that number, cut to its bytes.
LEMMA RawAfter ==
  ASSUME NEW m \in Bytes, NEW n \in Nat, NEW a \in Nat, a + n <= 16, NEW x \in Int
  PROVE  Number(After(m, a, n, x), a, n) = x % Place(n)
<1> DEFINE y == bswap(n, x)
           w == After(m, a, n, x)
<1>1. y \in 0 .. Place(n) - 1 /\ bswap(n, y) = x % Place(n) /\ Place(n) \in Nat \ {0}
  BY Swapped, Places
<1>2. \A k \in 0 .. n - 1 : w[a + k] = ByteOf(y, k) BY AfterIs
<1> HIDE DEF y, w
<1>3. Raw(w, a, n) = FromBytes(n, [k \in 0 .. n - 1 |-> ByteOf(y, k)])
  <2>1. [k \in 0 .. n - 1 |-> w[a + k]] = [k \in 0 .. n - 1 |-> ByteOf(y, k)]
    BY <1>2
  <2>. QED BY <2>1 DEF Raw
<1>4. Raw(w, a, n) = y
  <2>1. y \in Int /\ y % Place(n) = y BY <1>1
  <2>. QED BY <1>3, <2>1, NumberOfBytes
<1>. QED BY <1>1, <1>4 DEF Number, w

LEMMA ElsewhereAfter ==
  ASSUME NEW m \in Bytes, NEW n \in Nat, NEW a \in Nat, a + n <= 16, NEW x \in Int,
         NEW k \in Nat, NEW c \in Nat, c + k <= 16, c + k <= a \/ a + n <= c
  PROVE  Number(After(m, a, n, x), c, k) = Number(m, c, k)
<1>1. \A j \in 0 .. k - 1 : c + j \in 0 .. 15 /\ c + j \notin a .. a + n - 1
  OBVIOUS
<1>2. \A j \in 0 .. k - 1 : After(m, a, n, x)[c + j] = m[c + j]
  <2>1. \A e \in 0 .. 15 : e \notin a .. a + n - 1 => After(m, a, n, x)[e] = m[e]
    BY AfterIs, ZenonT(30)
  <2>. QED BY <1>1, <2>1
<1>3. [j \in 0 .. k - 1 |-> After(m, a, n, x)[c + j]] = [j \in 0 .. k - 1 |-> m[c + j]]
  BY <1>2
<1>. QED BY <1>3 DEF Number, Raw

-----------------------------------------------------------------------------
(* The instructions of these programs: which table each is in, so which     *)
(* action runs it, and what that does.                                      *)

LoadNames ==
    {"lbz", "lbzx", "lbzu", "ld", "ldx", "ldu", "lha", "lhax", "lhz", "lhzx", "lwa", "lwax",
     "lwbrx", "lwz", "lwzx", "lwzu", "lbzux", "ldux", "lhau", "lhzu", "lhzux", "lwzux"}
StoreNames ==
    {"stb", "stbx", "stbu", "std", "stdx", "stdu", "sth", "sthx", "sthbrx", "stw", "stwx", "stwbrx",
     "stwu", "stwux", "stbux", "stdux", "sthu", "sthux"}

LEMMA LoadTable == DOMAIN Loads = LoadNames /\ Loads["lwz"] = Plain(4, FALSE, FALSE)
<1>1. /\ DOMAIN ByteLoads = {"lbz", "lbzx", "lbzu"}
      /\ DOMAIN DoubleLoads = {"ld", "ldx", "ldu"}
      /\ DOMAIN HalfLoads = {"lha", "lhax", "lhz", "lhzx"}
      /\ DOMAIN LateLoads = {"lbzux", "ldux", "lhau", "lhzu", "lhzux", "lwzux"}
  BY DEF ByteLoads, DoubleLoads, HalfLoads, LateLoads
<1>2. /\ DOMAIN WordLoads = {"lwa", "lwax", "lwbrx", "lwz", "lwzx", "lwzu"}
      /\ WordLoads["lwz"] = Plain(4, FALSE, FALSE)
  BY DEF WordLoads
<1> DEFINE late == Over(WordLoads, LateLoads)
           half == Over(HalfLoads, late)
           double == Over(DoubleLoads, half)
<1>3. Loads = Over(ByteLoads, double) BY DEF Loads
<1>4. DOMAIN late = DOMAIN WordLoads \cup DOMAIN LateLoads /\ late["lwz"] = WordLoads["lwz"]
  BY <1>2 DEF Over
<1> HIDE DEF late
<1>5. DOMAIN half = DOMAIN HalfLoads \cup DOMAIN late /\ half["lwz"] = late["lwz"]
  <2>1. "lwz" \in DOMAIN late /\ "lwz" \notin DOMAIN HalfLoads
    BY <1>1, <1>2, <1>4
  <2>. QED BY <2>1 DEF Over
<1> HIDE DEF half
<1>6. DOMAIN double = DOMAIN DoubleLoads \cup DOMAIN half /\ double["lwz"] = half["lwz"]
  <2>1. "lwz" \in DOMAIN half /\ "lwz" \notin DOMAIN DoubleLoads
    BY <1>1, <1>2, <1>4, <1>5
  <2>. QED BY <2>1 DEF Over
<1> HIDE DEF double
<1>7. DOMAIN Loads = DOMAIN ByteLoads \cup DOMAIN double /\ Loads["lwz"] = double["lwz"]
  <2>1. "lwz" \in DOMAIN double /\ "lwz" \notin DOMAIN ByteLoads
    BY <1>1, <1>2, <1>4, <1>5, <1>6
  <2>. QED BY <1>3, <2>1 DEF Over
<1>. QED BY <1>1, <1>2, <1>4, <1>5, <1>6, <1>7 DEF LoadNames

LEMMA StoreTable == DOMAIN Stores = StoreNames /\ Stores["stw"] = Plain(4, FALSE, FALSE)
<1>1. /\ DOMAIN ByteStores = {"stb", "stbx", "stbu"}
      /\ DOMAIN DoubleStores = {"std", "stdx", "stdu"}
      /\ DOMAIN HalfStores = {"sth", "sthx", "sthbrx"}
      /\ DOMAIN LateStores = {"stbux", "stdux", "sthu", "sthux"}
  BY DEF ByteStores, DoubleStores, HalfStores, LateStores
<1>2. /\ DOMAIN WordStores = {"stw", "stwx", "stwbrx", "stwu", "stwux"}
      /\ WordStores["stw"] = Plain(4, FALSE, FALSE)
  BY DEF WordStores
<1> DEFINE late == Over(WordStores, LateStores)
           half == Over(HalfStores, late)
           double == Over(DoubleStores, half)
<1>3. Stores = Over(ByteStores, double) BY DEF Stores
<1>4. DOMAIN late = DOMAIN WordStores \cup DOMAIN LateStores /\ late["stw"] = WordStores["stw"]
  BY <1>2 DEF Over
<1> HIDE DEF late
<1>5. DOMAIN half = DOMAIN HalfStores \cup DOMAIN late /\ half["stw"] = late["stw"]
  <2>1. "stw" \in DOMAIN late /\ "stw" \notin DOMAIN HalfStores
    BY <1>1, <1>2, <1>4
  <2>. QED BY <2>1 DEF Over
<1> HIDE DEF half
<1>6. DOMAIN double = DOMAIN DoubleStores \cup DOMAIN half /\ double["stw"] = half["stw"]
  <2>1. "stw" \in DOMAIN half /\ "stw" \notin DOMAIN DoubleStores
    BY <1>1, <1>2, <1>4, <1>5
  <2>. QED BY <2>1 DEF Over
<1> HIDE DEF double
<1>7. DOMAIN Stores = DOMAIN ByteStores \cup DOMAIN double /\ Stores["stw"] = double["stw"]
  <2>1. "stw" \in DOMAIN double /\ "stw" \notin DOMAIN ByteStores
    BY <1>1, <1>2, <1>4, <1>5, <1>6
  <2>. QED BY <1>3, <2>1 DEF Over
<1>. QED BY <1>1, <1>2, <1>4, <1>5, <1>6, <1>7 DEF StoreNames

ComputeNames ==
    Additions \cup Subtractions \cup Products \cup Unaries \cup Logicals
    \cup LogicalImmediates \cup Shifts \cup SignedShifts \cup Rotations
CompareNames == {"cmpd", "cmpdi", "cmpld", "cmpldi", "cmplw", "cmplwi", "cmpw", "cmpwi"}
OtherNames == {"lwarx", "ldarx", "stwcx", "stdcx", "sync", "lwsync", "bne", "cmpwi", "lwz", "stw"}

\* None of these computes; each is in one table or in none.
LEMMA Tables ==
  /\ OtherNames \cap Computing = {}
  /\ OtherNames \cap DOMAIN Compares = {"cmpwi"}
  /\ OtherNames \cap DOMAIN Loads = {"lwz"}
  /\ OtherNames \cap DOMAIN Stores = {"stw"}
  /\ "addi" \in Computing /\ "addi" \notin DOMAIN Compares
  /\ "addi" \notin DOMAIN Loads /\ "addi" \notin DOMAIN Stores
<1>1. DOMAIN Compares = CompareNames BY DEF Compares, CompareNames
<1>2. OtherNames \cap Computing = {} /\ "addi" \in Computing
  <2>1. OtherNames \cap (Additions \cup Subtractions \cup Products) = {}
    BY DEF OtherNames, Additions, Subtractions, Products
  <2>2. OtherNames \cap (Unaries \cup Logicals \cup LogicalImmediates) = {}
    BY DEF OtherNames, Unaries, Logicals, LogicalImmediates
  <2>3. OtherNames \cap (Shifts \cup SignedShifts \cup Rotations) = {}
    BY DEF OtherNames, Shifts, SignedShifts, Rotations
  <2>4. "addi" \in Additions BY DEF Additions
  <2>. QED BY <2>1, <2>2, <2>3, <2>4 DEF Computing
<1>3. OtherNames \cap LoadNames = {"lwz"} /\ OtherNames \cap StoreNames = {"stw"}
  BY DEF OtherNames, LoadNames, StoreNames
<1>4. OtherNames \cap CompareNames = {"cmpwi"} BY DEF OtherNames, CompareNames
<1>5. "addi" \notin CompareNames /\ "addi" \notin LoadNames /\ "addi" \notin StoreNames
  BY DEF CompareNames, LoadNames, StoreNames
<1>. QED BY <1>1, <1>2, <1>3, <1>4, <1>5, LoadTable, StoreTable

LEMMA StepKinds ==
  ASSUME NEW t \in Threads, Step(t)
  PROVE  LET m == Current(t).m
         IN  /\ m \in {"lwarx", "ldarx"} => LoadReserve(t)
             /\ m \in {"stwcx", "stdcx"} => StoreConditional(t)
             /\ m = "addi" => Compute(t)
             /\ m = "cmpwi" => Compare(t)
             /\ m = "lwz" => Load(t)
             /\ m = "stw" => Store(t)
             /\ m \in {"sync", "lwsync"} => Barrier(t)
             /\ m = "bne" => BranchBack(t)
<1> DEFINE m == Current(t).m
<1> SUFFICES /\ m \in {"lwarx", "ldarx"} => LoadReserve(t)
             /\ m \in {"stwcx", "stdcx"} => StoreConditional(t)
             /\ m = "addi" => Compute(t)
             /\ m = "cmpwi" => Compare(t)
             /\ m = "lwz" => Load(t)
             /\ m = "stw" => Store(t)
             /\ m \in {"sync", "lwsync"} => Barrier(t)
             /\ m = "bne" => BranchBack(t)
  OBVIOUS
<1>1. /\ Compute(t) => m \in Computing
      /\ Compare(t) => m \in DOMAIN Compares
      /\ Trap(t) => m \in {"twi", "trap"}
      /\ mfcr(t) => m = "mfcr"
      /\ mtcr(t) => m = "mtcr"
      /\ mtxer(t) => m = "mtxer"
      /\ CombineFlags(t) => m \in {"cror", "crorc"}
      /\ Load(t) => m \in DOMAIN Loads
      /\ Store(t) => m \in DOMAIN Stores
      /\ dcbz(t) => m = "dcbz"
      /\ LoadReserve(t) => m \in {"lwarx", "ldarx"}
      /\ StoreConditional(t) => m \in {"stwcx", "stdcx"}
      /\ Barrier(t) => m \in {"sync", "lwsync", "eieio", "nop"}
      /\ BranchBack(t) => m = "bne"
  BY DEF Compute, Compare, Trap, mfcr, mtcr, mtxer, CombineFlags, Load, Store, dcbz,
    LoadReserve, StoreConditional, Barrier, BranchBack
<1>2. \/ Compute(t) \/ Compare(t) \/ Trap(t)
      \/ mfcr(t) \/ mtcr(t) \/ mtxer(t) \/ CombineFlags(t)
      \/ Load(t) \/ Store(t) \/ dcbz(t)
      \/ LoadReserve(t) \/ StoreConditional(t) \/ Barrier(t)
      \/ BranchBack(t)
  BY DEF Step
<1> HIDE DEF m
<1>3. m \in OtherNames => /\ m \notin Computing
                          /\ m \in DOMAIN Compares <=> m = "cmpwi"
                          /\ m \in DOMAIN Loads <=> m = "lwz"
                          /\ m \in DOMAIN Stores <=> m = "stw"
  BY Tables DEF OtherNames
<1>4. m = "addi" => m \notin DOMAIN Compares /\ m \notin DOMAIN Loads /\ m \notin DOMAIN Stores
  BY Tables
<1>. QED BY <1>1, <1>2, <1>3, <1>4 DEF OtherNames

-----------------------------------------------------------------------------
(* What each of these instructions does.                                    *)

Steps(t) == pc' = [pc EXCEPT ![t] = @ + 1] /\ UNCHANGED prog

\* The lwarx and ldarx of these programs, the stwcx. and stdcx. of register d.
Reserving(i, n, a) == \/ i = R("lwarx", 3, 0, 1) /\ n = 4 /\ a = 8
                      \/ i = R("ldarx", 3, 0, 2) /\ n = 8 /\ a = 4
Exchanging(i, d, n, a) == \/ i = R("stwcx", d, 0, 1) /\ n = 4 /\ a = 8
                          \/ i = R("stdcx", d, 0, 2) /\ n = 8 /\ a = 4

LEMMA Small == \A x \in 0 .. 15 : u32(x) = x
<1>1. Word \in Nat /\ Word >= 16 BY Widths
<1>2. \A x \in 0 .. 15 : x % Word = x BY <1>1
<1>. QED BY <1>2 DEF u32, Low, Word

LEMMA AddressOfAtomic ==
  ASSUME NEW t \in Threads, Typed, NEW n, NEW a, NEW i,
         Reserving(i, n, a) \/ \E d : Exchanging(i, d, n, a)
  PROVE  /\ AtomicWidth[i.m] = n /\ AtomicAddress(i, r[t]) = a
         /\ n \in Nat /\ a \in Nat /\ a + n <= 16
<1>1. r[t][1] = 8 /\ r[t][2] = 4 /\ u32(8) = 8 /\ u32(4) = 4 BY Small DEF Typed
<1>2. i.a = 0 /\ (\/ i.b = 1 /\ i.m \in {"lwarx", "stwcx"} /\ n = 4 /\ a = 8
                  \/ i.b = 2 /\ i.m \in {"ldarx", "stdcx"} /\ n = 8 /\ a = 4)
  BY DEF Reserving, Exchanging, R, Insn
<1>3. AtomicAddress(i, r[t]) = a BY <1>1, <1>2 DEF AtomicAddress
<1>4. AtomicWidth[i.m] = n BY <1>2 DEF AtomicWidth
<1>. QED BY <1>2, <1>3, <1>4

LEMMA ViewIs ==
  ASSUME NEW t \in Threads, Typed, buffer[t] = <<>>
  PROVE  View(t) = mem
<1>1. \A a : {k \in DOMAIN buffer[t] : a \in DOMAIN buffer[t][k]} = {} OBVIOUS
<1>2. View(t) = [a \in DOMAIN mem |-> mem[a]] BY <1>1 DEF View
<1>. QED BY <1>2 DEF Typed, Bytes

\* lwarx and ldarx: the number at the address, also kept as it is in memory.
LEMMA DoReserve ==
  ASSUME NEW t \in Threads, Typed, Step(t), NEW n, NEW a,
         Reserving(Current(t), n, a), buffer[t] = <<>>
  PROVE  /\ r' = [r EXCEPT ![t][3] = Number(mem, a, n)]
         /\ reserved' \in [Threads -> Nat]
         /\ \A u \in Threads \ {t} : reserved'[u] = reserved[u]
         /\ bswap(n, reserved'[t] % Place(n)) = Number(mem, a, n)
         /\ UNCHANGED <<xer, cr, buffer, mem>>
         /\ Steps(t)
<1> DEFINE i == Current(t)
           raw == Raw(mem, a, n)
<1>1. AtomicWidth[i.m] = n /\ AtomicAddress(i, r[t]) = a /\ n \in Nat /\ a \in Nat /\ a + n <= 16
  <2>1. Reserving(i, n, a) OBVIOUS
  <2>. HIDE DEF i
  <2>. QED BY <2>1, AddressOfAtomic
<1>2. i.m \in {"lwarx", "ldarx"} /\ i.d = 3 /\ n \in {4, 8}
  BY DEF Reserving, R, Insn
<1>3. LoadReserve(t) BY <1>2, StepKinds
<1>4. /\ reserved' = [reserved EXCEPT ![t] = IF n = 4 THEN @ - u32(@) + raw ELSE raw]
      /\ r' = [r EXCEPT ![t][3] = bswap(n, raw)]
      /\ UNCHANGED <<xer, cr, buffer, mem>>
      /\ Steps(t)
  BY <1>1, <1>2, <1>3, ViewIs DEF LoadReserve, memory, Steps, Advance
<1>5. raw \in 0 .. Place(n) - 1 /\ Place(n) \in Nat \ {0}
  BY <1>1, RawType, Places DEF Typed
<1>6. reserved \in [Threads -> Nat] /\ reserved[t] \in Nat BY DEF Typed
<1> DEFINE x == reserved[t]
           y == IF n = 4 THEN x - u32(x) + raw ELSE raw
<1>7. y \in Nat /\ y % Place(n) = raw
  <2>. HIDE DEF raw, x
  <2>1. CASE n = 4
    <3>1. Place(n) = Word /\ Word \in Nat \ {0} BY <2>1, Widths
    <3>2. x \in Nat /\ x \in Int BY <1>6 DEF x
    <3>3. u32(x) = x % Word BY DEF u32, Low, Word
    <3> DEFINE q == x \div Word
               e == x % Word
    <3>4. q \in Nat /\ x = q * Word + e /\ e \in 0 .. Word - 1
      BY <3>1, <3>2, Remainder
    <3> HIDE DEF q, e
    <3>6. q \in Nat /\ e \in Int /\ x = q * Word + e /\ q * Word \in Nat
      BY <3>1, <3>4
    <3>7. x - e + raw = q * Word + raw /\ q * Word + raw \in Nat
      BY <1>5, <3>1, <3>6
    <3>8. (q * Word + raw) % Word = raw BY <1>5, <3>1, <3>6, Division
    <3>. QED BY <2>1, <3>1, <3>3, <3>7, <3>8 DEF e
  <2>2. CASE n # 4 BY <1>5, <2>2
  <2>. QED BY <2>1, <2>2
<1>8. reserved' = [reserved EXCEPT ![t] = y] BY <1>4
<1>9. /\ reserved' \in [Threads -> Nat]
      /\ reserved'[t] = y
      /\ \A u \in Threads \ {t} : reserved'[u] = reserved[u]
  <2>. HIDE DEF y
  <2>. QED BY <1>6, <1>7, <1>8
<1>. QED BY <1>4, <1>7, <1>9 DEF Number

\* stwcx. and stdcx. store if the number at their address is the one the last
\* lwarx or ldarx of the thread has read; eq says whether they did.
LEMMA DoExchange ==
  ASSUME NEW t \in Threads, Typed, Step(t), NEW n, NEW a, NEW d \in 0 .. 5,
         Exchanging(Current(t), d, n, a)
  PROVE  /\ buffer[t] = <<>>
         /\ IF Number(mem, a, n) = Read(t, n) THEN mem' = After(mem, a, n, r[t][d]) ELSE mem' = mem
         /\ cr' \in [Threads -> [0 .. (W \div 4) - 1 -> CRField]]
         /\ cr'[t][0].eq = 1 <=> Number(mem, a, n) = Read(t, n)
         /\ \A u \in Threads \ {t} : cr'[u] = cr[u]
         /\ UNCHANGED <<r, xer, reserved, buffer>>
         /\ Steps(t)
<1> DEFINE i == Current(t)
           raw == Raw(mem, a, n)
           equal == raw = reserved[t] % Place(n)
<1>1. AtomicWidth[i.m] = n /\ AtomicAddress(i, r[t]) = a /\ n \in Nat /\ a \in Nat /\ a + n <= 16
  BY AddressOfAtomic, ZenonT(30)
<1>2. i.m \in {"stwcx", "stdcx"} /\ i.d = d BY DEF Exchanging, R, Insn
<1>3. StoreConditional(t) BY <1>2, StepKinds
<1>4. Low(n * (W \div 4), reserved[t]) = reserved[t] % Place(n)
  BY DEF Low, Place
<1>5. /\ buffer[t] = <<>>
      /\ mem' = IF equal THEN After(mem, a, n, r[t][d]) ELSE mem
      /\ cr' = [cr EXCEPT ![t][0] = [lt |-> 0, gt |-> 0, eq |-> Bit(equal), so |-> xer[t].so]]
      /\ UNCHANGED <<r, xer, reserved, buffer>>
      /\ Steps(t)
  BY <1>1, <1>2, <1>3, <1>4 DEF StoreConditional, After, Steps, Advance
<1>6. equal <=> Number(mem, a, n) = Read(t, n)
  <2>1. Place(n) \in Nat \ {0} /\ reserved[t] \in Int
    <3>1. reserved \in [Threads -> Nat] BY DEF Typed
    <3>2. Place(n) \in Nat \ {0} BY <1>1, Places
    <3>. QED BY <3>1, <3>2
  <2>2. raw \in 0 .. Place(n) - 1 BY <1>1, RawType DEF Typed
  <2>3. reserved[t] % Place(n) \in 0 .. Place(n) - 1 BY <2>1, Remainder
  <2> DEFINE x == reserved[t] % Place(n)
  <2>4. Number(mem, a, n) = bswap(n, raw) /\ Read(t, n) = bswap(n, x)
    BY DEF Number, Read
  <2>5. raw \in Int /\ x \in Int /\ raw % Place(n) = raw /\ x % Place(n) = x
    <3>. HIDE DEF raw, x
    <3>1. x \in 0 .. Place(n) - 1 BY <2>3 DEF x
    <3>. QED BY <2>1, <2>2, <3>1
  <2>6. bswap(n, bswap(n, raw)) = raw /\ bswap(n, bswap(n, x)) = x
    <3>. HIDE DEF raw, x
    <3>. QED BY <1>1, <2>5, Swapped
  <2>. QED BY <2>4, <2>6
<1> HIDE DEF equal
<1> DEFINE f == [lt |-> 0, gt |-> 0, eq |-> Bit(equal), so |-> xer[t].so]
<1>7. f \in CRField /\ (f.eq = 1 <=> equal)
  <2>1. xer[t].so \in {0, 1} BY DEF Typed
  <2>. QED BY <2>1 DEF CRField, Bit
<1>8. 0 \in 0 .. (W \div 4) - 1 BY Places
<1>9. /\ cr' \in [Threads -> [0 .. (W \div 4) - 1 -> CRField]]
      /\ cr'[t][0] = f
      /\ \A u \in Threads \ {t} : cr'[u] = cr[u]
  <2>1. cr \in [Threads -> [0 .. (W \div 4) - 1 -> CRField]] /\ cr' = [cr EXCEPT ![t][0] = f]
    BY <1>5 DEF Typed
  <2>. HIDE DEF f
  <2>. QED BY <1>7, <1>8, <2>1
<1>. QED BY <1>5, <1>6, <1>7, <1>9

LEMMA DoAdd ==
  ASSUME NEW t \in Threads, Typed, Step(t), NEW d \in 3 .. 5, NEW a \in 0 .. 5, NEW k \in Nat,
         Current(t) = I("addi", d, a, k)
  PROVE  /\ r' = [r EXCEPT ![t][d] = ((IF a = 0 THEN 0 ELSE r[t][a]) + k) % DWord]
         /\ UNCHANGED <<xer, cr, reserved, buffer, mem>>
         /\ Steps(t)
<1> DEFINE i == Current(t)
           result == Value(i, r[t], xer[t].ca)
<1>1. i.m = "addi" /\ i.d = d /\ i.a = a /\ i.imm = k /\ i.rc = FALSE
  BY DEF I, Insn
<1>2. Compute(t) BY <1>1, StepKinds
<1>3. /\ r' = [r EXCEPT ![t][d] = result[1]]
      /\ xer' = [xer EXCEPT ![t].ca = result[2]]
      /\ cr' = cr
      /\ UNCHANGED <<reserved, buffer, mem>>
      /\ Steps(t)
  BY <1>1, <1>2 DEF Compute, Steps, Advance, memory
<1>4. result = <<((IF a = 0 THEN 0 ELSE r[t][a]) + k) % DWord, xer[t].ca>>
  <2>1. /\ "addi" \in Additions /\ "addi" \notin Subtractions /\ "addi" \notin Products
        /\ "addi" \notin Unaries /\ "addi" \notin Logicals /\ "addi" \notin LogicalImmediates
        /\ "addi" \notin Shifts /\ "addi" \notin SignedShifts /\ "addi" \notin Rotations
    BY DEF Additions, Subtractions, Products, Unaries, Logicals, LogicalImmediates, Shifts,
      SignedShifts, Rotations
  <2>2. result = Add("addi", r[t][i.a], r[t][i.b], IF i.a = 0 THEN 0 ELSE r[t][i.a], k, xer[t].ca)
    BY <1>1, <2>1 DEF Value
  <2>3. \A x, y, z, ca : Add("addi", x, y, z, k, ca) = <<u64(z + k), ca>>
    BY DEF Add
  <2>. QED BY <1>1, <2>2, <2>3 DEF u64, Low, DWord
<1>5. xer' = xer
  <2>1. result[2] = xer[t].ca BY <1>4
  <2> HIDE DEF result
  <2>2. xer' = [xer EXCEPT ![t].ca = xer[t].ca] BY <1>3, <2>1
  <2>3. xer \in [Threads -> [so : {0, 1}, ca : {0, 1}]] BY DEF Typed
  <2>. QED BY <2>2, <2>3
<1>6. result[1] = ((IF a = 0 THEN 0 ELSE r[t][a]) + k) % DWord BY <1>4
<1> HIDE DEF result
<1>. QED BY <1>3, <1>5, <1>6

\* cmpwi of a word with zero, as the programs use it.
LEMMA DoTest ==
  ASSUME NEW t \in Threads, Typed, Step(t),
         Current(t) = I("cmpwi", 0, 3, 0), r[t][3] \in 0 .. Word - 1
  PROVE  /\ cr' \in [Threads -> [0 .. (W \div 4) - 1 -> CRField]]
         /\ cr'[t][0].eq = 1 <=> r[t][3] = 0
         /\ \A u \in Threads \ {t} : cr'[u] = cr[u]
         /\ UNCHANGED <<r, xer, reserved, buffer, mem>>
         /\ Steps(t)
<1> DEFINE i == Current(t)
           f == compare(s32(r[t][3]), 0, xer[t].so)
<1>1. i.m = "cmpwi" /\ i.d = 0 /\ i.a = 3 /\ i.imm = 0 BY DEF I, Insn
<1>2. Compare(t) BY <1>1, StepKinds
<1>3. Compared(Compares["cmpwi"], r[t][3], r[t][i.b], 0, xer[t].so) = f
  <2>1. Compares["cmpwi"] = <<W, TRUE, TRUE>> BY DEF Compares
  <2>. QED BY <2>1 DEF Compared, s32
<1>4. /\ cr' = [cr EXCEPT ![t][0] = f]
      /\ UNCHANGED <<r, xer, reserved, buffer, mem>>
      /\ Steps(t)
  BY <1>1, <1>2, <1>3 DEF Compare, Steps, Advance, memory
<1>5. s32(r[t][3]) = 0 <=> r[t][3] = 0
  <2>1. Word \in Nat /\ Word >= 16 BY Widths
  <2>2. r[t][3] % Word = r[t][3] BY <2>1
  <2>3. s32(r[t][3]) = IF r[t][3] < 2 ^ (W - 1) THEN r[t][3] ELSE r[t][3] - Word
    BY <2>2 DEF s32, Signed, Low, Word
  <2>4. 2 ^ (W - 1) \in Nat \ {0}
    <3>1. W - 1 \in Nat BY WAssumption
    <3>. QED BY <3>1, PowerPositive
  <2> HIDE DEF i, f
  <2> DEFINE x == r[t][3]
             y == s32(r[t][3])
             p == 2 ^ (W - 1)
  <2>5. x \in 0 .. Word - 1 /\ p \in Nat \ {0} /\ y = (IF x < p THEN x ELSE x - Word)
    BY <2>3, <2>4
  <2> HIDE DEF x, y, p
  <2>6. y = 0 <=> x = 0 BY <2>1, <2>5
  <2>. QED BY <2>6 DEF x, y
<1>6. f \in CRField /\ (f.eq = 1 <=> r[t][3] = 0)
  <2>1. xer[t].so \in {0, 1} BY DEF Typed
  <2>. QED BY <1>5, <2>1 DEF CRField, Bit, compare
<1>7. 0 \in 0 .. (W \div 4) - 1 BY Places
<1>8. /\ cr' \in [Threads -> [0 .. (W \div 4) - 1 -> CRField]]
      /\ cr'[t][0] = f
      /\ \A u \in Threads \ {t} : cr'[u] = cr[u]
  <2>1. cr \in [Threads -> [0 .. (W \div 4) - 1 -> CRField]] /\ cr' = [cr EXCEPT ![t][0] = f]
    BY <1>4 DEF Typed
  <2>. HIDE DEF f
  <2>. QED BY <1>6, <1>7, <2>1
<1>. QED BY <1>4, <1>6, <1>8

LEMMA AddressOfPlain ==
  ASSUME NEW t \in Threads, Typed, NEW i, i.a = 1, NEW k \in {0, 4}, i.imm = k
  PROVE  Address(Plain(4, FALSE, FALSE), i, r[t]) = 8 + k
<1>1. u32(r[t][1]) = 8 /\ 8 + k \in 0 .. 15 BY Small, SMTT(30) DEF Typed
<1>2. u32(8 + k) = 8 + k BY <1>1, Small
<1>. QED BY <1>1, <1>2 DEF Address, Plain, Access

LEMMA DoLoad ==
  ASSUME NEW t \in Threads, Typed, Step(t), Current(t) = I("lwz", 5, 1, 4), buffer[t] = <<>>
  PROVE  /\ r' = [r EXCEPT ![t][5] = Number(mem, 12, 4)]
         /\ UNCHANGED <<xer, cr, reserved, buffer, mem>>
         /\ Steps(t)
<1> DEFINE i == Current(t)
<1>1. i.m = "lwz" /\ i.d = 5 /\ i.a = 1 /\ i.imm = 4 BY DEF I, Insn
<1>2. Load(t) BY <1>1, StepKinds
<1>3. /\ Loads["lwz"].n = 4 /\ Loads["lwz"].signed = FALSE
      /\ Loads["lwz"].reversed = FALSE /\ Loads["lwz"].update = FALSE
  BY LoadTable DEF Plain, Access
<1>4. Address(Loads["lwz"], i, r[t]) = 12
  <2>1. Address(Plain(4, FALSE, FALSE), i, r[t]) = 8 + 4 BY <1>1, AddressOfPlain
  <2>2. 8 + 4 = 12 OBVIOUS
  <2>. QED BY <2>1, <2>2, LoadTable
<1>5. View(t) = mem BY ViewIs
<1>. QED
  BY <1>1, <1>2, <1>3, <1>4, <1>5 DEF Load, Number, Steps, Advance, memory

LEMMA DoStore ==
  ASSUME NEW t \in Threads, Typed, Step(t), NEW d \in 0 .. 5, NEW k \in {0, 4},
         Current(t) = I("stw", d, 1, k)
  PROVE  /\ buffer' = [buffer EXCEPT ![t] = Append(@, StoreOf(8 + k, r[t][d]))]
         /\ UNCHANGED <<r, xer, cr, reserved, mem>>
         /\ Steps(t)
<1> DEFINE i == Current(t)
<1>1. i.m = "stw" /\ i.d = d /\ i.a = 1 /\ i.imm = k BY DEF I, Insn
<1>2. Store(t) BY <1>1, StepKinds
<1>3. /\ Stores["stw"].n = 4
      /\ Stores["stw"].reversed = FALSE /\ Stores["stw"].update = FALSE
  BY StoreTable DEF Plain, Access
<1>4. Address(Stores["stw"], i, r[t]) = 8 + k
  BY <1>1, StoreTable, AddressOfPlain
<1>. QED BY <1>1, <1>2, <1>3, <1>4 DEF Store, StoreOf, Steps, Advance

LEMMA DoBarrier ==
  ASSUME NEW t \in Threads, Step(t), Current(t).m \in {"sync", "lwsync"}
  PROVE  UNCHANGED <<r, xer, cr, reserved, buffer, mem>> /\ Steps(t)
<1>1. Barrier(t) BY StepKinds
<1>. QED BY <1>1 DEF Barrier, Steps, Advance, state, memory

LEMMA DoBranch ==
  ASSUME NEW t \in Threads, Typed, Step(t), Current(t) = I("bne", 0, 0, 1)
  PROVE  /\ pc' = [pc EXCEPT ![t] = IF Succeeded(t) THEN @ + 1 ELSE 1]
         /\ UNCHANGED <<prog, r, xer, cr, reserved, buffer, mem>>
<1>1. Current(t).m = "bne" /\ Current(t).imm = 1 BY DEF I, Insn
<1>2. BranchBack(t) BY <1>1, StepKinds
<1>3. cr[t][0].eq \in {0, 1}
  <2>1. 0 \in 0 .. (W \div 4) - 1 BY Places
  <2>. QED BY <2>1 DEF Typed, CRField
<1>4. cr[t][0].eq = 0 <=> ~Succeeded(t) BY <1>3 DEF Succeeded
<1>5. /\ pc' = [pc EXCEPT ![t] = IF cr[t][0].eq = 0 THEN 1 ELSE @ + 1]
      /\ UNCHANGED <<prog, state, memory>>
  BY <1>1, <1>2 DEF BranchBack
<1>6. pc' = [pc EXCEPT ![t] = IF Succeeded(t) THEN @ + 1 ELSE 1] BY <1>4, <1>5
<1>. QED BY <1>5, <1>6 DEF state, memory

LEMMA DoDrain ==
  ASSUME NEW t \in Threads, Drain(t)
  PROVE  /\ buffer[t] # <<>>
         /\ mem' = Over(Head(buffer[t]), mem)
         /\ buffer' = [buffer EXCEPT ![t] = Tail(@)]
         /\ UNCHANGED <<prog, pc, r, xer, cr, reserved>>
BY DEF Drain, state

-----------------------------------------------------------------------------
(* Counting modulo the width of the counter.                                *)

LEMMA AddToRemainder ==
  ASSUME NEW M \in Nat \ {0}, NEW x \in Int, NEW k \in Int
  PROVE  ((x % M) + k) % M = (x + k) % M
<1> DEFINE q == x \div M
           e == x % M
           p == (e + k) \div M
           d == (e + k) % M
<1>1. q \in Int /\ e \in Int /\ x = q * M + e BY Remainder
<1>2. p \in Int /\ d \in 0 .. M - 1 /\ e + k = p * M + d
  <2>. HIDE DEF e
  <2>1. e + k \in Int BY <1>1
  <2>. QED BY <2>1, Remainder
<1> HIDE DEF q, e, p, d
<1>3. x + k = (q + p) * M + d /\ q + p \in Int
  <2>1. (q + p) * M = q * M + p * M /\ q * M \in Int /\ p * M \in Int
    BY <1>1, <1>2
  <2>. QED BY <1>1, <1>2, <2>1
<1>4. (x + k) % M = d
  <2>1. ((q + p) * M + d) % M = d BY <1>2, <1>3, Division
  <2>. QED BY <1>3, <2>1
<1>. QED BY <1>4 DEF d, e

LEMMA OneMore ==
  ASSUME NEW D, IsFiniteSet(D), NEW t, t \notin D, NEW M \in Nat \ {0}
  PROVE  Cardinality(D \cup {t}) % M = ((Cardinality(D) % M) + 1) % M
<1>1. Cardinality(D) \in Nat BY FS_CardinalityType
<1>2. Cardinality(D \cup {t}) = Cardinality(D) + 1 BY FS_AddElement
<1>3. ((Cardinality(D) % M) + 1) % M = (Cardinality(D) + 1) % M
  <2>1. Cardinality(D) \in Int /\ 1 \in Int BY <1>1
  <2>. QED BY <2>1, AddToRemainder
<1>. QED BY <1>2, <1>3

\* Registers are as wide as a counter or wider.
LEMMA Narrow ==
  ASSUME NEW n \in {4, 8}, NEW x \in Int
  PROVE  (x % DWord) % Place(n) = x % Place(n)
<1> DEFINE N == IF n = 4 THEN Word ELSE 1
           P == Place(n)
<1>1. P \in Nat \ {0} /\ N \in Nat \ {0} /\ DWord = P * N
  <2>1. /\ Place(4) = Word /\ Place(8) = DWord /\ Word \in Nat \ {0}
        /\ DWord \in Nat /\ DWord = Word * Word
    BY Widths
  <2>2. Place(n) \in Nat \ {0} BY Places
  <2>3. CASE n = 4 BY <2>1, <2>2, <2>3
  <2>4. CASE n = 8
    <3>1. DWord = DWord * 1 BY <2>1
    <3>. QED BY <2>1, <2>2, <2>4, <3>1
  <2>. QED BY <2>3, <2>4
<1> HIDE DEF N, P
<1>2. x \div P \in Int /\ x % P \in 0 .. P - 1 BY <1>1, Remainder
<1> DEFINE y == (x \div P) % N
           e == x % P
<1>3. x % DWord = e + P * y BY <1>1, DivideTwice
<1>4. y \in Int
  <2>1. y \in 0 .. N - 1
    <3> DEFINE z == x \div P
    <3>1. z \in Int BY <1>2
    <3>. HIDE DEF z
    <3>2. z % N \in 0 .. N - 1 BY <1>1, <3>1, Remainder
    <3>. QED BY <3>2 DEF z
  <2>. QED BY <1>1, <2>1
<1>5. e \in 0 .. P - 1 BY <1>2
<1> HIDE DEF y, e
<1>6. e + P * y = y * P + e
  <2>1. P * y = y * P /\ P * y \in Int BY <1>1, <1>4
  <2>. QED BY <1>5, <2>1
<1>7. (y * P + e) % P = e BY <1>1, <1>4, <1>5, Division
<1>. QED BY <1>3, <1>6, <1>7 DEF e, P

\* What a step of thread t leaves to the others.
Others(t) == \A u \in Threads \ {t} :
    /\ pc'[u] = pc[u] /\ r'[u] = r[u] /\ cr'[u] = cr[u]
    /\ reserved'[u] = reserved[u] /\ buffer'[u] = buffer[u]

LEMMA Moves ==
  ASSUME NEW t \in Threads, Placed, NEW k \in Nat, pc' = [pc EXCEPT ![t] = k]
  PROVE  /\ pc' \in [Threads -> Nat] /\ pc'[t] = k
         /\ \A u \in Threads \ {t} : pc'[u] = pc[u]
BY DEF Placed

LEMMA StepMoves ==
  ASSUME NEW t \in Threads, Placed, Steps(t)
  PROVE  /\ pc' \in [Threads -> Nat] /\ pc'[t] = pc[t] + 1
         /\ \A u \in Threads \ {t} : pc'[u] = pc[u]
BY DEF Placed, Steps

LEMMA TypedStep ==
  ASSUME NEW t \in Threads, Typed, NEW d \in 3 .. 5, NEW v \in Nat,
         r' = r \/ r' = [r EXCEPT ![t][d] = v],
         xer' = xer,
         cr' \in [Threads -> [0 .. (W \div 4) - 1 -> CRField]],
         reserved' \in [Threads -> Nat],
         mem' \in Bytes
  PROVE  Typed'
<1>1. /\ r \in [Threads -> [0 .. 5 -> Nat]]
      /\ \A u \in Threads : r[u][1] = 8 /\ r[u][2] = 4
      /\ xer \in [Threads -> [so : {0, 1}, ca : {0, 1}]]
  BY DEF Typed
<1>2. /\ r' \in [Threads -> [0 .. 5 -> Nat]]
      /\ \A u \in Threads : r'[u][1] = 8 /\ r'[u][2] = 4
  <2>1. CASE r' = r BY <1>1, <2>1
  <2>2. CASE r' = [r EXCEPT ![t][d] = v]
    <3>1. r' = [r EXCEPT ![t] = [r[t] EXCEPT ![d] = v]] BY <2>2
    <3>2. /\ [r[t] EXCEPT ![d] = v] \in [0 .. 5 -> Nat]
          /\ [r[t] EXCEPT ![d] = v][1] = 8 /\ [r[t] EXCEPT ![d] = v][2] = 4
      BY <1>1
    <3> DEFINE f == [r[t] EXCEPT ![d] = v]
    <3> HIDE DEF f
    <3>. QED BY <1>1, <3>1, <3>2 DEF f
  <2>. QED BY <2>1, <2>2
<1>. QED BY <1>1, <1>2 DEF Typed, Bytes, CRField

-----------------------------------------------------------------------------
(* Threads that increment a word or a doubleword.                           *)

LEMMA CountKept ==
  ASSUME NEW p, NEW n, NEW a, Increments(p, n, a), Alike(p), CountInv(n, a), IsFiniteSet(Threads),
         NEW t \in Threads, Step(t)
  PROVE  CountInv(n, a)' /\ Alike(p)'
<1> DEFINE M == Place(n)
           D == {u \in Threads : Counted(u)}
<1>0. /\ n \in {4, 8} /\ n \in Nat /\ a \in Nat /\ a + n <= 16
      /\ M \in Nat \ {0}
  <2>1. n \in {4, 8} /\ n \in Nat /\ a \in Nat /\ a + n <= 16 BY DEF Increments
  <2>. QED BY <2>1, Places
<1>1. Typed /\ Placed /\ Counting(t, n) /\ buffer[t] = <<>> /\ pc[t] \in 1 .. 5
  BY DEF CountInv, Counting
<1>2. /\ prog[t] = p /\ pc[t] <= 4 /\ Running(t)
      /\ pc[t] = 1 => Reserving(Current(t), n, a)
      /\ pc[t] = 2 => Current(t) = I("addi", 3, 3, 1)
      /\ pc[t] = 3 => Exchanging(Current(t), 3, n, a)
      /\ pc[t] = 4 => Current(t) = I("bne", 0, 0, 1)
  <2>1. prog[t] = p /\ Running(t) BY DEF Alike, Step
  <2>2. CASE p = Increment /\ n = 4 /\ a = 8
    <3>1. /\ Len(p) = 4 /\ p[1] = R("lwarx", 3, 0, 1) /\ p[2] = I("addi", 3, 3, 1)
          /\ p[3] = R("stwcx", 3, 0, 1) /\ p[4] = I("bne", 0, 0, 1)
      BY <2>2 DEF Increment
    <3>. QED
      BY <1>1, <2>1, <2>2, <3>1 DEF Running, Current, Reserving, Exchanging
  <2>3. CASE p = IncrementDouble /\ n = 8 /\ a = 4
    <3>1. /\ Len(p) = 4 /\ p[1] = R("ldarx", 3, 0, 2) /\ p[2] = I("addi", 3, 3, 1)
          /\ p[3] = R("stdcx", 3, 0, 2) /\ p[4] = I("bne", 0, 0, 1)
      BY <2>3 DEF IncrementDouble
    <3>. QED
      BY <1>1, <2>1, <2>3, <3>1 DEF Running, Current, Reserving, Exchanging
  <2>. QED BY <2>2, <2>3 DEF Increments

<1> DEFINE Good == /\ Typed'
                   /\ Placed' /\ Counting(t, n)'
                   /\ Others(t)
                   /\ UNCHANGED prog
                   /\ \/ mem' = mem /\ (Counted(t)' <=> Counted(t))
                      \/ /\ Counted(t)' /\ ~Counted(t)
                         /\ Number(mem', a, n) = (Number(mem, a, n) + 1) % M
<1>3. Good
  <2>1. CASE pc[t] = 1
    <3>1. /\ r' = [r EXCEPT ![t][3] = Number(mem, a, n)]
          /\ reserved' \in [Threads -> Nat]
          /\ \A u \in Threads \ {t} : reserved'[u] = reserved[u]
          /\ bswap(n, reserved'[t] % M) = Number(mem, a, n)
          /\ UNCHANGED <<xer, cr, buffer, mem>>
          /\ Steps(t)
      BY <1>1, <1>2, <2>1, DoReserve
    <3>2. Number(mem, a, n) \in Nat
      <4>1. Number(mem, a, n) \in 0 .. M - 1 BY <1>0, <1>1, NumberType DEF Typed
      <4>. QED BY <1>0, <4>1
    <3>a. /\ Placed' /\ pc' \in [Threads -> Nat] /\ pc'[t] = pc[t] + 1
          /\ \A u \in Threads \ {t} : pc'[u] = pc[u]
      BY <1>1, <3>1, StepMoves DEF Placed
    <3>3. Typed' BY <1>1, <3>1, <3>2, TypedStep DEF Typed
    <3>5. r'[t][3] = Number(mem, a, n) /\ \A u \in Threads \ {t} : r'[u] = r[u]
      BY <1>1, <3>1 DEF Typed
    <3>4. pc'[t] = 2 /\ Others(t) BY <2>1, <3>1, <3>5, <3>a DEF Others
    <3>6. Counting(t, n)' BY <1>1, <3>1, <3>4, <3>5 DEF Counting, Read
    <3>. QED BY <2>1, <3>1, <3>3, <3>4, <3>6, <3>a DEF Steps, Counted
  <2>2. CASE pc[t] = 2
    <3>1. /\ r' = [r EXCEPT ![t][3] = (r[t][3] + 1) % DWord]
          /\ UNCHANGED <<xer, cr, reserved, buffer, mem>>
          /\ Steps(t)
      BY <1>1, <1>2, <2>2, DoAdd
    <3>2. /\ r[t][3] = Read(t, n) /\ r[t][3] \in Nat /\ reserved[t] \in Int
          /\ r[t][3] + 1 \in Int
      BY <1>1, <2>2 DEF Counting, Typed
    <3>3. (r[t][3] + 1) % DWord \in Nat BY <3>2, Widths
    <3>a. /\ Placed' /\ pc' \in [Threads -> Nat] /\ pc'[t] = pc[t] + 1
          /\ \A u \in Threads \ {t} : pc'[u] = pc[u]
      BY <1>1, <3>1, StepMoves DEF Placed
    <3>4. Typed' BY <1>1, <3>1, <3>3, TypedStep DEF Typed
    <3>6. /\ r'[t][3] = (r[t][3] + 1) % DWord
          /\ \A u \in Threads \ {t} : r'[u] = r[u]
      BY <1>1, <3>1 DEF Typed
    <3>5. pc'[t] = 3 /\ Others(t) BY <2>2, <3>1, <3>6, <3>a DEF Others
    <3>7. r'[t][3] % M = (Read(t, n) + 1) % M BY <1>0, <3>2, <3>6, Narrow
    <3>8. Counting(t, n)' BY <1>1, <3>1, <3>5, <3>7 DEF Counting, Read
    <3>. QED BY <2>2, <3>1, <3>4, <3>5, <3>8, <3>a DEF Steps, Counted
  <2>3. CASE pc[t] = 3
    <3>1. /\ IF Number(mem, a, n) = Read(t, n) THEN mem' = After(mem, a, n, r[t][3]) ELSE mem' = mem
          /\ cr' \in [Threads -> [0 .. (W \div 4) - 1 -> CRField]]
          /\ cr'[t][0].eq = 1 <=> Number(mem, a, n) = Read(t, n)
          /\ \A u \in Threads \ {t} : cr'[u] = cr[u]
          /\ UNCHANGED <<r, xer, reserved, buffer>>
          /\ Steps(t)
      BY <1>1, <1>2, <2>3, DoExchange
    <3>2. r[t][3] % M = (Read(t, n) + 1) % M /\ r[t][3] \in Int /\ mem \in Bytes
      BY <1>1, <2>3 DEF Counting, Typed
    <3>3. mem' \in Bytes BY <1>0, <3>1, <3>2, AfterIs
    <3>a. /\ Placed' /\ pc' \in [Threads -> Nat] /\ pc'[t] = pc[t] + 1
          /\ \A u \in Threads \ {t} : pc'[u] = pc[u]
      BY <1>1, <3>1, StepMoves DEF Placed
    <3>4. Typed' BY <1>1, <3>1, <3>3, TypedStep DEF Typed
    <3>5. pc'[t] = 4 /\ Others(t) BY <2>3, <3>1, <3>a DEF Others
    <3>6. Counting(t, n)' BY <1>1, <3>1, <3>5 DEF Counting
    <3>7. ~Counted(t) BY <2>3 DEF Counted
    <3>8. CASE Number(mem, a, n) = Read(t, n)
      <4>1. Counted(t)' BY <3>1, <3>5, <3>8 DEF Counted, Succeeded
      <4>2. Number(mem', a, n) = r[t][3] % M BY <1>0, <3>1, <3>2, <3>8, RawAfter
      <4>. QED
        BY <3>1, <3>2, <3>4, <3>5, <3>6, <3>7, <3>8, <3>a, <4>1, <4>2 DEF Steps
    <3>9. CASE Number(mem, a, n) # Read(t, n)
      <4>1. ~Counted(t)' BY <3>1, <3>5, <3>9 DEF Counted, Succeeded
      <4>. QED BY <3>1, <3>4, <3>5, <3>6, <3>7, <3>9, <3>a, <4>1 DEF Steps
    <3>. QED BY <3>8, <3>9
  <2>4. CASE pc[t] = 4
    <3>1. /\ pc' = [pc EXCEPT ![t] = IF Succeeded(t) THEN @ + 1 ELSE 1]
          /\ UNCHANGED <<prog, r, xer, cr, reserved, buffer, mem>>
      BY <1>1, <1>2, <2>4, DoBranch
    <3>a. /\ Placed' /\ pc' \in [Threads -> Nat] /\ pc'[t] = (IF Succeeded(t) THEN 5 ELSE 1)
          /\ \A u \in Threads \ {t} : pc'[u] = pc[u]
      BY <1>1, <2>4, <3>1 DEF Placed
    <3>2. Typed' BY <1>1, <3>1, TypedStep DEF Typed
    <3>3. pc'[t] = (IF Succeeded(t) THEN 5 ELSE 1) /\ Others(t)
      BY <3>1, <3>a DEF Others
    <3>4. Counting(t, n)' BY <1>1, <3>1, <3>3 DEF Counting
    <3>5. Counted(t)' <=> Counted(t) BY <2>4, <3>1, <3>3 DEF Counted
    <3>. QED BY <3>1, <3>2, <3>3, <3>4, <3>5, <3>a
  <2>. QED BY <1>1, <1>2, <2>1, <2>2, <2>3, <2>4
<1>4. \A u \in Threads \ {t} : Counting(u, n)' /\ (Counted(u)' <=> Counted(u))
  <2> SUFFICES ASSUME NEW u \in Threads \ {t}
               PROVE  Counting(u, n)' /\ (Counted(u)' <=> Counted(u))
    OBVIOUS
  <2>1. /\ pc'[u] = pc[u] /\ r'[u] = r[u] /\ cr'[u] = cr[u]
        /\ reserved'[u] = reserved[u] /\ buffer'[u] = buffer[u]
    BY <1>3 DEF Others
  <2>2. Counting(u, n) BY DEF CountInv
  <2>. QED BY <2>1, <2>2 DEF Counting, Counted, Succeeded, Read
<1>5. IsFiniteSet(D) BY FS_Subset
<1>6. Number(mem, a, n) = Cardinality(D) % M BY DEF CountInv
<1>7. Number(mem', a, n) = Cardinality({u \in Threads : Counted(u)'}) % M
  <2>1. CASE mem' = mem /\ (Counted(t)' <=> Counted(t))
    <3>1. {u \in Threads : Counted(u)'} = D BY <1>4, <2>1
    <3>. QED BY <1>6, <2>1, <3>1
  <2>2. CASE /\ Counted(t)' /\ ~Counted(t)
             /\ Number(mem', a, n) = (Number(mem, a, n) + 1) % M
    <3>1. {u \in Threads : Counted(u)'} = D \cup {t} /\ t \notin D BY <1>4, <2>2
    <3>2. Cardinality(D \cup {t}) % M = ((Cardinality(D) % M) + 1) % M
      <4>. HIDE DEF D, M
      <4>. QED BY <1>0, <1>5, <3>1, OneMore
    <3>. QED BY <1>6, <2>2, <3>1, <3>2
  <2>. QED BY <1>3, <2>1, <2>2
<1>8. \A u \in Threads : Counting(u, n)' BY <1>3, <1>4
<1>9. Alike(p)' BY <1>3 DEF Alike
<1>. QED BY <1>3, <1>7, <1>8, <1>9 DEF CountInv, Number, Raw, Place

-----------------------------------------------------------------------------
(* Threads that take a lock, increment what it guards and give it back.     *)

LEMMA LockedIs ==
  /\ Len(Locked) = 13
  /\ Locked[1] = R("lwarx", 3, 0, 1) /\ Locked[2] = I("cmpwi", 0, 3, 0)
  /\ Locked[3] = I("bne", 0, 0, 1) /\ Locked[4] = I("addi", 4, 0, 1)
  /\ Locked[5] = R("stwcx", 4, 0, 1) /\ Locked[6] = I("bne", 0, 0, 1)
  /\ Locked[7].m = "sync" /\ Locked[8] = I("lwz", 5, 1, 4)
  /\ Locked[9] = I("addi", 5, 5, 1) /\ Locked[10] = I("stw", 5, 1, 4)
  /\ Locked[11].m = "lwsync" /\ Locked[12] = I("addi", 4, 0, 0)
  /\ Locked[13] = I("stw", 4, 1, 0)
BY DEF Locked, R, I, Insn

\* A step that leaves the memory alone and the thread's part in the lock.
LEMMA LockQuiet ==
  ASSUME LockInv, Alike(Locked), NEW t \in Threads, Others(t),
         Typed', Placed', Locking(t)', Pending(t)', prog' = prog, mem' = mem,
         Owner(t)' <=> Owner(t), Stored(t)' <=> Stored(t)
  PROVE  LockInv' /\ Alike(Locked)'
<1>1. \A u \in Threads \ {t} : /\ Locking(u)' /\ Pending(u)'
                               /\ Owner(u)' <=> Owner(u)
                               /\ Stored(u)' <=> Stored(u)
  <2> SUFFICES ASSUME NEW u \in Threads \ {t}
               PROVE  /\ Locking(u)' /\ Pending(u)'
                      /\ Owner(u)' <=> Owner(u)
                      /\ Stored(u)' <=> Stored(u)
    OBVIOUS
  <2>1. /\ pc'[u] = pc[u] /\ r'[u] = r[u] /\ cr'[u] = cr[u]
        /\ reserved'[u] = reserved[u] /\ buffer'[u] = buffer[u]
    BY DEF Others
  <2>2. Locking(u) /\ Pending(u) BY DEF LockInv
  <2>3. Incremented' = Incremented BY DEF Incremented, Number, Raw
  <2>4. Number(mem, 12, 4)' = Number(mem, 12, 4) BY DEF Number, Raw
  <2>5. Locking(u)'
    BY <2>1, <2>2, <2>3, <2>4 DEF Locking, Succeeded, Read, Place
  <2>6. Pending(u)' BY <2>1, <2>2, <2>3 DEF Pending, StoreOf
  <2>. QED BY <2>1, <2>5, <2>6 DEF Owner, Stored, Succeeded
<1>2. \A u \in Threads : (Owner(u)' <=> Owner(u)) /\ (Stored(u)' <=> Stored(u))
  BY <1>1
<1>3. {u \in Threads : Stored(u)'} = {u \in Threads : Stored(u)} BY <1>2
<1>4. (\E u \in Threads : Owner(u)') <=> (\E u \in Threads : Owner(u)) BY <1>2
<1>5. /\ Number(mem', 8, 4) = Bit(\E u \in Threads : Owner(u)')
      /\ Number(mem', 12, 4) = Cardinality({u \in Threads : Stored(u)'}) % Word
  BY <1>3, <1>4 DEF LockInv, Bit
<1>6. \A u, w \in Threads : Owner(u)' /\ Owner(w)' => u = w BY <1>2 DEF LockInv
<1>7. \A u \in Threads : Locking(u)' /\ Pending(u)' BY <1>1
<1>8. Alike(Locked)' BY DEF Alike
<1>. QED BY <1>5, <1>6, <1>7, <1>8 DEF LockInv, Bit

\* Before the store of the lock a thread has nothing in its buffer.
LEMMA LockApproached ==
  ASSUME LockInv, Alike(Locked), IsFiniteSet(Threads), NEW t \in Threads, Step(t), pc[t] <= 4
  PROVE  LockInv' /\ Alike(Locked)'
<1>1. /\ Typed /\ Placed /\ Locking(t) /\ Pending(t) /\ pc[t] \in 1 .. 4 /\ buffer[t] = <<>>
      /\ prog[t] = Locked
  BY DEF LockInv, Locking, Pending, Alike
<1>2. Current(t) = Locked[pc[t]] BY <1>1 DEF Current
<1>3. Place(4) = Word /\ Word \in Nat /\ Word >= 16 /\ DWord \in Nat /\ DWord > 1
  BY Widths
<1>4. ~Owner(t) /\ ~Stored(t) BY <1>1 DEF Owner, Stored
<1>5. SUFFICES /\ Others(t) /\ Typed' /\ Placed' /\ Locking(t)' /\ Pending(t)'
               /\ prog' = prog /\ mem' = mem /\ pc'[t] \in 1 .. 5
  <2>1. ~Owner(t)' /\ ~Stored(t)' BY <1>5 DEF Owner, Stored
  <2>. QED BY <1>4, <1>5, <2>1, LockQuiet
<1>6. CASE pc[t] = 1
  <2>1. /\ r' = [r EXCEPT ![t][3] = Number(mem, 8, 4)]
        /\ reserved' \in [Threads -> Nat]
        /\ \A u \in Threads \ {t} : reserved'[u] = reserved[u]
        /\ bswap(4, reserved'[t] % Place(4)) = Number(mem, 8, 4)
        /\ UNCHANGED <<xer, cr, buffer, mem>>
        /\ Steps(t)
    <3>1. Reserving(Current(t), 4, 8) BY <1>2, <1>6, LockedIs DEF Reserving
    <3>. QED BY <1>1, <3>1, DoReserve
  <2>2. Number(mem, 8, 4) \in Nat
    <3>1. Number(mem, 8, 4) \in 0 .. Place(4) - 1 BY <1>1, NumberType DEF Typed
    <3>. QED BY <1>3, <3>1
  <2>3. /\ Placed' /\ pc'[t] = 2 /\ \A u \in Threads \ {t} : pc'[u] = pc[u]
    BY <1>1, <1>6, <2>1, StepMoves DEF Placed
  <2>4. Typed' BY <1>1, <2>1, <2>2, TypedStep, SMTT(30) DEF Typed
  <2>5. r'[t][3] = Number(mem, 8, 4) /\ \A u \in Threads \ {t} : r'[u] = r[u]
    BY <1>1, <2>1 DEF Typed
  <2>6. Others(t) BY <2>1, <2>3, <2>5 DEF Others
  <2>7. Locking(t)' /\ Pending(t)'
    BY <1>1, <2>1, <2>3, <2>5 DEF Locking, Pending, Read
  <2>. QED BY <2>1, <2>3, <2>4, <2>6, <2>7 DEF Steps
<1>7. CASE pc[t] = 2
  <2>1. r[t][3] = Read(t, 4) BY <1>1, <1>7 DEF Locking
  <2>2. r[t][3] \in 0 .. Word - 1
    <3>1. reserved[t] % Place(4) \in Int BY <1>1, <1>3 DEF Typed
    <3>. QED BY <1>3, <2>1, <3>1, Swapped DEF Read
  <2>3. /\ cr' \in [Threads -> [0 .. (W \div 4) - 1 -> CRField]]
        /\ cr'[t][0].eq = 1 <=> r[t][3] = 0
        /\ \A u \in Threads \ {t} : cr'[u] = cr[u]
        /\ UNCHANGED <<r, xer, reserved, buffer, mem>>
        /\ Steps(t)
    BY <1>1, <1>2, <1>7, <2>2, LockedIs, DoTest
  <2>4. /\ Placed' /\ pc'[t] = 3 /\ \A u \in Threads \ {t} : pc'[u] = pc[u]
    BY <1>1, <1>7, <2>3, StepMoves DEF Placed
  <2>5. Typed' BY <1>1, <2>3, TypedStep DEF Typed
  <2>6. Others(t) BY <2>3, <2>4 DEF Others
  <2>7. Locking(t)' /\ Pending(t)'
    BY <1>1, <2>1, <2>3, <2>4 DEF Locking, Pending, Read, Succeeded
  <2>. QED BY <2>3, <2>4, <2>5, <2>6, <2>7 DEF Steps
<1>8. CASE pc[t] = 3
  <2>1. /\ pc' = [pc EXCEPT ![t] = IF Succeeded(t) THEN @ + 1 ELSE 1]
        /\ UNCHANGED <<prog, r, xer, cr, reserved, buffer, mem>>
    BY <1>1, <1>2, <1>8, LockedIs, DoBranch
  <2>2. /\ Placed' /\ pc'[t] = (IF Succeeded(t) THEN 4 ELSE 1)
        /\ \A u \in Threads \ {t} : pc'[u] = pc[u]
    BY <1>1, <1>8, <2>1 DEF Placed
  <2>3. Typed' BY <1>1, <2>1, TypedStep DEF Typed
  <2>4. Others(t) BY <2>1, <2>2 DEF Others
  <2>5. Locking(t)' /\ Pending(t)'
    BY <1>1, <1>8, <2>1, <2>2 DEF Locking, Pending, Read
  <2>. QED BY <2>1, <2>2, <2>3, <2>4, <2>5
<1>9. CASE pc[t] = 4
  <2>1. /\ r' = [r EXCEPT ![t][4] = (0 + 1) % DWord]
        /\ UNCHANGED <<xer, cr, reserved, buffer, mem>>
        /\ Steps(t)
    BY <1>1, <1>2, <1>9, LockedIs, DoAdd
  <2>2. r' = [r EXCEPT ![t][4] = 1]
    <3>1. (0 + 1) % DWord = 1 BY <1>3
    <3>. QED BY <2>1, <3>1
  <2>3. /\ Placed' /\ pc'[t] = 5 /\ \A u \in Threads \ {t} : pc'[u] = pc[u]
    BY <1>1, <1>9, <2>1, StepMoves DEF Placed
  <2>4. Typed'
    <3>1. 4 \in 3 .. 5 /\ 1 \in Nat OBVIOUS
    <3>2. /\ xer' = xer /\ mem' \in Bytes /\ reserved' \in [Threads -> Nat]
          /\ cr' \in [Threads -> [0 .. (W \div 4) - 1 -> CRField]]
      BY <1>1, <2>1 DEF Typed
    <3>. QED BY <1>1, <2>2, <3>1, <3>2, TypedStep
  <2>5. r'[t][4] = 1 /\ r'[t][3] = r[t][3] /\ \A u \in Threads \ {t} : r'[u] = r[u]
    BY <1>1, <2>2 DEF Typed
  <2>6. Others(t) BY <2>1, <2>3, <2>5 DEF Others
  <2>7. Locking(t)' /\ Pending(t)'
    BY <1>1, <1>9, <2>1, <2>3, <2>5 DEF Locking, Pending, Read
  <2>. QED BY <2>1, <2>3, <2>4, <2>6, <2>7 DEF Steps
<1>. QED BY <1>1, <1>6, <1>7, <1>8, <1>9

LEMMA OneAppended ==
  ASSUME NEW x, NEW y
  PROVE  Append(<<x>>, y) = <<x, y>>
<1> DEFINE s == <<x>>
           t == <<x, y>>
           S == {x, y}
           a == Append(s, y)
<1>1. /\ s \in Seq(S) /\ t \in Seq(S) /\ y \in S
      /\ Len(s) = 1 /\ Len(t) = 2 /\ t[1] = x /\ t[2] = y /\ s[1] = x
  OBVIOUS
<1> HIDE DEF s, S, t
<1>2. a \in Seq(S) /\ Len(a) = 2
  <2>1. a \in Seq(S) BY <1>1, AppendProperties
  <2>2. Len(a) = Len(s) + 1 BY <1>1, AppendProperties, ZenonT(30)
  <2>. QED BY <1>1, <2>1, <2>2
<1>3. a[1] = x BY <1>1, AppendProperties
<1>4. a[2] = y
  <2>1. a[Len(s) + 1] = y BY <1>1, AppendProperties
  <2>2. Len(s) + 1 = 2 BY <1>1
  <2>. QED BY <2>1, <2>2, Zenon
<1> HIDE DEF a
<1>5. \A i \in 1 .. Len(a) : a[i] = t[i] BY <1>1, <1>2, <1>3, <1>4
<1>6. a = t BY <1>1, <1>2, <1>5, SeqEqual
<1>. QED BY <1>6 DEF a, s, t

LEMMA TwoStores ==
  \A x, y : /\ Append(<<x>>, y) = <<x, y>>
            /\ Len(<<x>>) = 1 /\ <<x>> # <<>> /\ Head(<<x>>) = x /\ Tail(<<x>>) = <<>>
            /\ Len(<<x, y>>) = 2 /\ <<x, y>> # <<>> /\ Head(<<x, y>>) = x /\ Tail(<<x, y>>) = <<y>>
<1> SUFFICES ASSUME NEW x, NEW y
             PROVE  /\ Append(<<x>>, y) = <<x, y>>
                    /\ Len(<<x>>) = 1 /\ <<x>> # <<>> /\ Head(<<x>>) = x /\ Tail(<<x>>) = <<>>
                    /\ Len(<<x, y>>) = 2 /\ <<x, y>> # <<>>
                    /\ Head(<<x, y>>) = x /\ Tail(<<x, y>>) = <<y>>
  OBVIOUS
<1>2. Append(<<x>>, y) = <<x, y>> BY OneAppended
<1>3. Len(<<x>>) = 1 /\ <<x>> # <<>> /\ Head(<<x>>) = x /\ Tail(<<x>>) = <<>>
  OBVIOUS
<1>4. Len(<<x, y>>) = 2 /\ <<x, y>> # <<>> /\ Head(<<x, y>>) = x OBVIOUS
<1>5. Tail(<<x, y>>) = <<y>> OBVIOUS
<1>. QED BY <1>2, <1>3, <1>4, <1>5

\* Only a thread that finds the lock free takes it.
LEMMA LockTaken ==
  ASSUME LockInv, Alike(Locked), IsFiniteSet(Threads), NEW t \in Threads, Step(t), pc[t] = 5
  PROVE  LockInv' /\ Alike(Locked)'
<1>1. /\ Typed /\ Placed /\ Locking(t) /\ Pending(t) /\ buffer[t] = <<>>
      /\ prog[t] = Locked
  BY DEF LockInv, Locking, Pending, Alike
<1>2. Current(t) = Locked[5] BY <1>1 DEF Current
<1>3. Place(4) = Word /\ Word \in Nat /\ Word >= 16 BY Widths
<1>4. ~Owner(t) /\ ~Stored(t) BY <1>1 DEF Owner, Stored
<1>5. r[t][3] = 0 /\ r[t][3] = Read(t, 4) /\ r[t][4] = 1 BY <1>1 DEF Locking
<1>6. /\ IF Number(mem, 8, 4) = 0 THEN mem' = After(mem, 8, 4, 1) ELSE mem' = mem
      /\ cr' \in [Threads -> [0 .. (W \div 4) - 1 -> CRField]]
      /\ cr'[t][0].eq = 1 <=> Number(mem, 8, 4) = 0
      /\ \A u \in Threads \ {t} : cr'[u] = cr[u]
      /\ UNCHANGED <<r, xer, reserved, buffer>>
      /\ Steps(t)
  <2>1. Exchanging(Current(t), 4, 4, 8) BY <1>2, LockedIs DEF Exchanging
  <2>2. /\ IF Number(mem, 8, 4) = Read(t, 4) THEN mem' = After(mem, 8, 4, r[t][4]) ELSE mem' = mem
        /\ cr' \in [Threads -> [0 .. (W \div 4) - 1 -> CRField]]
        /\ cr'[t][0].eq = 1 <=> Number(mem, 8, 4) = Read(t, 4)
        /\ \A u \in Threads \ {t} : cr'[u] = cr[u]
        /\ UNCHANGED <<r, xer, reserved, buffer>>
        /\ Steps(t)
    BY <1>1, <2>1, DoExchange
  <2>. QED BY <1>5, <2>2
<1>7. mem \in Bytes /\ mem' \in Bytes
  <2>1. mem \in Bytes BY <1>1 DEF Typed
  <2>2. After(mem, 8, 4, 1) \in Bytes BY <2>1, AfterIs
  <2>. QED BY <1>6, <2>1, <2>2
<1>8. /\ Placed' /\ pc'[t] = 6 /\ \A u \in Threads \ {t} : pc'[u] = pc[u]
  BY <1>1, <1>6, StepMoves DEF Placed
<1>9. Typed' BY <1>1, <1>6, <1>7, TypedStep DEF Typed
<1>10. Others(t) BY <1>6, <1>8 DEF Others
<1>11. Locking(t)' /\ Pending(t)' /\ ~Stored(t)'
  BY <1>1, <1>6, <1>8 DEF Locking, Pending, Stored
<1>12. CASE Number(mem, 8, 4) # 0
  <2>1. ~Owner(t)' BY <1>6, <1>8, <1>12 DEF Owner, Succeeded
  <2>. QED
    BY <1>4, <1>6, <1>8, <1>9, <1>10, <1>11, <1>12, <2>1, LockQuiet DEF Steps
<1>13. CASE Number(mem, 8, 4) = 0
  <2>1. \A u \in Threads : ~Owner(u) BY <1>13 DEF LockInv, Bit
  <2>2. Owner(t)' BY <1>6, <1>8, <1>13 DEF Owner, Succeeded
  <2>3. Number(mem', 8, 4) = 1
    <3>1. Number(After(mem, 8, 4, 1), 8, 4) = 1 % Place(4) BY <1>7, RawAfter
    <3>2. 1 % Word = 1 BY <1>3
    <3>. QED BY <1>3, <1>6, <1>13, <3>1, <3>2
  <2>4. Number(mem', 12, 4) = Number(mem, 12, 4)
    <3>1. Number(After(mem, 8, 4, 1), 12, 4) = Number(mem, 12, 4)
      <4>1. 8 + 4 <= 12 /\ 12 + 4 <= 16 /\ 8 + 4 <= 16 OBVIOUS
      <4>. QED BY <1>7, <4>1, ElsewhereAfter
    <3>. QED BY <1>6, <1>13, <3>1
  <2>5. Incremented' = Incremented /\ Number(mem, 12, 4)' = Number(mem, 12, 4)
    BY <2>4 DEF Incremented, Number, Raw
  <2>6. \A u \in Threads \ {t} : /\ Locking(u)' /\ Pending(u)'
                                 /\ ~Owner(u)'
                                 /\ Stored(u)' <=> Stored(u)
    <3> SUFFICES ASSUME NEW u \in Threads \ {t}
                 PROVE  /\ Locking(u)' /\ Pending(u)'
                        /\ ~Owner(u)'
                        /\ Stored(u)' <=> Stored(u)
      OBVIOUS
    <3>1. /\ pc'[u] = pc[u] /\ r'[u] = r[u] /\ cr'[u] = cr[u]
          /\ reserved'[u] = reserved[u] /\ buffer'[u] = buffer[u]
      BY <1>10 DEF Others
    <3>2. Locking(u) /\ Pending(u) BY DEF LockInv
    <3>3. Locking(u)' BY <2>5, <3>1, <3>2 DEF Locking, Succeeded, Read, Place
    <3>4. Pending(u)' BY <2>5, <3>1, <3>2 DEF Pending, StoreOf
    <3>5. Owner(u)' <=> Owner(u) BY <3>1 DEF Owner, Succeeded
    <3>6. Stored(u)' <=> Stored(u) BY <3>1 DEF Stored
    <3>. QED BY <2>1, <3>3, <3>4, <3>5, <3>6
  <2>7. \A u \in Threads : Locking(u)' /\ Pending(u)' /\ (Stored(u)' <=> Stored(u))
    BY <1>4, <1>11, <2>6
  <2>8. {u \in Threads : Stored(u)'} = {u \in Threads : Stored(u)} BY <2>7
  <2>9. \A u, w \in Threads : Owner(u)' /\ Owner(w)' => u = w BY <2>6
  <2>10. /\ Number(mem', 8, 4) = Bit(\E u \in Threads : Owner(u)')
         /\ Number(mem', 12, 4) = Cardinality({u \in Threads : Stored(u)'}) % Word
    BY <2>2, <2>3, <2>4, <2>8 DEF LockInv, Bit
  <2>11. Alike(Locked)' BY <1>6 DEF Alike, Steps
  <2>. QED BY <1>8, <1>9, <2>7, <2>9, <2>10, <2>11 DEF LockInv, Bit
<1>. QED BY <1>12, <1>13

\* The steps of the thread that has the lock, and of one that failed to take it.
LEMMA LockHeld ==
  ASSUME LockInv, Alike(Locked), IsFiniteSet(Threads), NEW t \in Threads, Step(t), pc[t] >= 6
  PROVE  LockInv' /\ Alike(Locked)'
<1>1. /\ Typed /\ Placed /\ Locking(t) /\ Pending(t) /\ pc[t] \in 6 .. 13
      /\ prog[t] = Locked
  <2>1. prog[t] = Locked /\ Running(t) BY DEF Alike, Step
  <2>2. pc[t] <= 13 BY <2>1, LockedIs DEF Running
  <2>. QED BY <2>1, <2>2 DEF LockInv, Locking
<1>2. Current(t) = Locked[pc[t]] BY <1>1 DEF Current
<1>3. Place(4) = Word /\ Word \in Nat /\ Word >= 16 /\ DWord \in Nat /\ DWord > 1
  BY Widths
<1>4. /\ r \in [Threads -> [0 .. 5 -> Nat]] /\ mem \in Bytes /\ reserved \in [Threads -> Nat]
      /\ cr \in [Threads -> [0 .. (W \div 4) - 1 -> CRField]]
  BY <1>1 DEF Typed
<1>5. SUFFICES /\ Others(t) /\ Typed' /\ Placed' /\ Locking(t)' /\ Pending(t)'
               /\ prog' = prog /\ mem' = mem
               /\ Owner(t)' <=> Owner(t)
               /\ Stored(t)' <=> Stored(t)
  BY LockQuiet
<1>6. CASE pc[t] = 6
  <2>1. /\ pc' = [pc EXCEPT ![t] = IF Succeeded(t) THEN @ + 1 ELSE 1]
        /\ UNCHANGED <<prog, r, xer, cr, reserved, buffer, mem>>
    BY <1>1, <1>2, <1>6, LockedIs, DoBranch
  <2>2. /\ Placed' /\ pc'[t] = (IF Succeeded(t) THEN 7 ELSE 1)
        /\ \A u \in Threads \ {t} : pc'[u] = pc[u]
    BY <1>1, <1>6, <2>1 DEF Placed
  <2>3. Typed' BY <1>1, <2>1, TypedStep DEF Typed
  <2>4. Others(t) BY <2>1, <2>2 DEF Others
  <2>5. Locking(t)' /\ Pending(t)'
    BY <1>1, <1>6, <2>1, <2>2 DEF Locking, Pending
  <2>6. (Owner(t)' <=> Owner(t)) /\ (Stored(t)' <=> Stored(t))
    BY <1>6, <2>1, <2>2 DEF Owner, Stored
  <2>. QED BY <2>1, <2>2, <2>3, <2>4, <2>5, <2>6
<1>7. CASE pc[t] \in {7, 11}
  <2>1. UNCHANGED <<r, xer, cr, reserved, buffer, mem>> /\ Steps(t)
    BY <1>2, <1>7, LockedIs, DoBarrier
  <2>2. /\ Placed' /\ pc'[t] = pc[t] + 1
        /\ \A u \in Threads \ {t} : pc'[u] = pc[u]
    BY <1>1, <2>1, StepMoves DEF Placed
  <2>3. Typed' BY <1>1, <2>1, TypedStep DEF Typed
  <2>4. Others(t) BY <2>1, <2>2 DEF Others
  <2>5. Incremented' = Incremented BY <2>1 DEF Incremented, Number, Raw
  <2>6. Locking(t)' /\ Pending(t)'
    BY <1>1, <1>7, <2>1, <2>2, <2>5 DEF Locking, Pending, StoreOf
  <2>7. (Owner(t)' <=> Owner(t)) /\ (Stored(t)' <=> Stored(t))
    BY <1>7, <2>1, <2>2 DEF Owner, Stored
  <2>. QED BY <2>1, <2>2, <2>3, <2>4, <2>6, <2>7 DEF Steps
<1>8. CASE pc[t] = 8
  <2>1. buffer[t] = <<>> BY <1>1, <1>8 DEF Pending
  <2>2. /\ r' = [r EXCEPT ![t][5] = Number(mem, 12, 4)]
        /\ UNCHANGED <<xer, cr, reserved, buffer, mem>>
        /\ Steps(t)
    BY <1>1, <1>2, <1>8, <2>1, LockedIs, DoLoad
  <2>3. Number(mem, 12, 4) \in Nat
    <3>1. 12 + 4 <= 16 OBVIOUS
    <3>2. Number(mem, 12, 4) \in 0 .. Place(4) - 1 BY <1>4, <3>1, NumberType
    <3>3. 0 .. Place(4) - 1 \subseteq Nat BY <1>3
    <3>. QED BY <3>2, <3>3
  <2>4. /\ Placed' /\ pc'[t] = 9
        /\ \A u \in Threads \ {t} : pc'[u] = pc[u]
    BY <1>1, <1>8, <2>2, StepMoves DEF Placed
  <2>5. Typed'
    <3>1. 5 \in 3 .. 5 OBVIOUS
    <3>. QED BY <1>1, <1>4, <2>2, <2>3, <3>1, TypedStep
  <2>6. r'[t][5] = Number(mem, 12, 4) /\ \A u \in Threads \ {t} : r'[u] = r[u]
    BY <1>4, <2>2
  <2>7. Others(t) BY <2>2, <2>4, <2>6 DEF Others
  <2>8. Number(mem, 12, 4)' = Number(mem, 12, 4) BY <2>2 DEF Number, Raw
  <2>9. Locking(t)' /\ Pending(t)'
    BY <2>1, <2>2, <2>4, <2>6, <2>8 DEF Locking, Pending
  <2>10. (Owner(t)' <=> Owner(t)) /\ (Stored(t)' <=> Stored(t))
    BY <1>8, <2>4 DEF Owner, Stored
  <2>. QED BY <2>2, <2>4, <2>5, <2>7, <2>9, <2>10 DEF Steps
<1>9. CASE pc[t] = 9
  <2>1. buffer[t] = <<>> /\ r[t][5] = Number(mem, 12, 4)
    BY <1>1, <1>9 DEF Pending, Locking
  <2>2. /\ r' = [r EXCEPT ![t][5] = (r[t][5] + 1) % DWord]
        /\ UNCHANGED <<xer, cr, reserved, buffer, mem>>
        /\ Steps(t)
    BY <1>1, <1>2, <1>9, LockedIs, DoAdd
  <2>3. r[t][5] \in Nat /\ r[t][5] + 1 \in Int BY <1>4
  <2>4. (r[t][5] + 1) % DWord \in Nat BY <1>3, <2>3
  <2>5. /\ Placed' /\ pc'[t] = 10
        /\ \A u \in Threads \ {t} : pc'[u] = pc[u]
    BY <1>1, <1>9, <2>2, StepMoves DEF Placed
  <2>6. Typed'
    <3>1. 5 \in 3 .. 5 OBVIOUS
    <3>. QED BY <1>1, <1>4, <2>2, <2>4, <3>1, TypedStep
  <2>7. r'[t][5] = (r[t][5] + 1) % DWord /\ \A u \in Threads \ {t} : r'[u] = r[u]
    BY <1>4, <2>2
  <2>8. Others(t) BY <2>2, <2>5, <2>7 DEF Others
  <2>9. r'[t][5] % Word = Incremented'
    <3>1. ((r[t][5] + 1) % DWord) % Place(4) = (r[t][5] + 1) % Place(4)
      BY <2>3, Narrow
    <3>2. Incremented' = Incremented BY <2>2 DEF Incremented, Number, Raw
    <3>. QED BY <1>3, <2>1, <2>7, <3>1, <3>2 DEF Incremented
  <2>10. Locking(t)' /\ Pending(t)'
    BY <2>1, <2>2, <2>5, <2>9 DEF Locking, Pending
  <2>11. (Owner(t)' <=> Owner(t)) /\ (Stored(t)' <=> Stored(t))
    BY <1>9, <2>5 DEF Owner, Stored
  <2>. QED BY <2>2, <2>5, <2>6, <2>8, <2>10, <2>11 DEF Steps
<1>10. CASE pc[t] = 10
  <2>1. buffer[t] = <<>> /\ r[t][5] % Word = Incremented
    BY <1>1, <1>10 DEF Pending, Locking
  <2>2. /\ buffer' = [buffer EXCEPT ![t] = Append(@, StoreOf(12, r[t][5]))]
        /\ UNCHANGED <<r, xer, cr, reserved, mem>>
        /\ Steps(t)
    <3>1. 5 \in 0 .. 5 /\ 4 \in {0, 4} /\ 8 + 4 = 12 OBVIOUS
    <3>2. Current(t) = I("stw", 5, 1, 4) BY <1>2, <1>10, LockedIs
    <3>3. /\ buffer' = [buffer EXCEPT ![t] = Append(@, StoreOf(8 + 4, r[t][5]))]
          /\ UNCHANGED <<r, xer, cr, reserved, mem>>
          /\ Steps(t)
      BY <1>1, <3>1, <3>2, DoStore
    <3>. QED BY <3>1, <3>3
  <2>3. StoreOf(12, r[t][5]) = StoreOf(12, Incremented)
    <3>1. r[t][5] \in Int BY <1>4
    <3>2. bswap(4, r[t][5] % Place(4)) = bswap(4, r[t][5]) BY <3>1, SwapCuts
    <3>. QED BY <1>3, <2>1, <3>2 DEF StoreOf
  <2>4. /\ Placed' /\ pc'[t] = 11
        /\ \A u \in Threads \ {t} : pc'[u] = pc[u]
    BY <1>1, <1>10, <2>2, StepMoves DEF Placed
  <2>5. Typed' BY <1>1, <2>2 DEF Typed
  <2>6. buffer'[t] = <<StoreOf(12, Incremented)>> /\ \A u \in Threads \ {t} : buffer'[u] = buffer[u]
    BY <1>1, <2>1, <2>2, <2>3 DEF Placed
  <2>7. Others(t) BY <2>2, <2>4, <2>6 DEF Others
  <2>8. Incremented' = Incremented BY <2>2 DEF Incremented, Number, Raw
  <2>9. Locking(t)' /\ Pending(t)'
    BY <2>4, <2>6, <2>8 DEF Locking, Pending, StoreOf
  <2>10. (Owner(t)' <=> Owner(t)) /\ (Stored(t)' <=> Stored(t))
    BY <1>10, <2>4, <2>6 DEF Owner, Stored
  <2>. QED BY <2>2, <2>4, <2>5, <2>7, <2>9, <2>10 DEF Steps
<1>11. CASE pc[t] = 12
  <2>1. /\ r' = [r EXCEPT ![t][4] = (0 + 0) % DWord]
        /\ UNCHANGED <<xer, cr, reserved, buffer, mem>>
        /\ Steps(t)
    BY <1>1, <1>2, <1>11, LockedIs, DoAdd
  <2>2. r' = [r EXCEPT ![t][4] = 0]
    <3>1. (0 + 0) % DWord = 0 BY <1>3
    <3>. QED BY <2>1, <3>1
  <2>3. /\ Placed' /\ pc'[t] = 13
        /\ \A u \in Threads \ {t} : pc'[u] = pc[u]
    BY <1>1, <1>11, <2>1, StepMoves DEF Placed
  <2>4. Typed'
    <3>1. 4 \in 3 .. 5 /\ 0 \in Nat OBVIOUS
    <3>. QED BY <1>1, <1>4, <2>1, <2>2, <3>1, TypedStep
  <2>5. r'[t][4] = 0 /\ \A u \in Threads \ {t} : r'[u] = r[u] BY <1>4, <2>2
  <2>6. Others(t) BY <2>1, <2>3, <2>5 DEF Others
  <2>7. Incremented' = Incremented BY <2>1 DEF Incremented, Number, Raw
  <2>8. Locking(t)' /\ Pending(t)'
    BY <1>1, <1>11, <2>1, <2>3, <2>5, <2>7 DEF Locking, Pending, StoreOf
  <2>9. (Owner(t)' <=> Owner(t)) /\ (Stored(t)' <=> Stored(t))
    BY <1>11, <2>1, <2>3 DEF Owner, Stored
  <2>. QED BY <2>1, <2>3, <2>4, <2>6, <2>8, <2>9 DEF Steps
<1>12. CASE pc[t] = 13
  <2>1. /\ r[t][4] = 0
        /\ buffer[t] = <<>> \/ buffer[t] = <<StoreOf(12, Incremented)>>
    BY <1>1, <1>12 DEF Pending, Locking
  <2>2. /\ buffer' = [buffer EXCEPT ![t] = Append(@, StoreOf(8, 0))]
        /\ UNCHANGED <<r, xer, cr, reserved, mem>>
        /\ Steps(t)
    <3>1. 4 \in 0 .. 5 /\ 0 \in {0, 4} /\ 8 + 0 = 8 OBVIOUS
    <3>2. Current(t) = I("stw", 4, 1, 0) BY <1>2, <1>12, LockedIs
    <3>3. /\ buffer' = [buffer EXCEPT ![t] = Append(@, StoreOf(8 + 0, r[t][4]))]
          /\ UNCHANGED <<r, xer, cr, reserved, mem>>
          /\ Steps(t)
      BY <1>1, <3>1, <3>2, DoStore
    <3>. QED BY <2>1, <3>1, <3>3
  <2>3. /\ Placed' /\ pc'[t] = 14
        /\ \A u \in Threads \ {t} : pc'[u] = pc[u]
    BY <1>1, <1>12, <2>2, StepMoves DEF Placed
  <2>4. Typed' BY <1>1, <2>2 DEF Typed
  <2>5. /\ \/ buffer[t] = <<>> /\ buffer'[t] = <<StoreOf(8, 0)>>
           \/ buffer[t] # <<>> /\ buffer'[t] = <<StoreOf(12, Incremented), StoreOf(8, 0)>>
        /\ \A u \in Threads \ {t} : buffer'[u] = buffer[u]
    <3>1. /\ buffer'[t] = Append(buffer[t], StoreOf(8, 0))
          /\ \A u \in Threads \ {t} : buffer'[u] = buffer[u]
      BY <1>1, <2>2 DEF Placed
    <3>2. CASE buffer[t] = <<>> BY <3>1, <3>2
    <3>3. CASE buffer[t] = <<StoreOf(12, Incremented)>>
      <4>. QED BY <3>1, <3>3, TwoStores
    <3>. QED BY <2>1, <3>1, <3>2, <3>3
  <2>6. Others(t) BY <2>2, <2>3, <2>5 DEF Others
  <2>7. Incremented' = Incremented BY <2>2 DEF Incremented, Number, Raw
  <2>8. Locking(t)' /\ Pending(t)'
    BY <2>3, <2>5, <2>7 DEF Locking, Pending, StoreOf
  <2>9. (Owner(t)' <=> Owner(t)) /\ (Stored(t)' <=> Stored(t))
    <3>1. CASE buffer[t] = <<>>
      <4>1. buffer'[t] # <<>> /\ Len(buffer'[t]) = 1 BY <2>5, <3>1, TwoStores
      <4>. QED BY <1>12, <2>3, <3>1, <4>1 DEF Owner, Stored
    <3>2. CASE buffer[t] # <<>>
      <4>1. buffer'[t] # <<>> /\ Len(buffer'[t]) = 2 BY <2>5, <3>2, TwoStores
      <4>. QED BY <1>12, <2>3, <3>2, <4>1 DEF Owner, Stored
    <3>. QED BY <3>1, <3>2
  <2>. QED BY <2>2, <2>3, <2>4, <2>6, <2>8, <2>9 DEF Steps
<1>. QED BY <1>1, <1>6, <1>7, <1>8, <1>9, <1>10, <1>11, <1>12

\* A store reaches the memory: that of the counter, or that of the lock.
LEMMA LockDrained ==
  ASSUME LockInv, Alike(Locked), NEW t \in Threads, Drain(t)
  PROVE  LockInv' /\ Alike(Locked)'
<1>1. /\ Typed /\ Placed /\ Locking(t) /\ Pending(t) /\ mem \in Bytes
      /\ pc[t] \in 1 .. 14
  BY DEF LockInv, Locking, Typed
<1>2. /\ buffer[t] # <<>>
      /\ mem' = Over(Head(buffer[t]), mem)
      /\ buffer' = [buffer EXCEPT ![t] = Tail(@)]
      /\ UNCHANGED <<prog, pc, r, xer, cr, reserved>>
  BY DoDrain
<1>3. /\ buffer'[t] = Tail(buffer[t])
      /\ \A u \in Threads \ {t} : buffer'[u] = buffer[u]
      /\ Placed'
  BY <1>1, <1>2 DEF Placed
<1>4. Place(4) = Word /\ Word \in Nat /\ Word >= 16 BY Widths
<1>5. Owner(t) /\ pc[t] \in 11 .. 14 BY <1>1, <1>2 DEF Pending, Owner
<1>6. \A u \in Threads \ {t} : ~Owner(u) BY <1>5 DEF LockInv
<1>7. \A u \in Threads \ {t} :
        /\ pc[u] \in 1 .. 6 \/ (pc[u] = 14 /\ buffer[u] = <<>>)
        /\ Locking(u)' /\ Pending(u)' /\ ~Owner(u)'
        /\ Stored(u)' <=> Stored(u)
  <2> SUFFICES ASSUME NEW u \in Threads \ {t}
               PROVE  /\ pc[u] \in 1 .. 6 \/ (pc[u] = 14 /\ buffer[u] = <<>>)
                      /\ Locking(u)' /\ Pending(u)' /\ ~Owner(u)'
                      /\ Stored(u)' <=> Stored(u)
    OBVIOUS
  <2>1. Locking(u) /\ Pending(u) /\ ~Owner(u) BY <1>6 DEF LockInv
  <2>2. pc[u] \in 1 .. 14 BY <2>1 DEF Locking
  <2>3. pc[u] \in 1 .. 6 \/ (pc[u] = 14 /\ buffer[u] = <<>>)
    <3>1. pc[u] \notin 7 .. 13 /\ (pc[u] = 14 => buffer[u] = <<>>)
      BY <2>1 DEF Owner
    <3>2. pc[u] \in 1 .. 6 \/ pc[u] = 14 BY <2>2, <3>1
    <3>. QED BY <3>1, <3>2
  <2>4. Locking(u)' BY <1>2, <2>1, <2>3 DEF Locking, Succeeded, Read, Place
  <2>5. Pending(u)' BY <1>2, <1>3, <2>1, <2>3 DEF Pending
  <2>6. ~Owner(u)' /\ (Stored(u)' <=> Stored(u))
    BY <1>2, <1>3, <2>1 DEF Owner, Stored, Succeeded
  <2>. QED BY <2>3, <2>4, <2>5, <2>6
<1>8. Locking(t)' BY <1>1, <1>2, <1>5 DEF Locking
<1>9. \A x : /\ Over(StoreOf(12, x), mem) = After(mem, 12, 4, x)
             /\ Over(StoreOf(8, x), mem) = After(mem, 8, 4, x)
  BY DEF StoreOf, After
<1>10. Alike(Locked)' BY <1>2 DEF Alike
<1>11. CASE Head(buffer[t]) = StoreOf(12, Incremented) /\ ~Stored(t)
            /\ (\/ pc[t] \in 11 .. 13 /\ Tail(buffer[t]) = <<>>
                \/ pc[t] = 14 /\ Tail(buffer[t]) = <<StoreOf(8, 0)>>)
  <2> DEFINE D == {u \in Threads : Stored(u)}
  <2>1. mem' = After(mem, 12, 4, Incremented) BY <1>2, <1>9, <1>11
  <2>2. Number(mem, 12, 4) \in Int /\ Incremented \in Int /\ Incremented % Word = Incremented
    <3>1. 12 + 4 <= 16 OBVIOUS
    <3>2. Number(mem, 12, 4) \in 0 .. Place(4) - 1 BY <1>1, <3>1, NumberType
    <3>3. 0 .. Place(4) - 1 \subseteq Int BY <1>4
    <3> DEFINE x == Number(mem, 12, 4)
    <3>4. x \in Int BY <3>2, <3>3
    <3>. HIDE DEF x
    <3>5. (x + 1) % Word \in Int /\ ((x + 1) % Word) % Word = (x + 1) % Word
      BY <1>4, <3>4
    <3>. QED BY <3>4, <3>5 DEF Incremented, x
  <2>3. /\ mem' \in Bytes
        /\ Number(mem', 12, 4) = Incremented
        /\ Number(mem', 8, 4) = Number(mem, 8, 4)
    <3>1. 12 + 4 <= 16 /\ 8 + 4 <= 12 /\ 8 + 4 <= 16 OBVIOUS
    <3>2. mem' \in Bytes BY <1>1, <2>1, <2>2, <3>1, AfterIs
    <3>3. Number(mem', 12, 4) = Incremented % Place(4)
      BY <1>1, <2>1, <2>2, <3>1, RawAfter
    <3>4. Number(mem', 8, 4) = Number(mem, 8, 4)
      BY <1>1, <2>1, <2>2, <3>1, ElsewhereAfter
    <3>. QED BY <1>4, <2>2, <3>2, <3>3, <3>4
  <2>4. Typed' BY <1>1, <1>2, <2>3 DEF Typed
  <2>5. Pending(t)' /\ Owner(t)' /\ Stored(t)'
    <3>1. CASE pc[t] \in 11 .. 13 /\ Tail(buffer[t]) = <<>>
      <4>1. pc'[t] \in 11 .. 13 /\ buffer'[t] = <<>> BY <1>2, <1>3, <3>1
      <4>. QED BY <4>1 DEF Pending, Owner, Stored
    <3>2. CASE pc[t] = 14 /\ Tail(buffer[t]) = <<StoreOf(8, 0)>>
      <4>1. /\ pc'[t] = 14 /\ buffer'[t] = <<StoreOf(8, 0)>>
            /\ buffer'[t] # <<>> /\ Len(buffer'[t]) = 1
        BY <1>2, <1>3, <3>2, TwoStores, ZenonT(30)
      <4>. QED BY <4>1 DEF Pending, Owner, Stored
    <3>. QED BY <1>11, <3>1, <3>2
  <2>6. Stored(t)' BY <2>5
  <2>7. {u \in Threads : Stored(u)'} = D \cup {t} /\ t \notin D
    BY <1>7, <1>11, <2>6
  <2>8. Number(mem', 12, 4) = Cardinality(D \cup {t}) % Word
    <3>1. IsFiniteSet(D) BY ThreadsAssumption, FS_Subset
    <3>2. Number(mem, 12, 4) = Cardinality(D) % Word BY DEF LockInv
    <3>. HIDE DEF D
    <3>3. Cardinality(D \cup {t}) % Word = ((Cardinality(D) % Word) + 1) % Word
      BY <1>4, <2>7, <3>1, OneMore
    <3>. QED BY <2>3, <3>2, <3>3 DEF Incremented
  <2>9. Number(mem', 8, 4) = Bit(\E u \in Threads : Owner(u)')
    BY <1>5, <2>3, <2>5 DEF LockInv, Bit
  <2>10. Number(mem', 12, 4) = Cardinality({u \in Threads : Stored(u)'}) % Word
    BY <2>7, <2>8
  <2>11. /\ \A u \in Threads : Locking(u)' /\ Pending(u)'
         /\ \A u, w \in Threads : Owner(u)' /\ Owner(w)' => u = w
    BY <1>7, <1>8, <2>5
  <2>. QED BY <1>3, <1>10, <2>4, <2>9, <2>10, <2>11 DEF LockInv, Bit
<1>12. CASE Head(buffer[t]) = StoreOf(8, 0) /\ Tail(buffer[t]) = <<>> /\ Stored(t) /\ pc[t] = 14
  <2>1. mem' = After(mem, 8, 4, 0) BY <1>2, <1>9, <1>12
  <2>2. /\ mem' \in Bytes
        /\ Number(mem', 8, 4) = 0
        /\ Number(mem', 12, 4) = Number(mem, 12, 4)
    <3>1. 12 + 4 <= 16 /\ 8 + 4 <= 12 /\ 8 + 4 <= 16 /\ 0 \in Int OBVIOUS
    <3>2. mem' \in Bytes BY <1>1, <2>1, <3>1, AfterIs
    <3>3. Number(mem', 8, 4) = 0 % Place(4) BY <1>1, <2>1, <3>1, RawAfter
    <3>4. Number(mem', 12, 4) = Number(mem, 12, 4)
      BY <1>1, <2>1, <3>1, ElsewhereAfter
    <3>5. 0 % Word = 0 BY <1>4
    <3>. QED BY <1>4, <3>2, <3>3, <3>4, <3>5
  <2>3. Typed' BY <1>1, <1>2, <2>2 DEF Typed
  <2>a. pc'[t] = 14 /\ buffer'[t] = <<>> /\ Len(buffer'[t]) = 0
    <3>1. buffer'[t] = <<>> BY <1>3, <1>12, Zenon
    <3>2. Len(buffer'[t]) = 0 BY <3>1
    <3>. QED BY <1>2, <1>12, <3>1, <3>2
  <2>4. Pending(t)' /\ ~Owner(t)' BY <2>a DEF Pending, Owner
  <2>5. Stored(t)' BY <2>a DEF Stored
  <2>6. {u \in Threads : Stored(u)'} = {u \in Threads : Stored(u)}
    BY <1>7, <1>12, <2>5
  <2>7. /\ Number(mem', 8, 4) = Bit(\E u \in Threads : Owner(u)')
        /\ Number(mem', 12, 4) = Cardinality({u \in Threads : Stored(u)'}) % Word
    BY <1>7, <2>2, <2>4, <2>6 DEF LockInv, Bit
  <2>8. /\ \A u \in Threads : Locking(u)' /\ Pending(u)'
        /\ \A u, w \in Threads : Owner(u)' /\ Owner(w)' => u = w
    BY <1>7, <1>8, <2>4
  <2>. QED BY <1>3, <1>10, <2>3, <2>7, <2>8 DEF LockInv, Bit
<1>13. CASE pc[t] \in 11 .. 13 /\ buffer[t] = <<StoreOf(12, Incremented)>>
  BY <1>11, <1>13, TwoStores DEF Stored
<1>14. CASE pc[t] = 14 /\ buffer[t] = <<StoreOf(8, 0)>>
  BY <1>12, <1>14, TwoStores DEF Stored
<1>15. CASE pc[t] = 14 /\ buffer[t] = <<StoreOf(12, Incremented), StoreOf(8, 0)>>
  BY <1>11, <1>15, TwoStores DEF Stored
<1>16. \/ pc[t] \in 11 .. 13 /\ buffer[t] = <<StoreOf(12, Incremented)>>
       \/ pc[t] = 14 /\ buffer[t] = <<StoreOf(8, 0)>>
       \/ pc[t] = 14 /\ buffer[t] = <<StoreOf(12, Incremented), StoreOf(8, 0)>>
  BY <1>1, <1>2, <1>5 DEF Pending
<1>. QED BY <1>13, <1>14, <1>15, <1>16

-----------------------------------------------------------------------------
(* The start, the steps of the machine and the theorems.                    *)

LEMMA NumberOfNothing ==
  ASSUME NEW n \in Nat, NEW a \in Nat, a + n <= 16
  PROVE  Number([c \in 0 .. 15 |-> 0], a, n) = 0
<1> DEFINE m == [c \in 0 .. 15 |-> 0]
           zeros == [k \in 0 .. n - 1 |-> ByteOf(0, k)]
<1>1. \A k \in 0 .. n - 1 : ByteOf(0, k) = 0
  <2> SUFFICES ASSUME NEW k \in 0 .. n - 1 PROVE ByteOf(0, k) = 0
    OBVIOUS
  <2>1. Place(k) \in Nat \ {0} /\ Byte \in Nat \ {0} BY Places
  <2>2. 0 \div Place(k) = 0 /\ 0 % Byte = 0 BY <2>1
  <2>. QED BY <2>2 DEF ByteOf, Place
<1>2. FromBytes(n, zeros) = 0
  <2>1. Place(n) \in Nat \ {0} /\ 0 \in Int BY Places
  <2>2. 0 % Place(n) = 0 BY <2>1
  <2>. QED BY <2>1, <2>2, NumberOfBytes
<1>3. Raw(m, a, n) = 0
  <2>1. \A k \in 0 .. n - 1 : a + k \in 0 .. 15 OBVIOUS
  <2>2. \A k \in 0 .. n - 1 : m[a + k] = ByteOf(0, k) BY <1>1, <2>1
  <2>. HIDE DEF m
  <2>3. [k \in 0 .. n - 1 |-> m[a + k]] = zeros BY <2>2
  <2>. QED BY <1>2, <2>3 DEF Raw
<1>4. bswap(n, 0) = 0
  <2>1. \A k \in 0 .. n - 1 : n - 1 - k \in 0 .. n - 1 OBVIOUS
  <2>2. [k \in 0 .. n - 1 |-> ByteOf(0, n - 1 - k)] = zeros BY <1>1, <2>1
  <2>. QED BY <1>2, <2>2 DEF bswap
<1>. QED BY <1>3, <1>4 DEF Number

\* No instruction changes a program.
LEMMA ProgramKept ==
  ASSUME NEW t \in Threads, Step(t) \/ Drain(t)
  PROVE  prog' = prog
<1>1. CASE Drain(t) BY <1>1, DoDrain
<1>2. CASE Step(t)
  <2>1. Advance(t) \/ BranchBack(t)
    BY <1>2 DEF Step, Compute, Compare, Trap, mfcr, mtcr, mtxer, CombineFlags, Load, Store,
      dcbz, LoadReserve, StoreConditional, Barrier
  <2>. QED BY <2>1 DEF Advance, BranchBack
<1>. QED BY <1>1, <1>2

\* What holds of every thread, by the program it runs.
AtomicsInv == \A t \in Threads :
    /\ prog[t] = Increment => Alike(Increment) /\ CountInv(4, 8)
    /\ prog[t] = IncrementDouble => Alike(IncrementDouble) /\ CountInv(8, 4)
    /\ prog[t] = Locked => Alike(Locked) /\ LockInv

LEMMA AtomicsStart == Init => AtomicsInv
<1> SUFFICES ASSUME Init, NEW t \in Threads,
                    NEW p \in {Increment, IncrementDouble, Locked}, prog[t] = p
             PROVE  /\ Alike(p)
                    /\ p = Increment => CountInv(4, 8)
                    /\ p = IncrementDouble => CountInv(8, 4)
                    /\ p = Locked => LockInv
  BY DEF AtomicsInv
<1> DEFINE zeros == [c \in 0 .. 15 |-> 0]
           regs == [k \in 0 .. 5 |-> IF k = 1 THEN 8 ELSE IF k = 2 THEN 4 ELSE 0]
           clear == [f \in 0 .. (W \div 4) - 1 |-> [lt |-> 0, gt |-> 0, eq |-> 0, so |-> 0]]
<1>1. PICK s \in Starts :
            /\ prog = s.prog
            /\ mem \in s.mem
            /\ r \in s.r
            /\ pc = [u \in Threads |-> 1]
            /\ \E so \in s.so, ca \in s.ca : xer = [u \in Threads |-> [so |-> so, ca |-> ca]]
            /\ cr = [u \in Threads |-> clear]
            /\ reserved = [u \in Threads |-> 0]
            /\ buffer = [u \in Threads |-> <<>>]
  BY DEF Init
<1>2. s = Both(p) BY <1>1, StartsAssumption
<1>3. /\ prog = [u \in Threads |-> p]
      /\ r = [u \in Threads |-> regs]
      /\ mem = zeros
      /\ xer = [u \in Threads |-> [so |-> 0, ca |-> 0]]
  BY <1>1, <1>2 DEF Both
<1>4. Alike(p) BY <1>3 DEF Alike
<1>5. Typed
  <2>1. regs \in [0 .. 5 -> Nat] /\ regs[1] = 8 /\ regs[2] = 4 OBVIOUS
  <2>2. clear \in [0 .. (W \div 4) - 1 -> CRField] BY DEF CRField
  <2>3. zeros \in Bytes
    <3>1. Byte \in Nat \ {0} BY Places
    <3>. QED BY <3>1 DEF Bytes
  <2>. HIDE DEF regs, clear, zeros
  <2>. QED BY <1>1, <1>3, <2>1, <2>2, <2>3 DEF Typed
<1>6. Placed /\ \A u \in Threads : pc[u] = 1 /\ buffer[u] = <<>>
  BY <1>1 DEF Placed
<1>7. Number(mem, 8, 4) = 0 /\ Number(mem, 12, 4) = 0 /\ Number(mem, 4, 8) = 0
  <2>1. 8 + 4 <= 16 /\ 12 + 4 <= 16 /\ 4 + 8 <= 16 OBVIOUS
  <2>. QED BY <1>3, <2>1, NumberOfNothing
<1>8. \A M \in Nat \ {0} : Cardinality({}) % M = 0 BY FS_EmptySet
<1>9. Word \in Nat \ {0} /\ Place(4) \in Nat \ {0} /\ Place(8) \in Nat \ {0}
  BY Widths, Places
<1>10. ASSUME NEW n \in {4, 8}, NEW a, Number(mem, a, n) = 0
       PROVE  CountInv(n, a)
  <2>1. \A u \in Threads : Counting(u, n) /\ ~Counted(u)
    BY <1>6 DEF Counting, Counted
  <2>2. {u \in Threads : Counted(u)} = {} BY <2>1
  <2>3. Cardinality({u \in Threads : Counted(u)}) % Place(n) = 0
    BY <1>8, <1>9, <2>2
  <2>. QED BY <1>5, <1>6, <1>10, <2>1, <2>3 DEF CountInv
<1>11. LockInv
  <2>1. \A u \in Threads : Locking(u) /\ Pending(u) /\ ~Owner(u) /\ ~Stored(u)
    BY <1>6 DEF Locking, Pending, Owner, Stored
  <2>2. {u \in Threads : Stored(u)} = {} BY <2>1
  <2>3. Number(mem, 12, 4) = Cardinality({u \in Threads : Stored(u)}) % Word
    BY <1>7, <1>8, <1>9, <2>2
  <2>4. Number(mem, 8, 4) = Bit(\E u \in Threads : Owner(u))
    BY <1>7, <2>1 DEF Bit
  <2>. QED BY <1>5, <1>6, <2>1, <2>3, <2>4 DEF LockInv
<1>. QED BY <1>4, <1>7, <1>10, <1>11

LEMMA LockKept ==
  ASSUME LockInv, Alike(Locked), NEW t \in Threads, Step(t) \/ Drain(t)
  PROVE  LockInv' /\ Alike(Locked)'
<1>1. pc[t] \in Nat BY DEF LockInv, Placed
<1>2. pc[t] <= 4 \/ pc[t] = 5 \/ pc[t] >= 6 BY <1>1
<1>. QED
  BY <1>2, ThreadsAssumption, LockApproached, LockTaken, LockHeld, LockDrained

\* A thread that only counts has no store under way.
LEMMA CountKeeps ==
  ASSUME NEW p, NEW n, NEW a, Increments(p, n, a), Alike(p), CountInv(n, a),
         NEW t \in Threads, Step(t) \/ Drain(t)
  PROVE  CountInv(n, a)' /\ Alike(p)'
<1>1. ~Drain(t) BY DoDrain DEF CountInv, Counting
<1>. QED BY <1>1, ThreadsAssumption, CountKept

LEMMA AtomicsStutter == AtomicsInv /\ UNCHANGED vars => AtomicsInv'
<1> SUFFICES ASSUME AtomicsInv, UNCHANGED vars PROVE AtomicsInv'
  OBVIOUS
<1>1. UNCHANGED <<prog, pc, r, xer, cr, reserved, buffer, mem>>
  BY DEF vars, state, memory
<1>2. (Typed' <=> Typed) /\ (Placed' <=> Placed) /\ \A p : Alike(p)' <=> Alike(p)
  BY <1>1 DEF Typed, Placed, Alike
<1>3. \A u \in Threads : /\ \A n : Counting(u, n)' <=> Counting(u, n)
                         /\ Counted(u)' <=> Counted(u)
  BY <1>1 DEF Counting, Counted, Succeeded, Read
<1>4. \A u \in Threads : /\ Locking(u)' <=> Locking(u)
                         /\ Pending(u)' <=> Pending(u)
                         /\ Owner(u)' <=> Owner(u)
                         /\ Stored(u)' <=> Stored(u)
  BY <1>1 DEF Locking, Pending, Owner, Stored, Succeeded, Read, StoreOf, Incremented, Number,
    Raw
<1>5. \A n, a : CountInv(n, a)' <=> CountInv(n, a)
  <2>1. {u \in Threads : Counted(u)'} = {u \in Threads : Counted(u)} BY <1>3
  <2>. QED BY <1>1, <1>2, <1>3, <2>1 DEF CountInv
<1>6. LockInv' <=> LockInv
  <2>1. {u \in Threads : Stored(u)'} = {u \in Threads : Stored(u)} BY <1>4
  <2>2. (\E u \in Threads : Owner(u)') <=> (\E u \in Threads : Owner(u)) BY <1>4
  <2>. QED BY <1>1, <1>2, <1>4, <2>1, <2>2 DEF LockInv, Bit
<1>. QED BY <1>1, <1>2, <1>5, <1>6 DEF AtomicsInv

LEMMA AtomicsStep ==
  ASSUME AtomicsInv, NEW t \in Threads, Step(t) \/ Drain(t)
  PROVE  AtomicsInv'
<1>1. prog' = prog BY ProgramKept
<1> SUFFICES ASSUME NEW u \in Threads
             PROVE  /\ prog[u] = Increment => Alike(Increment)' /\ CountInv(4, 8)'
                    /\ prog[u] = IncrementDouble => Alike(IncrementDouble)' /\ CountInv(8, 4)'
                    /\ prog[u] = Locked => Alike(Locked)' /\ LockInv'
  BY <1>1 DEF AtomicsInv
<1>2. CASE prog[u] = Increment
  <2>1. Increments(Increment, 4, 8) /\ Alike(Increment) /\ CountInv(4, 8)
    BY <1>2 DEF Increments, AtomicsInv
  <2>2. Alike(Increment)' /\ CountInv(4, 8)' BY <2>1, CountKeeps
  <2>. QED BY <1>2, <2>2 DEF Increment, IncrementDouble, Locked, R, I, Insn
<1>3. CASE prog[u] = IncrementDouble
  <2>1. Increments(IncrementDouble, 8, 4) /\ Alike(IncrementDouble) /\ CountInv(8, 4)
    BY <1>3 DEF Increments, AtomicsInv
  <2>2. Alike(IncrementDouble)' /\ CountInv(8, 4)' BY <2>1, CountKeeps
  <2>. QED BY <1>3, <2>2 DEF Increment, IncrementDouble, Locked, R, I, Insn
<1>4. CASE prog[u] = Locked
  <2>1. Alike(Locked) /\ LockInv BY <1>4 DEF AtomicsInv
  <2>2. Alike(Locked)' /\ LockInv' BY <2>1, LockKept
  <2>. QED BY <1>4, <2>2 DEF Increment, IncrementDouble, Locked, R, I, Insn
<1>. QED BY <1>2, <1>3, <1>4

\* AtomicsInv is an invariant, whatever the width of a word and however many
\* threads there are: counters have been incremented by the threads that have
\* done so, a lock has at most one owner.
THEOREM AtomicsHold == MCSpec => []AtomicsInv
<1>1. MCInit => AtomicsInv BY AtomicsStart DEF MCInit
<1>2. AtomicsInv /\ [MCNext]_<<vars, held>> => AtomicsInv'
  <2> SUFFICES ASSUME AtomicsInv, [MCNext]_<<vars, held>>
               PROVE  AtomicsInv'
    OBVIOUS
  <2>1. CASE MCNext BY <2>1, AtomicsStep DEF MCNext
  <2>2. CASE UNCHANGED <<vars, held>> BY <2>2, AtomicsStutter
  <2>. QED BY <2>1, <2>2
<1>. QED BY <1>1, <1>2, PTL DEF MCSpec

\* Of any number of threads that take the lock with lwarx and stwcx., only one
\* is between taking it and giving it back, although the host may perform the
\* store that gives it back, and the store it guards, late.
THEOREM LockExcludes == MCSpec => []MutualExclusion
<1>1. AtomicsInv => MutualExclusion
  <2> SUFFICES ASSUME AtomicsInv, NEW t \in Threads, NEW u \in Threads, Critical(t), Critical(u)
               PROVE  t = u
    BY DEF MutualExclusion
  <2>1. LockInv BY DEF AtomicsInv, Critical
  <2>2. Owner(t) /\ Owner(u) BY DEF Critical, Owner
  <2>. QED BY <2>1, <2>2 DEF LockInv
<1>. QED BY <1>1, AtomicsHold, PTL

\* When threads that each increment once have ended, the word, the doubleword or
\* what the lock guards is their number, cut to its width: none has overwritten
\* what another added between its load and its store.
THEOREM NothingLost == MCSpec => []NoLostUpdate
<1>1. AtomicsInv => NoLostUpdate
  <2> SUFFICES ASSUME AtomicsInv, Ended, NEW t \in Threads
               PROVE  /\ prog[t] = Increment => At(8, 4) = Cardinality(Threads) % Word
                      /\ prog[t] = IncrementDouble => At(4, 8) = Cardinality(Threads) % DWord
                      /\ prog[t] = Locked => At(12, 4) = Cardinality(Threads) % Word /\ At(8, 4) = 0
    BY DEF NoLostUpdate
  <2>1. \A a, n : At(a, n) = Number(mem, a, n) BY DEF At, Number
  <2>2. ASSUME NEW n, NEW a, CountInv(n, a), NEW p, Len(p) = 4, Alike(p)
        PROVE  At(a, n) = Cardinality(Threads) % Place(n)
    <3>1. \A u \in Threads : Counted(u)
      <4> SUFFICES ASSUME NEW u \in Threads PROVE Counted(u)
        OBVIOUS
      <4>1. pc[u] \in 1 .. 5 /\ pc[u] > 4
        BY <2>2 DEF CountInv, Counting, Ended, Alike
      <4>. QED BY <4>1 DEF Counted
    <3>2. {u \in Threads : Counted(u)} = Threads BY <3>1
    <3>. QED BY <2>1, <2>2, <3>2 DEF CountInv
  <2>3. CASE prog[t] = Increment
    <3>1. CountInv(4, 8) /\ Alike(Increment) /\ Len(Increment) = 4
      BY <2>3 DEF AtomicsInv, Increment
    <3>2. At(8, 4) = Cardinality(Threads) % Word BY <2>2, <3>1, Widths
    <3>. QED BY <2>3, <3>2 DEF Increment, IncrementDouble, Locked, R, I, Insn
  <2>4. CASE prog[t] = IncrementDouble
    <3>1. CountInv(8, 4) /\ Alike(IncrementDouble) /\ Len(IncrementDouble) = 4
      BY <2>4 DEF AtomicsInv, IncrementDouble
    <3>2. At(4, 8) = Cardinality(Threads) % DWord BY <2>2, <3>1, Widths
    <3>. QED BY <2>4, <3>2 DEF Increment, IncrementDouble, Locked, R, I, Insn
  <2>5. CASE prog[t] = Locked
    <3>1. LockInv /\ Alike(Locked) /\ Len(Locked) = 13
      BY <2>5, LockedIs DEF AtomicsInv
    <3>2. \A u \in Threads : pc[u] = 14 /\ buffer[u] = <<>>
      <4> SUFFICES ASSUME NEW u \in Threads PROVE pc[u] = 14 /\ buffer[u] = <<>>
        OBVIOUS
      <4>1. pc[u] \in 1 .. 14 /\ pc[u] > 13 /\ buffer[u] = <<>>
        BY <3>1 DEF LockInv, Locking, Ended, Alike
      <4>. QED BY <4>1
    <3>3. \A u \in Threads : Stored(u) /\ ~Owner(u) BY <3>2 DEF Stored, Owner
    <3>4. {u \in Threads : Stored(u)} = Threads BY <3>3
    <3>5. At(12, 4) = Cardinality(Threads) % Word /\ At(8, 4) = 0
      BY <2>1, <3>1, <3>3, <3>4 DEF LockInv, Bit
    <3>. QED BY <2>5, <3>5 DEF Increment, IncrementDouble, Locked, R, I, Insn
  <2>. QED BY <2>3, <2>4, <2>5
<1>. QED BY <1>1, AtomicsHold, PTL
-----------------------------------------------------------------------------
(* Numbers by their bits.                                                   *)

Top == 2 * W - 1
\* Bit k of x, a number of any width or sign.
On(x, k) == (x \div 2 ^ k) % 2 = 1

LEMMA Width ==
  /\ W \in Nat /\ W >= 4 /\ Top \in Nat /\ Top + 1 = 2 * W
  /\ DWord \in Nat /\ DWord >= 256 /\ Word \in Nat /\ Word >= 16
  /\ DWord = 2 ^ (Top + 1) /\ DWord = Word * Word
<1>1. W \in Nat /\ W >= 4 /\ Top \in Nat /\ Top + 1 = 2 * W
  <2>1. W \in Nat /\ W # 0 /\ W % 4 = 0 BY WAssumption
  <2>. QED BY <2>1 DEF Top
<1>2. DWord \in Nat /\ Word \in Nat /\ Word >= 16 /\ DWord = Word * Word
  BY Widths
<1>3. DWord >= 256 BY <1>2
<1>. QED BY <1>1, <1>2, <1>3 DEF DWord

\* Powers of two, one after the other.
LEMMA Doubling ==
  ASSUME NEW k \in Nat
  PROVE  2 ^ (k + 1) = 2 ^ k * 2 /\ 2 ^ k \in Nat \ {0}
<1>1. 2 ^ (k + 1) = 2 ^ k * 2 ^ 1 BY PowerSum
<1>2. 2 ^ 1 = 2 OBVIOUS
<1>3. 2 ^ k \in Nat \ {0} BY PowerPositive
<1>. QED BY <1>1, <1>2, <1>3

\* A power of two is every lower one times a power of two.
LEMMA PowerMonotone ==
  ASSUME NEW j \in Nat, NEW k \in Nat, j <= k
  PROVE  2 ^ k = 2 ^ j * 2 ^ (k - j) /\ 2 ^ j <= 2 ^ k /\ 2 ^ (k - j) \in Nat \ {0}
<1> DEFINE A == 2 ^ j
           B == 2 ^ (k - j)
<1>1. k - j \in Nat /\ j + (k - j) = k OBVIOUS
<1>2. A \in Nat \ {0} /\ B \in Nat \ {0} BY <1>1, PowerPositive
<1>3. 2 ^ (j + (k - j)) = A * B BY <1>1, PowerSum
<1>4. 2 ^ k = A * B BY <1>1, <1>3
<1> HIDE DEF A, B
<1>5. A <= A * B BY <1>2
<1>. QED BY <1>1, <1>2, <1>4, <1>5 DEF A, B

\* A number is its low bits and its bit k and what is above.
LEMMA BitByBit ==
  ASSUME NEW x \in Int, NEW k \in Nat
  PROVE  x % 2 ^ (k + 1) = (x % 2 ^ k) + (IF On(x, k) THEN 2 ^ k ELSE 0)
<1> DEFINE M == 2 ^ k
<1>1. M \in Nat \ {0} /\ 2 ^ (k + 1) = M * 2 BY Doubling
<1>2. x % (M * 2) = (x % M) + M * ((x \div M) % 2)
  <2>1. \A A, B \in Nat \ {0} : x % (A * B) = (x % A) + A * ((x \div A) % B)
    BY DivideTwice
  <2>2. 2 \in Nat \ {0} OBVIOUS
  <2> HIDE DEF M
  <2>. QED BY <1>1, <2>1, <2>2
<1>3. x \div M \in Int
  <2> HIDE DEF M
  <2>. QED BY <1>1, Remainder
<1>4. (x \div M) % 2 \in {0, 1}
  <2> HIDE DEF M
  <2>. QED BY <1>3
<1>5. On(x, k) <=> (x \div M) % 2 = 1 BY DEF On
<1> HIDE DEF M
<1>6. x % M \in Int BY <1>1, Remainder
<1>7. CASE On(x, k) BY <1>1, <1>2, <1>5, <1>6, <1>7 DEF M
<1>8. CASE ~On(x, k)
  <2>1. (x \div M) % 2 = 0 BY <1>4, <1>5, <1>8
  <2>2. M * 0 = 0 BY <1>1
  <2>. QED BY <1>1, <1>2, <1>6, <1>8, <2>1, <2>2 DEF M
<1>. QED BY <1>7, <1>8

\* The bits below n say what a number is modulo 2 ^ n.
LEMMA SameLow ==
  ASSUME NEW x \in Int, NEW y \in Int, NEW n \in Nat,
         \A k \in 0 .. n - 1 : On(x, k) <=> On(y, k)
  PROVE  x % 2 ^ n = y % 2 ^ n
<1> DEFINE S == {j \in Nat : j <= n => x % 2 ^ j = y % 2 ^ j}
<1>1. 0 \in S
  <2>1. 2 ^ 0 = 1 OBVIOUS
  <2>2. x % 1 = 0 /\ y % 1 = 0 OBVIOUS
  <2>. QED BY <2>1, <2>2
<1>2. \A j \in Nat : j \in S => j + 1 \in S
  <2> SUFFICES ASSUME NEW j \in Nat, j \in S, j + 1 <= n
               PROVE  x % 2 ^ (j + 1) = y % 2 ^ (j + 1)
    OBVIOUS
  <2>1. x % 2 ^ j = y % 2 ^ j OBVIOUS
  <2>2. On(x, j) <=> On(y, j) OBVIOUS
  <2>3. /\ x % 2 ^ (j + 1) = (x % 2 ^ j) + (IF On(x, j) THEN 2 ^ j ELSE 0)
        /\ y % 2 ^ (j + 1) = (y % 2 ^ j) + (IF On(y, j) THEN 2 ^ j ELSE 0)
    BY BitByBit
  <2>. QED BY <2>1, <2>2, <2>3
<1> HIDE DEF S
<1>3. n \in S BY <1>1, <1>2, Induction
<1>. QED BY <1>3 DEF S

Register == 0 .. DWord - 1

\* The model's BitsOf, by On.
LEMMA BitsAre ==
  ASSUME NEW x \in Register
  PROVE  BitsOf[x] = {k \in 0 .. Top : On(x, k)} /\ BitsOf[x] \in SUBSET (0 .. Top)
BY DEF BitsOf, Register, Top, On

\* A number cut to a register.
LEMMA InRegister ==
  ASSUME NEW x \in Int
  PROVE  x % DWord \in Register /\ (x \in Register => x % DWord = x)
BY Width, Remainder DEF Register

\* Numbers of a register with the same bits are the same.
LEMMA SameBits ==
  ASSUME NEW x \in Register, NEW y \in Register, BitsOf[x] = BitsOf[y]
  PROVE  x = y
<1>1. x \in Int /\ y \in Int BY DEF Register
<1> DEFINE n == Top + 1
<1>2. \A k \in 0 .. n - 1 : On(x, k) <=> On(y, k) BY BitsAre, Width
<1>3. n \in Nat /\ DWord = 2 ^ n BY Width
<1> HIDE DEF n
<1>4. x % 2 ^ n = y % 2 ^ n BY <1>1, <1>2, <1>3, SameLow
<1>5. x % DWord = y % DWord BY <1>3, <1>4
<1>. QED BY <1>1, <1>5, InRegister

\* Every set of positions is that of a register's ones.
LEMMA EveryBits ==
  ASSUME NEW S \in SUBSET (0 .. Top)
  PROVE  \E x \in Register : BitsOf[x] = S
<1> DEFINE T == SUBSET (0 .. Top)
<1>1. BitsOf \in [Register -> T]
  <2>1. DOMAIN BitsOf = Register /\ BitsOf = [x \in Register |-> BitsOf[x]]
    BY DEF BitsOf, Register
  <2>. QED BY <2>1, BitsAre
<1>2. \A x, y \in Register : BitsOf[x] = BitsOf[y] => x = y BY SameBits
<1>3. BitsOf \in Injection(Register, T) BY <1>1, <1>2 DEF Injection, IsInjective
<1>4. IsFiniteSet(0 .. Top) /\ Cardinality(0 .. Top) = Top + 1
  <2>1. 0 \in Int /\ Top \in Int /\ Top >= 0 BY Width
  <2>2. IsFiniteSet(0 .. Top) /\ Cardinality(0 .. Top) = IF 0 > Top THEN 0 ELSE Top - 0 + 1
    BY <2>1, FS_Interval
  <2>. QED BY <2>1, <2>2
<1>5. IsFiniteSet(T) /\ Cardinality(T) = DWord BY <1>4, FS_SUBSET, Width
<1>6. Cardinality(Register) = DWord
  <2>1. 0 \in Int /\ DWord - 1 \in Int /\ DWord - 1 >= 0 /\ DWord - 1 - 0 + 1 = DWord
    BY Width
  <2>2. Cardinality(0 .. DWord - 1) = IF 0 > DWord - 1 THEN 0 ELSE DWord - 1 - 0 + 1
    BY <2>1, FS_Interval
  <2>. QED BY <2>1, <2>2 DEF Register
<1> HIDE DEF T
<1>7. BitsOf \in Surjection(Register, T) BY <1>3, <1>5, <1>6, FS_Injection
<1>8. S \in T BY DEF T
<1>. QED BY <1>7, <1>8 DEF Surjection

\* NumberOf and BitsOf are each other's inverse.
LEMMA Numbers ==
  /\ \A x \in Register : NumberOf[BitsOf[x]] = x
  /\ \A S \in SUBSET (0 .. Top) : NumberOf[S] \in Register /\ BitsOf[NumberOf[S]] = S
<1>1. ASSUME NEW S \in SUBSET (0 .. Top)
      PROVE  NumberOf[S] \in Register /\ BitsOf[NumberOf[S]] = S
  <2>1. NumberOf[S] = CHOOSE x \in Register : BitsOf[x] = S
    BY DEF NumberOf, Register, Top
  <2>2. \E x \in Register : BitsOf[x] = S BY EveryBits
  <2>. QED BY <2>1, <2>2
<1>2. ASSUME NEW x \in Register
      PROVE  NumberOf[BitsOf[x]] = x
  BY <1>1, BitsAre, SameBits
<1>. QED BY <1>1, <1>2

\* How a number is shown to be that of a set of positions.
LEMMA IsNumberOf ==
  ASSUME NEW x \in Register, NEW S \in SUBSET (0 .. Top),
         \A k \in 0 .. Top : On(x, k) <=> k \in S
  PROVE  x = NumberOf[S]
<1>1. BitsOf[x] = S BY BitsAre
<1>. QED BY <1>1, Numbers

\* The number with the bits for which P holds.
LEMMA NumberOn ==
  ASSUME NEW S \in SUBSET (0 .. Top)
  PROVE  NumberOf[S] \in Register /\ \A k \in 0 .. Top : On(NumberOf[S], k) <=> k \in S
BY Numbers, BitsAre

-----------------------------------------------------------------------------
(* The bits of what arithmetic makes.                                       *)

\* High bits c and low bits e.
LEMMA OnJoined ==
  ASSUME NEW n \in Nat, NEW c \in Int, NEW e \in 0 .. 2 ^ n - 1, NEW k \in Nat
  PROVE  On(c * 2 ^ n + e, k) <=> (IF k < n THEN On(e, k) ELSE On(c, k - n))
<1> DEFINE x == c * 2 ^ n + e
<1>1. 2 ^ n \in Nat \ {0} /\ 2 ^ k \in Nat \ {0} BY PowerPositive
<1>2. x \in Int /\ e \in Int
  <2> DEFINE M == 2 ^ n
  <2>1. M \in Nat BY <1>1
  <2> HIDE DEF M
  <2>2. c * M \in Int /\ 0 .. M - 1 \subseteq Int BY <2>1
  <2>. QED BY <2>2 DEF M
<1>3. CASE k < n
  <2> DEFINE A == 2 ^ k
             B == 2 ^ (n - k - 1)
  <2>1. n - k - 1 \in Nat /\ k + 1 \in Nat /\ k + 1 <= n /\ n - (k + 1) = n - k - 1
    BY <1>3
  <2>2. 2 ^ (k + 1) = A * 2 /\ A \in Nat \ {0} BY Doubling
  <2>3. 2 ^ n = 2 ^ (k + 1) * 2 ^ (n - (k + 1)) /\ 2 ^ (n - (k + 1)) \in Nat \ {0}
    BY <2>1, PowerMonotone
  <2>4. 2 ^ n = A * 2 * B /\ B \in Nat \ {0} BY <2>1, <2>2, <2>3
  <2> DEFINE q == e \div A
             f == e % A
  <2>5. q \in Int /\ f \in 0 .. A - 1 /\ e = q * A + f
    <3> HIDE DEF A
    <3>. QED BY <1>2, <2>2, Remainder
  <2>6. x = (c * (2 * B) + q) * A + f
    <3>1. c * (A * 2 * B) = c * (2 * B) * A
      <4> HIDE DEF A, B
      <4>. QED BY <2>2, <2>4
    <3>2. (c * (2 * B) + q) * A = c * (2 * B) * A + q * A
      <4>1. c * (2 * B) \in Int
        <5> HIDE DEF B
        <5>. QED BY <2>4
      <4>2. \A u \in Int : (u + q) * A = u * A + q * A
        <5> HIDE DEF A, q
        <5>. QED BY <2>2, <2>5
      <4> HIDE DEF A, B, q
      <4>. QED BY <4>1, <4>2
    <3>3. c * (2 * B) * A \in Int /\ q * A \in Int
      <4> HIDE DEF A, B, q
      <4>. QED BY <2>2, <2>4, <2>5
    <3> HIDE DEF A, B, q, f
    <3>. QED BY <2>4, <2>5, <3>1, <3>2, <3>3
  <2>7. c * (2 * B) + q \in Int
    <3> HIDE DEF B, q
    <3>. QED BY <2>4, <2>5
  <2>8. x \div A = c * (2 * B) + q
    <3>1. \A M \in Nat \ {0} : \A u \in Int : \A v \in 0 .. M - 1 : (u * M + v) \div M = u
      BY Division
    <3> HIDE DEF A, B, q, f, x
    <3>. QED BY <2>2, <2>5, <2>6, <2>7, <3>1
  <2>9. (c * (2 * B) + q) % 2 = q % 2
    <3>1. c * B \in Int /\ c * (2 * B) = 2 * (c * B)
      <4> HIDE DEF B
      <4>. QED BY <2>4
    <3>2. \A u \in Int : (2 * u + q) % 2 = q % 2
      <4> HIDE DEF q
      <4>. QED BY <2>5
    <3> HIDE DEF B, q
    <3>. QED BY <3>1, <3>2
  <2>10. On(x, k) <=> On(e, k)
    <3>1. On(x, k) <=> (x \div A) % 2 = 1 BY DEF On
    <3>2. On(e, k) <=> q % 2 = 1 BY DEF On
    <3> HIDE DEF A, B, q, x
    <3>. QED BY <2>8, <2>9, <3>1, <3>2
  <2>. QED BY <1>3, <2>10
<1>4. CASE k >= n
  <2> DEFINE A == 2 ^ n
             B == 2 ^ (k - n)
  <2>1. k - n \in Nat BY <1>4
  <2>2. 2 ^ k = A * B /\ B \in Nat \ {0} /\ A \in Nat \ {0}
    BY <1>1, <1>4, PowerMonotone
  <2>3. x \div A = c
    <3>1. \A M \in Nat \ {0} : \A u \in Int : \A v \in 0 .. M - 1 : (u * M + v) \div M = u
      BY Division
    <3> HIDE DEF A
    <3>. QED BY <2>2, <3>1 DEF A
  <2>4. (x \div A) \div B = x \div (A * B)
    <3> HIDE DEF A, B, x
    <3>. QED BY <1>2, <2>2, DivideTwice
  <2>5. x \div 2 ^ k = c \div B BY <2>2, <2>3, <2>4
  <2>6. On(x, k) <=> On(c, k - n) BY <2>5 DEF On
  <2>7. ~(k < n) BY <1>4
  <2>. QED BY <2>6, <2>7
<1>. QED BY <1>3, <1>4

LEMMA OnZero ==
  ASSUME NEW k \in Nat
  PROVE  ~On(0, k) /\ On(-1, k)
<1> DEFINE P == 2 ^ k
<1>1. P \in Nat \ {0} BY PowerPositive
<1>2. \A M \in Nat \ {0} : \A u \in Int : \A v \in 0 .. M - 1 : (u * M + v) \div M = u
  BY Division
<1>3. 0 \div P = 0 /\ (-1) \div P = -1
  <2> HIDE DEF P
  <2>1. 0 * P + 0 = 0 /\ (-1) * P + (P - 1) = -1 /\ 0 \in 0 .. P - 1 /\ P - 1 \in 0 .. P - 1
    BY <1>1
  <2>2. 0 \in Int /\ -1 \in Int OBVIOUS
  <2>3. (0 * P + 0) \div P = 0 BY <1>1, <1>2, <2>1, <2>2
  <2>4. ((-1) * P + (P - 1)) \div P = -1 BY <1>1, <1>2, <2>1, <2>2
  <2>5. 0 \div P = 0 BY <2>1, <2>3, Zenon
  <2>6. (-1) \div P = -1 BY <2>1, <2>4, Zenon
  <2>. QED BY <2>5, <2>6
<1>4. 0 % 2 = 0 /\ (-1) % 2 = 1
  <2>1. \A M \in Nat \ {0} : \A u \in Int : \A v \in 0 .. M - 1 : (u * M + v) % M = v
    BY Division
  <2>2. 2 \in Nat \ {0} /\ -1 \in Int /\ 1 \in 0 .. 2 - 1 /\ (-1) * 2 + 1 = -1
    OBVIOUS
  <2>3. ((-1) * 2 + 1) % 2 = 1 BY <2>1, <2>2, Zenon
  <2>4. (-1) % 2 = 1 BY <2>2, <2>3, Zenon
  <2>5. 0 % 2 = 0 OBVIOUS
  <2>. QED BY <2>4, <2>5
<1> HIDE DEF P
<1>5. (0 \div P) % 2 = 0 /\ ((-1) \div P) % 2 = 1 BY <1>3, <1>4
<1>. QED BY <1>5 DEF On, P

\* Bits of a number cut to n of them.
LEMMA OnLow ==
  ASSUME NEW x \in Int, NEW n \in Nat, NEW k \in Nat
  PROVE  On(x % 2 ^ n, k) <=> k < n /\ On(x, k)
<1> DEFINE M == 2 ^ n
<1>1. M \in Nat \ {0} BY PowerPositive
<1>2. x \div M \in Int /\ x % M \in 0 .. M - 1 /\ x = (x \div M) * M + (x % M)
  <2> HIDE DEF M
  <2>. QED BY <1>1, Remainder
<1>3. On((x \div M) * M + (x % M), k) <=> (IF k < n THEN On(x % M, k) ELSE On(x \div M, k - n))
  BY <1>2, OnJoined
<1>4. On(0 * M + (x % M), k) <=> (IF k < n THEN On(x % M, k) ELSE On(0, k - n))
  <2>1. 0 \in Int OBVIOUS
  <2>. QED BY <1>2, <2>1, OnJoined
<1>5. 0 * M + (x % M) = x % M
  <2> HIDE DEF M
  <2>. QED BY <1>1, <1>2
<1>6. ~(k < n) => ~On(0, k - n)
  <2>1. ~(k < n) => k - n \in Nat OBVIOUS
  <2>. QED BY <2>1, OnZero
<1> HIDE DEF M
<1>7. On(x, k) <=> (IF k < n THEN On(x % M, k) ELSE On(x \div M, k - n))
  BY <1>2, <1>3
<1>8. On(x % M, k) <=> (IF k < n THEN On(x % M, k) ELSE On(0, k - n))
  BY <1>4, <1>5
<1>9. On(x % M, k) <=> k < n /\ On(x, k) BY <1>6, <1>7, <1>8
<1>. QED BY <1>9 DEF M

LEMMA OnSmall ==
  ASSUME NEW n \in Nat, NEW x \in 0 .. 2 ^ n - 1, NEW k \in Nat, k >= n
  PROVE  ~On(x, k)
<1> DEFINE M == 2 ^ n
<1>1. M \in Nat \ {0} BY PowerPositive
<1>2. x \in Int /\ x % M = x
  <2>1. x \in 0 .. M - 1 OBVIOUS
  <2> HIDE DEF M
  <2>. QED BY <1>1, <2>1
<1>3. On(x % M, k) <=> k < n /\ On(x, k) BY <1>2, OnLow
<1>4. ~(k < n) OBVIOUS
<1> HIDE DEF M
<1>. QED BY <1>2, <1>3, <1>4

\* Bits of a number without its n low ones.
LEMMA OnHigh ==
  ASSUME NEW x \in Int, NEW n \in Nat, NEW k \in Nat
  PROVE  On(x \div 2 ^ n, k) <=> On(x, n + k)
<1> DEFINE A == 2 ^ n
           B == 2 ^ k
<1>1. A \in Nat \ {0} /\ B \in Nat \ {0} /\ 2 ^ (n + k) = A * B
  BY PowerPositive, PowerSum
<1>2. (x \div A) \div B = x \div (A * B)
  <2> HIDE DEF A, B
  <2>. QED BY <1>1, DivideTwice
<1>3. On(x, n + k) <=> (x \div 2 ^ (n + k)) % 2 = 1 BY DEF On
<1>4. On(x \div A, k) <=> ((x \div A) \div B) % 2 = 1 BY DEF On
<1>. QED BY <1>1, <1>2, <1>3, <1>4

\* Bits of a number moved up by n.
LEMMA OnRaised ==
  ASSUME NEW x \in Int, NEW n \in Nat, NEW k \in Nat
  PROVE  On(x * 2 ^ n, k) <=> k >= n /\ On(x, k - n)
<1> DEFINE M == 2 ^ n
<1>1. M \in Nat \ {0} BY PowerPositive
<1>2. 0 \in 0 .. M - 1
  <2> HIDE DEF M
  <2>. QED BY <1>1
<1>3. On(x * M + 0, k) <=> (IF k < n THEN On(0, k) ELSE On(x, k - n))
  BY <1>2, OnJoined
<1>4. x * M + 0 = x * M
  <2> HIDE DEF M
  <2>. QED BY <1>1
<1>5. ~On(0, k) BY OnZero
<1>6. k < n <=> ~(k >= n) OBVIOUS
<1> HIDE DEF M
<1>7. On(x * M, k) <=> (IF k < n THEN On(0, k) ELSE On(x, k - n)) BY <1>3, <1>4
<1>8. On(x * M, k) <=> k >= n /\ On(x, k - n) BY <1>5, <1>6, <1>7
<1>. QED BY <1>8 DEF M

\* The number with the n low bits set.
LEMMA OnOnes ==
  ASSUME NEW n \in Nat, NEW k \in Nat
  PROVE  On(2 ^ n - 1, k) <=> k < n
<1> DEFINE M == 2 ^ n
<1>1. M \in Nat \ {0} BY PowerPositive
<1>2. (-1) % M = M - 1
  <2>1. \A N \in Nat \ {0} : \A u \in Int : \A v \in 0 .. N - 1 : (u * N + v) % N = v
    BY Division
  <2> HIDE DEF M
  <2>2. (-1) * M + (M - 1) = -1 /\ M - 1 \in 0 .. M - 1 /\ -1 \in Int BY <1>1
  <2>. QED BY <1>1, <2>1, <2>2
<1>3. On((-1) % M, k) <=> k < n /\ On(-1, k)
  <2>1. -1 \in Int OBVIOUS
  <2>. QED BY <2>1, OnLow
<1>. QED BY <1>2, <1>3, OnZero

\* The bits of -1 - x are those x has not.
LEMMA OnFlipped ==
  ASSUME NEW x \in Int, NEW k \in Nat
  PROVE  On(-1 - x, k) <=> ~On(x, k)
<1> DEFINE P == 2 ^ k
           q == x \div P
           e == x % P
<1>1. P \in Nat \ {0} BY PowerPositive
<1>2. q \in Int /\ e \in 0 .. P - 1 /\ x = q * P + e
  <2> HIDE DEF P
  <2>. QED BY <1>1, Remainder
<1>3. -1 - x = (-1 - q) * P + (P - 1 - e) /\ P - 1 - e \in 0 .. P - 1
  <2>1. (-1 - q) * P = -P - q * P
    <3> HIDE DEF P, q
    <3>. QED BY <1>1, <1>2
  <2>2. q * P \in Int
    <3> HIDE DEF P, q
    <3>. QED BY <1>1, <1>2
  <2> HIDE DEF P, q, e
  <2>. QED BY <1>1, <1>2, <2>1, <2>2
<1>4. (-1 - x) \div P = -1 - q
  <2>1. \A M \in Nat \ {0} : \A u \in Int : \A v \in 0 .. M - 1 : (u * M + v) \div M = u
    BY Division
  <2>2. -1 - q \in Int
    <3> HIDE DEF q
    <3>. QED BY <1>2
  <2> HIDE DEF P, q, e
  <2>. QED BY <1>1, <1>3, <2>1, <2>2
<1>5. (-1 - q) % 2 = 1 <=> ~(q % 2 = 1)
  <2> HIDE DEF q
  <2>. QED BY <1>2
<1>6. On(x, k) <=> q % 2 = 1 BY DEF On
<1>7. On(-1 - x, k) <=> ((-1 - x) \div P) % 2 = 1 BY DEF On
<1> HIDE DEF P, q, e
<1>. QED BY <1>4, <1>5, <1>6, <1>7

\* A complement has the bits the number has not.
LEMMA OnNot ==
  ASSUME NEW x \in Register
  PROVE  Not(x) \in Register /\ \A k \in 0 .. Top : On(Not(x), k) <=> ~On(x, k)
<1>1. DWord \in Nat /\ DWord >= 256 /\ x \in Int /\ x \in 0 .. DWord - 1
  BY Width DEF Register
<1>2. Not(x) \in Register /\ Not(x) \in Int BY <1>1 DEF Not, Register
<1>3. (-1 - x) % DWord = Not(x)
  <2>1. \A M \in Nat \ {0} : \A u \in Int : \A v \in 0 .. M - 1 : (u * M + v) % M = v
    BY Division
  <2>2. (-1) * DWord + Not(x) = -1 - x /\ Not(x) \in 0 .. DWord - 1 /\ DWord \in Nat \ {0} /\ -1 \in Int
    BY <1>1 DEF Not
  <2>. QED BY <2>1, <2>2
<1>4. ASSUME NEW k \in 0 .. Top
      PROVE  On(Not(x), k) <=> ~On(x, k)
  <2>1. -1 - x \in Int /\ Top + 1 \in Nat /\ k \in Nat /\ k < Top + 1 /\ DWord = 2 ^ (Top + 1)
    BY <1>1, Width
  <2>2. On((-1 - x) % DWord, k) <=> k < Top + 1 /\ On(-1 - x, k) BY <2>1, OnLow
  <2>3. On(-1 - x, k) <=> ~On(x, k) BY <1>1, <2>1, OnFlipped
  <2>. QED BY <1>3, <2>1, <2>2, <2>3
<1>. QED BY <1>2, <1>4

-----------------------------------------------------------------------------
(* The console's registers: position p is bit Top - p.                      *)

\* Words of the console are those of the host.
LEMMA GuestWords ==
  /\ Guest!Word = Word /\ Guest!DWord = DWord /\ Guest!Byte = Byte /\ Guest!Last = Top
  /\ Guest!BitsOf = BitsOf /\ Guest!NumberOf = NumberOf
  /\ \A n, x : Guest!Low(n, x) = Low(n, x) /\ Guest!Signed(n, x) = Signed(n, x)
  /\ \A x : Guest!Not(x) = Not(x)
  /\ \A x, k : Guest!ByteOf(x, k) = ByteOf(x, k)
  /\ \A n, b : Guest!FromBytes(n, b) = FromBytes(n, b)
  /\ \A f, g : Guest!Over(f, g) = Over(f, g)
  /\ Guest!Bit(TRUE) = 1 /\ Guest!Bit(FALSE) = 0 /\ Bit(TRUE) = 1 /\ Bit(FALSE) = 0
<1>1. Guest!Word = Word /\ Guest!DWord = DWord /\ Guest!Byte = Byte /\ Guest!Last = Top
  BY DEF Guest!Word, Word, Guest!DWord, DWord, Guest!Byte, Byte, Guest!Last, Top
<1>2. Guest!BitsOf = BitsOf BY <1>1 DEF Guest!BitsOf, BitsOf
<1>3. Guest!NumberOf = NumberOf BY <1>1, <1>2 DEF Guest!NumberOf, NumberOf
<1>4. \A n, x : Guest!Low(n, x) = Low(n, x) BY DEF Guest!Low, Low
<1>5. \A n, x : Guest!Signed(n, x) = Signed(n, x)
  BY <1>4 DEF Guest!Signed, Signed
<1>6. \A x : Guest!Not(x) = Not(x) BY <1>1 DEF Guest!Not, Not
<1>7. \A x, k : Guest!ByteOf(x, k) = ByteOf(x, k)
  BY <1>1 DEF Guest!ByteOf, ByteOf
<1>8. \A n, b : Guest!FromBytes(n, b) = FromBytes(n, b)
  BY <1>1 DEF Guest!FromBytes, FromBytes
<1>9. \A f, g : Guest!Over(f, g) = Over(f, g) BY DEF Guest!Over, Over
<1>10. Guest!Bit(TRUE) = 1 /\ Guest!Bit(FALSE) = 0 /\ Bit(TRUE) = 1 /\ Bit(FALSE) = 0
  BY DEF Guest!Bit, Bit
<1>. QED BY <1>1, <1>2, <1>3, <1>4, <1>5, <1>6, <1>7, <1>8, <1>9, <1>10

\* Position p of the console's register is bit Top - p.
LEMMA HasIs ==
  ASSUME NEW x \in Register
  PROVE  /\ Guest!Has(x) \in SUBSET (0 .. Top)
         /\ \A p \in 0 .. Top : p \in Guest!Has(x) <=> On(x, Top - p)
<1>1. Guest!Has(x) = {Top - k : k \in BitsOf[x]} BY GuestWords DEF Guest!Has
<1>2. BitsOf[x] = {k \in 0 .. Top : On(x, k)} BY BitsAre
<1>3. Guest!Has(x) \in SUBSET (0 .. Top) BY <1>1, <1>2, Width
<1>4. ASSUME NEW p \in 0 .. Top
      PROVE  p \in Guest!Has(x) <=> On(x, Top - p)
  <2>1. Top - p \in 0 .. Top /\ Top - (Top - p) = p BY Width
  <2>2. On(x, Top - p) => p \in Guest!Has(x) BY <1>1, <1>2, <2>1
  <2>3. ASSUME p \in Guest!Has(x) PROVE On(x, Top - p)
    <3>1. PICK k \in 0 .. Top : On(x, k) /\ p = Top - k BY <1>1, <1>2, <2>3
    <3>2. k = Top - p BY <3>1, Width
    <3>. QED BY <3>1, <3>2
  <2>. QED BY <2>2, <2>3
<1>. QED BY <1>3, <1>4

\* How a register is shown to be that with ones in given positions.
LEMMA IsOf ==
  ASSUME NEW x \in Register, NEW S \in SUBSET (0 .. Top),
         \A k \in 0 .. Top : On(x, k) <=> Top - k \in S
  PROVE  Guest!Of(S) = x
<1> DEFINE T == {Top - p : p \in S}
<1>1. T \in SUBSET (0 .. Top) BY Width
<1>2. ASSUME NEW k \in 0 .. Top
      PROVE  On(x, k) <=> k \in T
  <2>1. On(x, k) => k \in T
    <3>1. Top - (Top - k) = k BY Width
    <3>. QED BY <3>1
  <2>2. ASSUME k \in T PROVE On(x, k)
    <3>1. PICK p \in S : k = Top - p BY <2>2
    <3>2. p = Top - k BY <3>1, Width
    <3>. QED BY <3>1, <3>2
  <2>. QED BY <2>1, <2>2
<1> HIDE DEF T
<1>3. x = NumberOf[T] BY <1>1, <1>2, IsNumberOf
<1>4. Guest!Of(S) = NumberOf[T] BY GuestWords DEF Guest!Of, T
<1>. QED BY <1>3, <1>4

-----------------------------------------------------------------------------
(* Logical instructions.                                                    *)

\* and, or, xor and not, bit by bit.
LEMMA BitOperations ==
  ASSUME NEW x \in Register, NEW y \in Register
  PROVE  /\ And(x, y) \in Register /\ Or(x, y) \in Register /\ Xor(x, y) \in Register
         /\ \A k \in 0 .. Top : /\ On(And(x, y), k) <=> On(x, k) /\ On(y, k)
                                /\ On(Or(x, y), k) <=> On(x, k) \/ On(y, k)
                                /\ On(Xor(x, y), k) <=> ~(On(x, k) <=> On(y, k))
<1> DEFINE A == BitsOf[x] \cap BitsOf[y]
           O == BitsOf[x] \cup BitsOf[y]
           X == (BitsOf[x] \ BitsOf[y]) \cup (BitsOf[y] \ BitsOf[x])
<1>1. /\ BitsOf[x] = {k \in 0 .. Top : On(x, k)} /\ BitsOf[x] \in SUBSET (0 .. Top)
      /\ BitsOf[y] = {k \in 0 .. Top : On(y, k)} /\ BitsOf[y] \in SUBSET (0 .. Top)
  BY BitsAre
<1>2. A \in SUBSET (0 .. Top) /\ O \in SUBSET (0 .. Top) /\ X \in SUBSET (0 .. Top)
  BY <1>1
<1>3. And(x, y) = NumberOf[A] /\ Or(x, y) = NumberOf[O] /\ Xor(x, y) = NumberOf[X]
  BY DEF And, Or, Xor
<1>4. \A k \in 0 .. Top : /\ k \in A <=> On(x, k) /\ On(y, k)
                          /\ k \in O <=> On(x, k) \/ On(y, k)
                          /\ k \in X <=> ~(On(x, k) <=> On(y, k))
  BY <1>1
<1> HIDE DEF A, O, X
<1>5. /\ NumberOf[A] \in Register /\ \A k \in 0 .. Top : On(NumberOf[A], k) <=> k \in A
      /\ NumberOf[O] \in Register /\ \A k \in 0 .. Top : On(NumberOf[O], k) <=> k \in O
      /\ NumberOf[X] \in Register /\ \A k \in 0 .. Top : On(NumberOf[X], k) <=> k \in X
  BY <1>2, NumberOn
<1>. QED BY <1>3, <1>4, <1>5

\* The console's number with given positions, and the host's with given bits.
LEMMA OfBitsIs ==
  ASSUME NEW m, NEW a \in Register, NEW b \in Register, NEW x \in Register,
         \A k \in 0 .. Top : On(x, k) <=> Guest!Makes(m, On(a, k), On(b, k))
  PROVE  Guest!OfBits(m, a, b) = x
<1> DEFINE S == {p \in 0 .. Top : Guest!Makes(m, p \in Guest!Has(a), p \in Guest!Has(b))}
<1>1. Guest!OfBits(m, a, b) = Guest!Of(S) BY GuestWords DEF Guest!OfBits
<1>2. S \in SUBSET (0 .. Top) OBVIOUS
<1>3. ASSUME NEW k \in 0 .. Top
      PROVE  On(x, k) <=> Top - k \in S
  <2>1. Top - k \in 0 .. Top /\ Top - (Top - k) = k BY Width
  <2>2. Top - k \in Guest!Has(a) <=> On(a, k) BY <2>1, HasIs
  <2>3. Top - k \in Guest!Has(b) <=> On(b, k) BY <2>1, HasIs
  <2>4. (Top - k \in Guest!Has(a)) = On(a, k) /\ (Top - k \in Guest!Has(b)) = On(b, k)
    <3>1. On(a, k) \in BOOLEAN /\ On(b, k) \in BOOLEAN BY DEF On
    <3>. QED BY <2>2, <2>3, <3>1
  <2>5. Top - k \in S <=> Guest!Makes(m, On(a, k), On(b, k)) BY <2>1, <2>4
  <2>. QED BY <2>5
<1> HIDE DEF S
<1>. QED BY <1>1, <1>2, <1>3, IsOf

\* Instructions with two registers: any two numbers, any bits above the word.
LEMMA LogicalsAgree ==
  ASSUME NEW m \in Logicals, NEW a \in Register, NEW b \in Register
  PROVE  Logical(m, a, b) \in Register /\ Guest!OfBits(m, a, b) = Logical(m, a, b)
<1>1. /\ Not(b) \in Register /\ \A k \in 0 .. Top : On(Not(b), k) <=> ~On(b, k)
      /\ And(a, b) \in Register /\ Or(a, b) \in Register /\ Xor(a, b) \in Register
  BY OnNot, BitOperations
<1>2. \A k \in 0 .. Top : /\ On(And(a, b), k) <=> On(a, k) /\ On(b, k)
                          /\ On(Or(a, b), k) <=> On(a, k) \/ On(b, k)
                          /\ On(Xor(a, b), k) <=> ~(On(a, k) <=> On(b, k))
  BY BitOperations
<1>3. \A x \in Register : \A k \in 0 .. Top : On(Not(x), k) <=> ~On(x, k)
  BY OnNot
<1>4. \A x \in Register : Not(x) \in Register BY OnNot
<1>5. \A x, k : On(x, k) \in BOOLEAN BY DEF On
<1>6. CASE m = "and"
  <2>1. And(a, b) \in Register BY <1>1
  <2>2. \A k \in 0 .. Top : On(And(a, b), k) <=> Guest!Makes(m, On(a, k), On(b, k))
    BY <1>1, <1>2, <1>5, <1>6, <2>1 DEF Guest!Makes
  <2>3. Logical(m, a, b) = And(a, b) BY <1>6 DEF Logical
  <2>. QED BY <2>1, <2>2, <2>3, OfBitsIs
<1>7. CASE m = "andc"
  <2>1. /\ And(a, Not(b)) \in Register
        /\ \A k \in 0 .. Top : On(And(a, Not(b)), k) <=> On(a, k) /\ On(Not(b), k)
    BY <1>1, BitOperations
  <2>2. \A k \in 0 .. Top : On(And(a, Not(b)), k) <=> Guest!Makes(m, On(a, k), On(b, k))
    BY <1>1, <1>2, <1>5, <1>7, <2>1 DEF Guest!Makes
  <2>3. Logical(m, a, b) = And(a, Not(b)) BY <1>7 DEF Logical
  <2>. QED BY <2>1, <2>2, <2>3, OfBitsIs
<1>8. CASE m = "nand"
  <2>1. Not(And(a, b)) \in Register /\ \A k \in 0 .. Top : On(Not(And(a, b)), k) <=> ~On(And(a, b), k)
    BY <1>1, <1>3, <1>4
  <2>2. \A k \in 0 .. Top : On(Not(And(a, b)), k) <=> Guest!Makes(m, On(a, k), On(b, k))
    BY <1>1, <1>2, <1>5, <1>8, <2>1 DEF Guest!Makes
  <2>3. Logical(m, a, b) = Not(And(a, b)) BY <1>8 DEF Logical
  <2>. QED BY <2>1, <2>2, <2>3, OfBitsIs
<1>9. CASE m = "or"
  <2>1. Or(a, b) \in Register BY <1>1
  <2>2. \A k \in 0 .. Top : On(Or(a, b), k) <=> Guest!Makes(m, On(a, k), On(b, k))
    BY <1>1, <1>2, <1>5, <1>9, <2>1 DEF Guest!Makes
  <2>3. Logical(m, a, b) = Or(a, b) BY <1>9 DEF Logical
  <2>. QED BY <2>1, <2>2, <2>3, OfBitsIs
<1>10. CASE m = "orc"
  <2>1. /\ Or(a, Not(b)) \in Register
        /\ \A k \in 0 .. Top : On(Or(a, Not(b)), k) <=> On(a, k) \/ On(Not(b), k)
    BY <1>1, BitOperations
  <2>2. \A k \in 0 .. Top : On(Or(a, Not(b)), k) <=> Guest!Makes(m, On(a, k), On(b, k))
    BY <1>1, <1>2, <1>5, <1>10, <2>1 DEF Guest!Makes
  <2>3. Logical(m, a, b) = Or(a, Not(b)) BY <1>10 DEF Logical
  <2>. QED BY <2>1, <2>2, <2>3, OfBitsIs
<1>11. CASE m = "nor"
  <2>1. Not(Or(a, b)) \in Register /\ \A k \in 0 .. Top : On(Not(Or(a, b)), k) <=> ~On(Or(a, b), k)
    BY <1>1, <1>3, <1>4
  <2>2. \A k \in 0 .. Top : On(Not(Or(a, b)), k) <=> Guest!Makes(m, On(a, k), On(b, k))
    BY <1>1, <1>2, <1>5, <1>11, <2>1 DEF Guest!Makes
  <2>3. Logical(m, a, b) = Not(Or(a, b)) BY <1>11 DEF Logical
  <2>. QED BY <2>1, <2>2, <2>3, OfBitsIs
<1>12. CASE m = "xor"
  <2>1. Xor(a, b) \in Register BY <1>1
  <2>2. \A k \in 0 .. Top : On(Xor(a, b), k) <=> Guest!Makes(m, On(a, k), On(b, k))
    BY <1>1, <1>2, <1>5, <1>12, <2>1 DEF Guest!Makes
  <2>3. Logical(m, a, b) = Xor(a, b) BY <1>12 DEF Logical
  <2>. QED BY <2>1, <2>2, <2>3, OfBitsIs
<1>13. CASE m = "eqv"
  <2>1. Not(Xor(a, b)) \in Register /\ \A k \in 0 .. Top : On(Not(Xor(a, b)), k) <=> ~On(Xor(a, b), k)
    BY <1>1, <1>3, <1>4
  <2>2. \A k \in 0 .. Top : On(Not(Xor(a, b)), k) <=> Guest!Makes(m, On(a, k), On(b, k))
    BY <1>1, <1>2, <1>5, <1>13, <2>1 DEF Guest!Makes
  <2>3. Logical(m, a, b) = Not(Xor(a, b)) BY <1>13 DEF Logical
  <2>. QED BY <2>1, <2>2, <2>3, OfBitsIs
<1>. QED BY <1>6, <1>7, <1>8, <1>9, <1>10, <1>11, <1>12, <1>13 DEF Logicals

Half == 2 ^ (W \div 2)

LEMMA HalfWord ==
  /\ W \div 2 \in Nat /\ Half \in Nat \ {0} /\ Word = Half * Half
  /\ \A n \in 0 .. Half - 1 : n \in Register /\ n * Half \in Register
<1>1. W \div 2 \in Nat /\ (W \div 2) + (W \div 2) = W
  <2>1. W \in Nat /\ W % 4 = 0 BY WAssumption
  <2>. QED BY <2>1
<1>2. Half \in Nat \ {0} /\ Word = Half * Half
  BY <1>1, PowerPositive, PowerSum DEF Half, Word
<1>3. ASSUME NEW n \in 0 .. Half - 1
      PROVE  n \in Register /\ n * Half \in Register
  <2>1. n \in Nat /\ n <= Half - 1 /\ Half \in Nat /\ Half >= 1 BY <1>2
  <2>2. n * Half <= (Half - 1) * Half /\ n * Half \in Nat BY <2>1
  <2>3. (Half - 1) * Half = Word - Half /\ Half <= Word BY <1>2, <2>1
  <2>4. Word \in Nat /\ DWord \in Nat /\ Word <= DWord
    <3>1. DWord = Word * Word /\ Word \in Nat /\ Word >= 16 /\ DWord \in Nat
      BY Width
    <3>. QED BY <3>1
  <2>5. n \in 0 .. DWord - 1 /\ n * Half \in 0 .. DWord - 1
    <3> HIDE DEF Half
    <3>. QED BY <2>1, <2>2, <2>3, <2>4
  <2>. QED BY <2>5 DEF Register
<1>. QED BY <1>1, <1>2, <1>3

\* What the console makes of a logical instruction with an immediate.
GuestImmediate(m, a, n) ==
  IF m \in {"andi", "ori", "xori"} THEN Guest!OfBits(Guest!LogicalImmediates[m], a, n)
  ELSE Guest!OfBits(Guest!ShiftedImmediates[m], a, n * Half)

\* andi., ori, xori and their shifted forms, for fields of half a word.
LEMMA LogicalImmediatesAgree ==
  ASSUME NEW m \in LogicalImmediates, NEW a \in Register, NEW n \in 0 .. Half - 1
  PROVE  /\ LogicalImmediate(m, a, n) \in Register
         /\ GuestImmediate(m, a, n) = LogicalImmediate(m, a, n)
<1>1. n \in Register /\ n * Half \in Register BY HalfWord
<1>2. ASSUME NEW b \in Register
      PROVE  /\ And(a, b) \in Register /\ Guest!OfBits("and", a, b) = And(a, b)
             /\ Or(a, b) \in Register /\ Guest!OfBits("or", a, b) = Or(a, b)
             /\ Xor(a, b) \in Register /\ Guest!OfBits("xor", a, b) = Xor(a, b)
  <2>1. "and" \in Logicals /\ "or" \in Logicals /\ "xor" \in Logicals
    BY DEF Logicals
  <2>2. Logical("and", a, b) = And(a, b) /\ Logical("or", a, b) = Or(a, b)
        /\ Logical("xor", a, b) = Xor(a, b)
    BY DEF Logical
  <2>3. /\ Logical("and", a, b) \in Register /\ Guest!OfBits("and", a, b) = Logical("and", a, b)
        /\ Logical("or", a, b) \in Register /\ Guest!OfBits("or", a, b) = Logical("or", a, b)
        /\ Logical("xor", a, b) \in Register /\ Guest!OfBits("xor", a, b) = Logical("xor", a, b)
    BY <2>1, LogicalsAgree
  <2>. QED BY <2>2, <2>3
<1>3. /\ Guest!LogicalImmediates["andi"] = "and" /\ Guest!ShiftedImmediates["andis"] = "and"
      /\ Guest!LogicalImmediates["ori"] = "or" /\ Guest!ShiftedImmediates["oris"] = "or"
      /\ Guest!LogicalImmediates["xori"] = "xor" /\ Guest!ShiftedImmediates["xoris"] = "xor"
  BY DEF Guest!LogicalImmediates, Guest!ShiftedImmediates
<1>4. CASE m = "andi"
  <2>1. LogicalImmediate(m, a, n) = And(a, n) BY <1>4 DEF LogicalImmediate, Half
  <2>2. GuestImmediate(m, a, n) = Guest!OfBits("and", a, n)
    BY <1>3, <1>4 DEF GuestImmediate
  <2>. QED BY <1>1, <1>2, <2>1, <2>2
<1>5. CASE m = "andis"
  <2>1. LogicalImmediate(m, a, n) = And(a, n * Half)
    BY <1>5 DEF LogicalImmediate, Half
  <2>2. GuestImmediate(m, a, n) = Guest!OfBits("and", a, n * Half)
    BY <1>3, <1>5 DEF GuestImmediate
  <2>. QED BY <1>1, <1>2, <2>1, <2>2
<1>6. CASE m = "ori"
  <2>1. LogicalImmediate(m, a, n) = Or(a, n) BY <1>6 DEF LogicalImmediate, Half
  <2>2. GuestImmediate(m, a, n) = Guest!OfBits("or", a, n)
    BY <1>3, <1>6 DEF GuestImmediate
  <2>. QED BY <1>1, <1>2, <2>1, <2>2
<1>7. CASE m = "oris"
  <2>1. LogicalImmediate(m, a, n) = Or(a, n * Half)
    BY <1>7 DEF LogicalImmediate, Half
  <2>2. GuestImmediate(m, a, n) = Guest!OfBits("or", a, n * Half)
    BY <1>3, <1>7 DEF GuestImmediate
  <2>. QED BY <1>1, <1>2, <2>1, <2>2
<1>8. CASE m = "xori"
  <2>1. LogicalImmediate(m, a, n) = Xor(a, n) BY <1>8 DEF LogicalImmediate, Half
  <2>2. GuestImmediate(m, a, n) = Guest!OfBits("xor", a, n)
    BY <1>3, <1>8 DEF GuestImmediate
  <2>. QED BY <1>1, <1>2, <2>1, <2>2
<1>9. CASE m = "xoris"
  <2>1. LogicalImmediate(m, a, n) = Xor(a, n * Half)
    BY <1>9 DEF LogicalImmediate, Half
  <2>2. GuestImmediate(m, a, n) = Guest!OfBits("xor", a, n * Half)
    BY <1>3, <1>9 DEF GuestImmediate
  <2>. QED BY <1>1, <1>2, <2>1, <2>2
<1>. QED BY <1>4, <1>5, <1>6, <1>7, <1>8, <1>9 DEF LogicalImmediates

-----------------------------------------------------------------------------
(* Shifts.                                                                  *)

Widths32 == {W, 2 * W}

LEMMA PartOfRegister ==
  ASSUME NEW B \in Nat, B <= 2 * W, NEW x \in 0 .. 2 ^ B - 1
  PROVE  x \in Register /\ x \in Int /\ 2 ^ B \in Nat \ {0} /\ x % 2 ^ B = x
<1> DEFINE M == 2 ^ B
<1>1. B <= Top + 1 /\ Top + 1 \in Nat BY Width
<1>2. M <= 2 ^ (Top + 1) BY <1>1, PowerMonotone
<1>3. M \in Nat \ {0} BY PowerPositive
<1>4. DWord = 2 ^ (Top + 1) /\ DWord \in Nat BY Width
<1>5. x \in 0 .. M - 1 OBVIOUS
<1>6. x \in Register /\ x \in Int /\ x % M = x
  <2> HIDE DEF M
  <2>. QED BY <1>2, <1>3, <1>4, <1>5 DEF Register
<1>. QED BY <1>3, <1>6

\* A number cut to at most a register's bits.
LEMMA LowIsRegister ==
  ASSUME NEW B \in Nat, B <= 2 * W, NEW x \in Int
  PROVE  Low(B, x) \in Register /\ Low(B, x) \in 0 .. 2 ^ B - 1
<1> DEFINE M == 2 ^ B
<1>1. M \in Nat \ {0} BY PowerPositive
<1>2. x % M \in 0 .. M - 1
  <2> HIDE DEF M
  <2>. QED BY <1>1, Remainder
<1>3. x % M \in Register BY <1>2, PartOfRegister
<1>. QED BY <1>2, <1>3 DEF Low

LEMMA ZeroRegister == 0 \in Register /\ \A k \in 0 .. Top : ~On(0, k)
BY Width, OnZero DEF Register

LEMMA QuotientBound ==
  ASSUME NEW x \in Nat, NEW M \in Nat \ {0}
  PROVE  x \div M \in Nat /\ x \div M <= x
<1> DEFINE q == x \div M
           e == x % M
<1>1. q \in Nat /\ e \in 0 .. M - 1 /\ x = q * M + e
  <2>1. x \in Int OBVIOUS
  <2>. QED BY <2>1, Remainder
<1> HIDE DEF q, e
<1>2. q * M >= q /\ q * M \in Nat BY <1>1
<1>3. q <= x BY <1>1, <1>2
<1>. QED BY <1>1, <1>3 DEF q

\* A shift to the left by n, or by all of a register's bits and more.
LEMMA ShiftedUp ==
  ASSUME NEW B \in Widths32, NEW n \in Nat, NEW a \in Register
  PROVE  LET x == IF n >= B THEN 0 ELSE Low(B, Low(B, a) * 2 ^ n)
         IN  /\ x \in Register
             /\ \A k \in 0 .. Top : On(x, k) <=> k < B /\ k >= n /\ On(a, k - n)
<1> DEFINE y == Low(B, a)
           z == y * 2 ^ n
<1>1. B \in Nat /\ B <= 2 * W BY Width DEF Widths32
<1>2. a \in Int /\ y \in Int BY <1>1, LowIsRegister DEF Register
<1>3. z \in Int
  <2> DEFINE P == 2 ^ n
  <2>1. P \in Nat BY PowerPositive
  <2> HIDE DEF P, y
  <2>2. y * P \in Int BY <1>2, <2>1
  <2>. QED BY <2>2 DEF P
<1>4. Low(B, z) \in Register BY <1>1, <1>3, LowIsRegister
<1>5. ASSUME NEW k \in 0 .. Top
      PROVE  On(Low(B, z), k) <=> k < B /\ k >= n /\ On(a, k - n)
  <2>1. k \in Nat /\ (k >= n => k - n \in Nat) /\ (k < B /\ k >= n => k - n < B)
    BY <1>1, Width
  <2>2. On(z % 2 ^ B, k) <=> k < B /\ On(z, k) BY <1>1, <1>3, <2>1, OnLow
  <2>3. On(z, k) <=> k >= n /\ On(y, k - n) BY <1>2, <2>1, OnRaised
  <2>4. k >= n => (On(a % 2 ^ B, k - n) <=> k - n < B /\ On(a, k - n))
    BY <1>1, <1>2, <2>1, OnLow
  <2>5. Low(B, z) = z % 2 ^ B /\ y = a % 2 ^ B BY DEF Low
  <2> HIDE DEF y, z
  <2>. QED BY <2>1, <2>2, <2>3, <2>4, <2>5
<1>6. CASE n >= B
  <2>1. \A k \in 0 .. Top : ~(k < B /\ k >= n) BY <1>1, <1>6, Width
  <2>. QED BY <1>6, <2>1, ZeroRegister
<1>7. CASE ~(n >= B) BY <1>4, <1>5, <1>7
<1>. QED BY <1>6, <1>7

\* A shift to the right by n.
LEMMA ShiftedDown ==
  ASSUME NEW B \in Widths32, NEW n \in Nat, NEW a \in Register
  PROVE  LET x == IF n >= B THEN 0 ELSE ShiftRight(Low(B, a), n)
         IN  /\ x \in Register
             /\ \A k \in 0 .. Top : On(x, k) <=> k + n < B /\ On(a, k + n)
<1> DEFINE y == Low(B, a)
           x == y \div 2 ^ n
<1>1. B \in Nat /\ B <= 2 * W BY Width DEF Widths32
<1>2. a \in Int /\ y \in Register /\ y \in Nat
  BY <1>1, LowIsRegister, Width DEF Register
<1>3. x \in Register
  <2> DEFINE P == 2 ^ n
  <2>1. P \in Nat \ {0} BY PowerPositive
  <2>2. x \in Nat /\ x <= y
    <3> HIDE DEF P, y
    <3>. QED BY <1>2, <2>1, QuotientBound DEF P
  <2> HIDE DEF x, y
  <2>. QED BY <1>2, <2>2, Width DEF Register
<1>4. ASSUME NEW k \in 0 .. Top
      PROVE  On(x, k) <=> k + n < B /\ On(a, k + n)
  <2>1. k \in Nat /\ n + k \in Nat /\ n + k = k + n BY Width
  <2>2. On(x, k) <=> On(y, n + k)
    <3>1. y \in Int BY <1>2
    <3>. QED BY <2>1, <3>1, OnHigh
  <2>3. On(a % 2 ^ B, n + k) <=> n + k < B /\ On(a, n + k)
    BY <1>1, <1>2, <2>1, OnLow
  <2>4. y = a % 2 ^ B BY DEF Low
  <2> HIDE DEF x, y
  <2>. QED BY <2>1, <2>2, <2>3, <2>4
<1>5. ShiftRight(y, n) = x BY DEF ShiftRight
<1>6. CASE n >= B
  <2>1. \A k \in 0 .. Top : ~(k + n < B) BY <1>1, <1>6, Width
  <2>. QED BY <1>6, <2>1, ZeroRegister
<1>7. CASE ~(n >= B) BY <1>3, <1>4, <1>5, <1>7
<1>. QED BY <1>6, <1>7

\* slw, srw, sld and srd for every count in the register, those beyond the width included.
LEMMA ShiftsAgree ==
  ASSUME NEW m \in Shifts, NEW a \in Register, NEW b \in Register
  PROVE  Shift(m, a, b) \in Register /\ Guest!Shifted(m, a, b) = Shift(m, a, b)
<1> DEFINE B == IF m \in {"slw", "srw"} THEN W ELSE 2 * W
           n == b % (2 * B)
           left == m \in {"slw", "sld"}
           up == IF n >= B THEN 0 ELSE Low(B, Low(B, a) * 2 ^ n)
           down == IF n >= B THEN 0 ELSE ShiftRight(Low(B, a), n)
           from == Top + 1 - B
           moved == {IF left THEN p - n ELSE p + n : p \in Guest!Has(a) \cap (from .. Top)}
<1>1. B \in Widths32 /\ B \in Nat \ {0} /\ from \in Nat /\ from + B = Top + 1
  BY Width DEF Widths32
<1>2. n \in Nat
  <2>1. 2 * B \in Nat \ {0} /\ b \in Int BY <1>1 DEF Register
  <2> HIDE DEF B
  <2>. QED BY <2>1
<1>3. Shift(m, a, b) = IF left THEN up ELSE down
  <2>1. 2 * (2 * W) = 4 * W BY Width
  <2>2. a % 2 ^ (2 * W) = a BY InRegister DEF Register, DWord
  <2>3. CASE m = "slw" BY <2>3 DEF Shift, u32
  <2>4. CASE m = "srw" BY <2>4 DEF Shift, u32
  <2>5. CASE m = "sld" BY <2>1, <2>2, <2>5 DEF Shift, u64, Low
  <2>6. CASE m = "srd" BY <2>1, <2>2, <2>6 DEF Shift, Low
  <2>. QED BY <2>3, <2>4, <2>5, <2>6 DEF Shifts
<1>4. Guest!Shifted(m, a, b) = Guest!Of(moved \cap (from .. Top))
  <2>1. Top + 1 - W = W /\ Top + 1 - 0 = 2 * W /\ Top + 1 - 2 * W = 0 BY Width
  <2>2. CASE m \in {"slw", "srw"} BY <2>1, <2>2, GuestWords DEF Guest!Shifted
  <2>3. CASE m \notin {"slw", "srw"} BY <2>1, <2>3, GuestWords DEF Guest!Shifted
  <2>. QED BY <2>2, <2>3
<1>5. /\ up \in Register /\ \A k \in 0 .. Top : On(up, k) <=> k < B /\ k >= n /\ On(a, k - n)
      /\ down \in Register /\ \A k \in 0 .. Top : On(down, k) <=> k + n < B /\ On(a, k + n)
  <2> HIDE DEF B, n
  <2>. QED BY <1>1, <1>2, ShiftedUp, ShiftedDown
<1> HIDE DEF B, n, up, down, from
<1>6. \A p \in 0 .. Top : p \in Guest!Has(a) <=> On(a, Top - p) BY HasIs
<1>7. Guest!Has(a) \in SUBSET (0 .. Top) BY HasIs
<1>8. from + B = Top + 1 /\ from \in Nat /\ B \in Nat \ {0} /\ Top \in Nat
  BY <1>1, Width
<1>9. moved \cap (from .. Top) \in SUBSET (0 .. Top) BY <1>8
<1>10. CASE left
  <2>1. ASSUME NEW k \in 0 .. Top
        PROVE  On(up, k) <=> Top - k \in moved \cap (from .. Top)
    <3>1. On(up, k) => Top - k \in moved \cap (from .. Top)
      <4> SUFFICES ASSUME On(up, k) PROVE Top - k \in moved \cap (from .. Top)
        OBVIOUS
      <4>1. k < B /\ k >= n /\ On(a, k - n) BY <1>5
      <4>2. Top - (k - n) \in from .. Top /\ Top - (Top - (k - n)) = k - n /\ Top - k \in from .. Top
            /\ Top - (k - n) \in 0 .. Top /\ Top - (k - n) - n = Top - k
        BY <1>2, <1>8, <4>1
      <4>3. Top - (k - n) \in Guest!Has(a) BY <1>6, <4>1, <4>2
      <4>. QED BY <1>10, <4>2, <4>3
    <3>2. Top - k \in moved \cap (from .. Top) => On(up, k)
      <4> SUFFICES ASSUME Top - k \in moved \cap (from .. Top) PROVE On(up, k)
        OBVIOUS
      <4>1. PICK p \in Guest!Has(a) \cap (from .. Top) : Top - k = p - n
        BY <1>10
      <4>2. Top - p = k - n /\ k >= n /\ k < B /\ p \in 0 .. Top
        BY <1>2, <1>8, <4>1
      <4>. QED BY <1>5, <1>6, <4>1, <4>2
    <3>. QED BY <3>1, <3>2
  <2>2. Guest!Of(moved \cap (from .. Top)) = up
    <3> HIDE DEF moved
    <3>. QED BY <1>5, <1>9, <2>1, IsOf
  <2>. QED BY <1>3, <1>4, <1>5, <1>10, <2>2
<1>11. CASE ~left
  <2>1. ASSUME NEW k \in 0 .. Top
        PROVE  On(down, k) <=> Top - k \in moved \cap (from .. Top)
    <3>1. On(down, k) => Top - k \in moved \cap (from .. Top)
      <4> SUFFICES ASSUME On(down, k) PROVE Top - k \in moved \cap (from .. Top)
        OBVIOUS
      <4>1. k + n < B /\ On(a, k + n) BY <1>5
      <4>2. Top - (k + n) \in from .. Top /\ Top - (Top - (k + n)) = k + n /\ Top - k \in from .. Top
            /\ Top - (k + n) \in 0 .. Top /\ Top - (k + n) + n = Top - k
        BY <1>2, <1>8, <4>1
      <4>3. Top - (k + n) \in Guest!Has(a) BY <1>6, <4>1, <4>2
      <4>. QED BY <1>11, <4>2, <4>3
    <3>2. Top - k \in moved \cap (from .. Top) => On(down, k)
      <4> SUFFICES ASSUME Top - k \in moved \cap (from .. Top) PROVE On(down, k)
        OBVIOUS
      <4>1. PICK p \in Guest!Has(a) \cap (from .. Top) : Top - k = p + n
        BY <1>11
      <4>2. Top - p = k + n /\ k + n < B /\ p \in 0 .. Top BY <1>2, <1>8, <4>1
      <4>. QED BY <1>5, <1>6, <4>1, <4>2
    <3>. QED BY <3>1, <3>2
  <2>2. Guest!Of(moved \cap (from .. Top)) = down
    <3> HIDE DEF moved
    <3>. QED BY <1>5, <1>9, <2>1, IsOf
  <2>. QED BY <1>3, <1>4, <1>5, <1>11, <2>2
<1>. QED BY <1>10, <1>11

-----------------------------------------------------------------------------
(* Instructions with one operand.                                           *)

\* Bits of a two's complement: the sign stands in all above it.
LEMMA OnSigned ==
  ASSUME NEW n \in Nat \ {0}, NEW x \in Int, NEW k \in Nat
  PROVE  Signed(n, x) \in Int /\ (On(Signed(n, x), k) <=> On(x, IF k < n THEN k ELSE n - 1))
<1> DEFINE M == 2 ^ n
           H == 2 ^ (n - 1)
           y == x % M
<1>1. n \in Nat /\ n - 1 \in Nat /\ n - 1 + 1 = n OBVIOUS
<1>2. M \in Nat \ {0} /\ H \in Nat \ {0} BY <1>1, PowerPositive
<1>3. M = H * 2 BY <1>1, Doubling
<1>4. y \in 0 .. M - 1 /\ y \in Int
  <2> HIDE DEF M
  <2>1. x % M \in 0 .. M - 1 BY <1>2, Remainder
  <2>. QED BY <1>2, <2>1
<1>5. \A j \in Nat : On(y, j) <=> j < n /\ On(x, j) BY <1>1, OnLow
<1>6. y % M = (y % H) + (IF On(y, n - 1) THEN H ELSE 0)
  <2>1. y % 2 ^ (n - 1 + 1) = (y % 2 ^ (n - 1)) + (IF On(y, n - 1) THEN 2 ^ (n - 1) ELSE 0)
    BY <1>1, <1>4, BitByBit
  <2>. QED BY <1>1, <2>1
<1>7. y % H \in 0 .. H - 1 /\ y % M = y
  <2> HIDE DEF M, H, y
  <2>. QED BY <1>2, <1>4, Remainder
<1>8. On(y, n - 1) <=> y >= H
  <2> HIDE DEF M, H, y
  <2>. QED BY <1>2, <1>4, <1>6, <1>7
<1>9. Signed(n, x) = IF y < H THEN y ELSE y - M BY DEF Signed, Low
<1>10. On(y, n - 1) <=> On(x, n - 1) BY <1>1, <1>5
<1>11. CASE y < H
  <2>1. ~On(x, n - 1)
    <3> HIDE DEF M, H, y
    <3>. QED BY <1>2, <1>4, <1>8, <1>10, <1>11
  <2>. QED BY <1>4, <1>5, <1>9, <1>11, <2>1
<1>12. CASE ~(y < H)
  <2>1. On(x, n - 1)
    <3> HIDE DEF M, H, y
    <3>. QED BY <1>2, <1>4, <1>8, <1>10, <1>12
  <2>2. On((-1) * M + y, k) <=> (IF k < n THEN On(y, k) ELSE On(-1, k - n))
    <3>1. -1 \in Int OBVIOUS
    <3>. QED BY <1>1, <1>4, <3>1, OnJoined
  <2>3. (-1) * M + y = y - M /\ y - M \in Int
    <3> HIDE DEF M, y
    <3>. QED BY <1>2, <1>4
  <2>4. ~(k < n) => On(-1, k - n)
    <3>1. ~(k < n) => k - n \in Nat BY <1>1
    <3>. QED BY <3>1, OnZero
  <2> HIDE DEF M, H, y
  <2>5. On(y - M, k) <=> (IF k < n THEN On(y, k) ELSE On(-1, k - n))
    BY <2>2, <2>3
  <2>. QED BY <1>5, <1>9, <1>12, <2>1, <2>3, <2>4, <2>5
<1>. QED BY <1>11, <1>12

\* A number read as signed.
LEMMA SignedRange ==
  ASSUME NEW n \in Nat \ {0}, NEW x \in Int
  PROVE  /\ 2 ^ (n - 1) \in Nat \ {0} /\ 2 ^ n = 2 * 2 ^ (n - 1)
         /\ Signed(n, x) \in -2 ^ (n - 1) .. 2 ^ (n - 1) - 1
         /\ Signed(n, x) % 2 ^ n = x % 2 ^ n
         /\ Signed(n, x) < 0 <=> Low(n, x) >= 2 ^ (n - 1)
<1> DEFINE M == 2 ^ n
           H == 2 ^ (n - 1)
           y == x % M
           s == IF y < H THEN y ELSE y - M
<1>1. n \in Nat /\ n - 1 \in Nat /\ n - 1 + 1 = n OBVIOUS
<1>2. M \in Nat \ {0} /\ H \in Nat \ {0} BY <1>1, PowerPositive
<1>3. M = H * 2 BY <1>1, Doubling
<1>4. y \in 0 .. M - 1
  <2> HIDE DEF M
  <2>. QED BY <1>2, Remainder
<1>5. Signed(n, x) = s /\ Low(n, x) = y BY DEF Signed, Low
<1>6. s \in -H .. H - 1 /\ (s < 0 <=> y >= H) /\ M = 2 * H
  <2> HIDE DEF M, H, y
  <2>. QED BY <1>2, <1>3, <1>4
<1>7. s % M = y
  <2>1. \A N \in Nat \ {0} : \A u \in Int : \A v \in 0 .. N - 1 : (u * N + v) % N = v
    BY Division
  <2> HIDE DEF M, H, y
  <2>2. (0 * M + y) % M = y /\ ((-1) * M + y) % M = y
    <3>1. 0 \in Int /\ -1 \in Int OBVIOUS
    <3>. QED BY <1>2, <1>4, <2>1, <3>1
  <2>3. 0 * M + y = y /\ (-1) * M + y = y - M BY <1>2, <1>4
  <2>4. y % M = y /\ (y - M) % M = y BY <2>2, <2>3, Zenon
  <2>. QED BY <2>4
<1> HIDE DEF s
<1>8. Signed(n, x) % M = y BY <1>5, <1>7
<1>. QED BY <1>2, <1>5, <1>6, <1>8

\* extsb, extsh and extsw.
LEMMA ExtensionAgrees ==
  ASSUME NEW n \in 1 .. 2 * W, NEW a \in Register
  PROVE  LET from == Top + 1 - n
         IN  /\ u64(Signed(n, a)) \in Register
             /\ Guest!Of({p \in 0 .. Top : (IF p < from THEN from ELSE p) \in Guest!Has(a)})
                = u64(Signed(n, a))
<1> DEFINE from == Top + 1 - n
           S == {p \in 0 .. Top : (IF p < from THEN from ELSE p) \in Guest!Has(a)}
           x == u64(Signed(n, a))
<1>1. n \in Nat \ {0} /\ n <= Top + 1 /\ Top \in Nat /\ a \in Int /\ Top + 1 = 2 * W /\ 2 * W \in Nat
  BY Width DEF Register
<1>2. Signed(n, a) \in Int
  <2>1. 0 \in Nat OBVIOUS
  <2>. QED BY <1>1, <2>1, OnSigned
<1>3. x \in Register BY <1>1, <1>2, LowIsRegister DEF u64
<1>4. ASSUME NEW k \in 0 .. Top
      PROVE  On(x, k) <=> Top - k \in S
  <2>1. k \in Nat /\ k < 2 * W BY <1>1
  <2>2. On(Signed(n, a) % 2 ^ (2 * W), k) <=> k < 2 * W /\ On(Signed(n, a), k)
    BY <1>1, <1>2, <2>1, OnLow
  <2>3. On(Signed(n, a), k) <=> On(a, IF k < n THEN k ELSE n - 1)
    BY <1>1, <2>1, OnSigned
  <2>4. On(x, k) <=> On(a, IF k < n THEN k ELSE n - 1)
    BY <2>1, <2>2, <2>3 DEF u64, Low
  <2>5. from \in 0 .. Top /\ Top - from = n - 1 /\ Top - k \in 0 .. Top /\ Top - (Top - k) = k
    BY <1>1
  <2>6. (Top - k < from) <=> ~(k < n) BY <1>1
  <2>7. from \in Guest!Has(a) <=> On(a, n - 1) BY <2>5, HasIs
  <2>8. Top - k \in Guest!Has(a) <=> On(a, k) BY <2>5, HasIs
  <2> HIDE DEF from, x
  <2>. QED BY <2>4, <2>5, <2>6, <2>7, <2>8
<1>5. S \in SUBSET (0 .. Top) OBVIOUS
<1> HIDE DEF S, x
<1>6. Guest!Of(S) = x BY <1>3, <1>4, <1>5, IsOf
<1>. QED BY <1>3, <1>6 DEF S, x

\* A set of numbers below a bound has a greatest.
LEMMA Greatest ==
  ASSUME NEW S \in SUBSET (0 .. Top), S # {}
  PROVE  \E k \in S : \A j \in S : j <= k
<1> DEFINE P == {n \in Nat : \A T \in SUBSET (0 .. Top) :
                    (T # {} /\ \A j \in T : j < n) => \E k \in T : \A j \in T : j <= k}
<1>1. 0 \in P
  <2> SUFFICES ASSUME NEW T \in SUBSET (0 .. Top), T # {}, \A j \in T : j < 0
               PROVE  FALSE
    OBVIOUS
  <2>1. PICK j : j \in T OBVIOUS
  <2>. QED BY <2>1
<1>2. \A n \in Nat : n \in P => n + 1 \in P
  <2> SUFFICES ASSUME NEW n \in Nat, n \in P,
                      NEW T \in SUBSET (0 .. Top), T # {}, \A j \in T : j < n + 1
               PROVE  \E k \in T : \A j \in T : j <= k
    OBVIOUS
  <2>1. \A j \in T : j \in Int OBVIOUS
  <2>2. CASE n \in T
    <3>1. \A j \in T : j <= n BY <2>1
    <3>. QED BY <2>2, <3>1
  <2>3. CASE n \notin T
    <3>1. \A j \in T : j < n BY <2>1, <2>3
    <3>. QED BY <3>1
  <2>. QED BY <2>2, <2>3
<1> HIDE DEF P
<1>3. Top + 1 \in P
  <2>1. Top + 1 \in Nat BY Width
  <2>. QED BY <1>1, <1>2, <2>1, Induction
<1>4. \A j \in S : j < Top + 1 BY Width
<1>. QED BY <1>3, <1>4 DEF P

\* cntlzw and cntlzd, zero included.
LEMMA LeadingZerosAgree ==
  ASSUME NEW n \in Widths32, NEW a \in Register
  PROVE  /\ clz(n, Low(n, a)) \in 0 .. n
         /\ Guest!LeadingZeros(Top + 1 - n, a) = clz(n, Low(n, a))
<1> DEFINE from == Top + 1 - n
           y == Low(n, a)
           Z == {p \in from .. Top : \A q \in from .. p : q \notin Guest!Has(a)}
<1>1. n \in Nat \ {0} /\ from \in Nat /\ from + n = Top + 1 /\ Top \in Nat /\ n <= 2 * W /\ a \in Int
  BY Width DEF Widths32, Register
<1>2. y \in Register BY <1>1, LowIsRegister
<1>3. \A q \in from .. Top : q \in Guest!Has(a) <=> On(y, Top - q)
  <2> SUFFICES ASSUME NEW q \in from .. Top
               PROVE  q \in Guest!Has(a) <=> On(y, Top - q)
    OBVIOUS
  <2>1. q \in 0 .. Top /\ Top - q \in Nat /\ Top - q < n BY <1>1
  <2>2. On(a % 2 ^ n, Top - q) <=> Top - q < n /\ On(a, Top - q)
    BY <1>1, <2>1, OnLow
  <2>3. q \in Guest!Has(a) <=> On(a, Top - q) BY <2>1, HasIs
  <2>. QED BY <2>1, <2>2, <2>3 DEF Low
<1>4. BitsOf[y] = {k \in 0 .. Top : On(y, k)} BY <1>2, BitsAre
<1>5. \A k \in BitsOf[y] : k < n /\ k \in Nat
  <2> SUFFICES ASSUME NEW k \in BitsOf[y] PROVE k < n /\ k \in Nat
    OBVIOUS
  <2>1. k \in Nat /\ On(y, k) BY <1>4
  <2>2. On(a % 2 ^ n, k) <=> k < n /\ On(a, k) BY <1>1, <2>1, OnLow
  <2>. QED BY <2>1, <2>2 DEF Low
<1> HIDE DEF from, y
<1>6. Guest!LeadingZeros(from, a) = Cardinality(Z)
  <2>1. Guest!Last = Top BY GuestWords
  <2> DEFINE Y == {p \in from .. Guest!Last : \A q \in from .. p : q \notin Guest!Has(a)}
  <2>2. Guest!LeadingZeros(from, a) = Cardinality(Y)
    <3>1. Guest!LeadingZeros(from, a) = Guest!Cardinality(Y)
      BY DEF Guest!LeadingZeros
    <3>2. Guest!Cardinality(Y) = Cardinality(Y)
      <4> HIDE DEF Y
      <4>. QED BY DEF Guest!Cardinality, Cardinality
    <3>. QED BY <3>1, <3>2
  <2>3. Y = Z BY <2>1
  <2> HIDE DEF Y, Z
  <2>. QED BY <2>2, <2>3
<1>7. ASSUME NEW c \in 0 .. n, Z = from .. from + c - 1
      PROVE  Cardinality(Z) = c
  <2>1. from \in Int /\ from + c - 1 \in Int BY <1>1
  <2>2. Cardinality(from .. from + c - 1) = IF from > from + c - 1 THEN 0 ELSE from + c - 1 - from + 1
    BY <2>1, FS_Interval
  <2>3. CASE c = 0
    <3>1. from > from + c - 1 BY <1>1, <2>3
    <3>. QED BY <1>7, <2>2, <2>3, <3>1
  <2>4. CASE c # 0
    <3>1. ~(from > from + c - 1) /\ from + c - 1 - from + 1 = c BY <1>1, <2>4
    <3>. QED BY <1>7, <2>2, <3>1
  <2>. QED BY <2>3, <2>4
<1>8. CASE y = 0
  <2>1. clz(n, y) = n /\ n \in 0 .. n BY <1>1, <1>8 DEF clz
  <2>2. \A q \in from .. Top : q \notin Guest!Has(a)
    <3>1. \A q \in from .. Top : Top - q \in Nat BY <1>1
    <3>. QED BY <1>3, <1>8, <3>1, OnZero
  <2>3. Z = from .. Top BY <1>1, <2>2
  <2>4. Top = from + n - 1 BY <1>1
  <2>5. Cardinality(Z) = n BY <1>7, <2>1, <2>3, <2>4
  <2>. QED BY <1>6, <2>1, <2>5 DEF from, y
<1>9. CASE y # 0
  <2>1. BitsOf[y] # {}
    <3> SUFFICES ASSUME BitsOf[y] = {} PROVE FALSE
      OBVIOUS
    <3>1. 0 \in Register /\ BitsOf[0] = {} BY ZeroRegister, BitsAre
    <3>. QED BY <1>2, <1>9, <3>1, SameBits
  <2> DEFINE g == CHOOSE k \in BitsOf[y] : \A j \in BitsOf[y] : j <= k
             c == n - 1 - g
  <2>2. g \in BitsOf[y] /\ \A j \in BitsOf[y] : j <= g
    <3>1. BitsOf[y] \in SUBSET (0 .. Top) BY <1>4
    <3>2. \E k \in BitsOf[y] : \A j \in BitsOf[y] : j <= k
      BY <2>1, <3>1, Greatest
    <3>. QED BY <3>2
  <2>3. clz(n, y) = c BY <1>9 DEF clz
  <2> HIDE DEF g
  <2>4. g \in Nat /\ g < n /\ c \in 0 .. n /\ from + c = Top - g
    BY <1>1, <1>5, <2>2
  <2>5. Z = from .. from + c - 1
    <3>1. ASSUME NEW p \in from .. from + c - 1 PROVE p \in Z
      <4>1. p \in from .. Top BY <1>1, <2>4
      <4>2. ASSUME NEW q \in from .. p PROVE q \notin Guest!Has(a)
        <5>1. q \in from .. Top /\ Top - q \in 0 .. Top /\ Top - q > g
          BY <1>1, <2>4
        <5>2. Top - q \notin BitsOf[y] BY <2>2, <2>4, <5>1
        <5>. QED BY <1>3, <1>4, <5>1, <5>2
      <4>. QED BY <4>1, <4>2
    <3>2. ASSUME NEW p \in Z PROVE p \in from .. from + c - 1
      <4>1. p \in from .. Top /\ \A q \in from .. p : q \notin Guest!Has(a)
        OBVIOUS
      <4>2. Top - g \in from .. Top /\ Top - (Top - g) = g BY <1>1, <2>4
      <4>3. Top - g \in Guest!Has(a) BY <1>3, <1>4, <2>2, <4>2
      <4>4. Top - g \notin from .. p BY <4>1, <4>3
      <4>. QED BY <1>1, <2>4, <4>1, <4>2, <4>4
    <3>. QED BY <3>1, <3>2
  <2>6. Cardinality(Z) = c BY <1>7, <2>4, <2>5
  <2>. QED BY <1>6, <2>3, <2>4, <2>6 DEF from, y
<1>. QED BY <1>8, <1>9

LEMMA BelowPower ==
  ASSUME NEW n \in Nat
  PROVE  n < 2 ^ n
<1> DEFINE S == {k \in Nat : k < 2 ^ k}
<1>1. 0 \in S
  <2>1. 2 ^ 0 = 1 OBVIOUS
  <2>. QED BY <2>1
<1>2. \A k \in Nat : k \in S => k + 1 \in S
  <2> SUFFICES ASSUME NEW k \in Nat, k < 2 ^ k PROVE k + 1 < 2 ^ (k + 1)
    OBVIOUS
  <2>1. 2 ^ (k + 1) = 2 ^ k * 2 /\ 2 ^ k \in Nat \ {0} BY Doubling
  <2>. QED BY <2>1
<1> HIDE DEF S
<1>3. n \in S BY <1>1, <1>2, Induction
<1>. QED BY <1>3 DEF S

\* All instructions with one operand.
LEMMA UnariesAgree ==
  ASSUME NEW m \in Unaries, NEW a \in Register
  PROVE  Unary(m, a) \in Register /\ Guest!Unary(m, a) = Unary(m, a)
<1> DEFINE extended(from) == Guest!Of({p \in 0 .. Top : (IF p < from THEN from ELSE p) \in Guest!Has(a)})
<1>1. Guest!Last = Top BY GuestWords
<1>2. W \div 4 \in 1 .. 2 * W /\ W \div 2 \in 1 .. 2 * W /\ W \in 1 .. 2 * W /\ Top + 1 - W = W
  <2>1. W \in Nat /\ W # 0 /\ W % 4 = 0 BY WAssumption
  <2>. QED BY <2>1 DEF Top
<1>3. \A n \in 1 .. 2 * W : /\ u64(Signed(n, a)) \in Register
                            /\ extended(Top + 1 - n) = u64(Signed(n, a))
  BY ExtensionAgrees
<1>4. \A n \in Widths32 : /\ clz(n, Low(n, a)) \in 0 .. n
                          /\ Guest!LeadingZeros(Top + 1 - n, a) = clz(n, Low(n, a))
  BY LeadingZerosAgree
<1>5. \A n \in Widths32 : 0 .. n \subseteq Register
  <2>1. Top + 1 < 2 ^ (Top + 1) /\ DWord = 2 ^ (Top + 1) /\ DWord \in Nat /\ Top + 1 = 2 * W /\ W \in Nat
    BY Width, BelowPower
  <2>2. 2 * W < DWord BY <2>1
  <2>3. \A n \in Widths32 : n \in Nat /\ n <= 2 * W BY <2>1 DEF Widths32
  <2>. QED BY <2>1, <2>2, <2>3 DEF Register
<1> HIDE DEF extended
<1>6. CASE m = "extsb"
  <2>1. Guest!Unary(m, a) = extended(Top + 1 - W \div 4)
    BY <1>1, <1>6 DEF Guest!Unary, extended
  <2>2. Unary(m, a) = u64(Signed(W \div 4, a)) BY <1>6 DEF Unary
  <2>. QED BY <1>2, <1>3, <2>1, <2>2
<1>7. CASE m = "extsh"
  <2>1. Guest!Unary(m, a) = extended(Top + 1 - W \div 2)
    BY <1>1, <1>7 DEF Guest!Unary, extended
  <2>2. Unary(m, a) = u64(Signed(W \div 2, a)) BY <1>7 DEF Unary
  <2>. QED BY <1>2, <1>3, <2>1, <2>2
<1>8. CASE m = "extsw"
  <2>1. Guest!Unary(m, a) = extended(W) BY <1>1, <1>8 DEF Guest!Unary, extended
  <2>2. Unary(m, a) = u64(Signed(W, a)) BY <1>8 DEF Unary, s32
  <2>. QED BY <1>2, <1>3, <2>1, <2>2
<1>9. CASE m = "cntlzw"
  <2>1. Guest!Unary(m, a) = Guest!LeadingZeros(W, a) BY <1>9 DEF Guest!Unary
  <2>2. Unary(m, a) = clz(W, Low(W, a)) BY <1>9 DEF Unary, u32
  <2>. QED BY <1>2, <1>4, <1>5, <2>1, <2>2 DEF Widths32
<1>10. CASE m = "cntlzd"
  <2>1. Guest!Unary(m, a) = Guest!LeadingZeros(0, a) BY <1>10 DEF Guest!Unary
  <2>2. Low(2 * W, a) = a /\ Top + 1 - 2 * W = 0
    BY InRegister, Width DEF Register, DWord, Low
  <2>3. Unary(m, a) = clz(2 * W, Low(2 * W, a)) BY <1>10, <2>2 DEF Unary
  <2>. QED BY <1>4, <1>5, <2>1, <2>2, <2>3 DEF Widths32
<1>11. CASE m = "mr" BY <1>11 DEF Unary, Guest!Unary
<1>12. CASE m = "not"
  <2> DEFINE S == (0 .. Top) \ Guest!Has(a)
  <2>1. Guest!Unary(m, a) = Guest!Of(S) /\ Unary(m, a) = Not(a)
    BY <1>1, <1>12 DEF Guest!Unary, Unary
  <2>2. Not(a) \in Register BY OnNot
  <2>3. ASSUME NEW k \in 0 .. Top
        PROVE  On(Not(a), k) <=> Top - k \in S
    <3>1. Top - k \in 0 .. Top /\ Top - (Top - k) = k BY Width
    <3>2. Top - k \in Guest!Has(a) <=> On(a, k) BY <3>1, HasIs
    <3>3. On(Not(a), k) <=> ~On(a, k) BY OnNot
    <3>. QED BY <3>1, <3>2, <3>3
  <2>4. Guest!Of(S) = Not(a)
    <3>1. S \in SUBSET (0 .. Top) OBVIOUS
    <3> HIDE DEF S
    <3>. QED BY <2>2, <2>3, <3>1, IsOf
  <2>. QED BY <2>1, <2>2, <2>4
<1>. QED BY <1>6, <1>7, <1>8, <1>9, <1>10, <1>11, <1>12 DEF Unaries

-----------------------------------------------------------------------------
(* Masks.                                                                   *)

\* The number with the bits from m to n set.
LEMMA OnesFrom ==
  ASSUME NEW m \in 0 .. Top + 1
  PROVE  LET x == IF m = Top + 1 THEN 0 ELSE (DWord - 1) \div 2 ^ m
         IN  x \in Register /\ \A k \in 0 .. Top : On(x, k) <=> Top - k >= m
<1> DEFINE y == (DWord - 1) \div 2 ^ m
<1>1. m \in Nat /\ Top \in Nat /\ Top + 1 \in Nat BY Width
<1>2. CASE m = Top + 1
  <2>1. \A k \in 0 .. Top : ~(Top - k >= m) BY <1>1, <1>2
  <2>. QED BY <1>2, <2>1, ZeroRegister
<1>3. CASE m # Top + 1
  <2>1. DWord - 1 \in Nat /\ DWord - 1 \in Int /\ 2 ^ m \in Nat \ {0}
    BY <1>1, Width, PowerPositive
  <2>2. y \in Nat /\ y <= DWord - 1 BY <2>1, QuotientBound
  <2>3. y \in Register
    <3> HIDE DEF y
    <3>. QED BY <2>1, <2>2, Width DEF Register
  <2>4. ASSUME NEW k \in 0 .. Top
        PROVE  On(y, k) <=> Top - k >= m
    <3>1. k \in Nat /\ m + k \in Nat BY <1>1
    <3>2. On(y, k) <=> On(DWord - 1, m + k) BY <1>1, <2>1, <3>1, OnHigh
    <3>3. On(2 ^ (Top + 1) - 1, m + k) <=> m + k < Top + 1 BY <1>1, <3>1, OnOnes
    <3>4. DWord = 2 ^ (Top + 1) BY Width
    <3>5. On(DWord - 1, m + k) <=> m + k < Top + 1 BY <3>3, <3>4
    <3>6. m + k < Top + 1 <=> Top - k >= m BY <1>1
    <3>. QED BY <3>2, <3>5, <3>6
  <2>. QED BY <1>3, <2>3, <2>4
<1>. QED BY <1>2, <1>3

\* The translator's mask is the console's, also one that wraps from the last bit to the first.
LEMMA MaskAgrees ==
  ASSUME NEW from \in 0 .. Top, NEW to \in 0 .. Top
  PROVE  /\ ComputeMask(from, to) \in Register
         /\ \A k \in 0 .. Top : On(ComputeMask(from, to), k) <=> Top - k \in Guest!Mask(from, to)
<1> DEFINE x == (DWord - 1) \div 2 ^ from
           y == IF to >= 2 * W - 1 THEN 0 ELSE (DWord - 1) \div 2 ^ (to + 1)
           value == Xor(x, y)
<1>1. from \in 0 .. Top + 1 /\ to + 1 \in 0 .. Top + 1 /\ from # Top + 1 /\ Top \in Nat
      /\ from \in Nat /\ to \in Nat
  BY Width
<1>2. x \in Register /\ \A k \in 0 .. Top : On(x, k) <=> Top - k >= from
  BY <1>1, OnesFrom
<1>3. y \in Register /\ \A k \in 0 .. Top : On(y, k) <=> Top - k >= to + 1
  <2>1. y = IF to + 1 = Top + 1 THEN 0 ELSE (DWord - 1) \div 2 ^ (to + 1)
    BY <1>1 DEF Top
  <2>2. LET z == IF to + 1 = Top + 1 THEN 0 ELSE (DWord - 1) \div 2 ^ (to + 1)
        IN  z \in Register /\ \A k \in 0 .. Top : On(z, k) <=> Top - k >= to + 1
    BY <1>1, OnesFrom
  <2> HIDE DEF y
  <2>. QED BY <2>1, <2>2
<1>4. ComputeMask(from, to) = IF from <= to THEN value ELSE Not(value)
  BY DEF ComputeMask
<1> HIDE DEF x, y
<1>5. value \in Register /\ \A k \in 0 .. Top : On(value, k) <=> ~(On(x, k) <=> On(y, k))
  BY <1>2, <1>3, BitOperations
<1>6. Guest!Mask(from, to) = IF from <= to THEN from .. to ELSE (0 .. to) \cup (from .. Top)
  BY GuestWords DEF Guest!Mask
<1>7. CASE from <= to
  <2>1. ASSUME NEW k \in 0 .. Top
        PROVE  On(value, k) <=> Top - k \in from .. to
    <3>1. On(value, k) <=> ~(Top - k >= from <=> Top - k >= to + 1)
      BY <1>2, <1>3, <1>5
    <3>. QED BY <1>1, <1>7, <3>1
  <2>. QED BY <1>4, <1>5, <1>6, <1>7, <2>1
<1>8. CASE ~(from <= to)
  <2>1. Not(value) \in Register BY <1>5, OnNot
  <2>2. ASSUME NEW k \in 0 .. Top
        PROVE  On(Not(value), k) <=> Top - k \in (0 .. to) \cup (from .. Top)
    <3>1. On(value, k) <=> ~(Top - k >= from <=> Top - k >= to + 1)
      BY <1>2, <1>3, <1>5
    <3>2. On(Not(value), k) <=> ~On(value, k) BY <1>5, OnNot
    <3>3. Top - k \in 0 .. Top BY <1>1
    <3>. QED BY <1>1, <1>8, <3>1, <3>2, <3>3
  <2>. QED BY <1>4, <1>6, <1>8, <2>1, <2>2
<1>. QED BY <1>7, <1>8

\* One register under a mask, over another.
LEMMA UnderIs ==
  ASSUME NEW mask, NEW x \in Register, NEW y \in Register, NEW z \in Register,
         \A k \in 0 .. Top : On(z, k) <=> (IF Top - k \in mask THEN On(x, k) ELSE On(y, k))
  PROVE  Guest!Under(mask, x, y) = z
<1> DEFINE S == (Guest!Has(x) \cap mask) \cup (Guest!Has(y) \ mask)
<1>1. Guest!Under(mask, x, y) = Guest!Of(S) BY DEF Guest!Under
<1>2. S \in SUBSET (0 .. Top) BY HasIs
<1>3. ASSUME NEW k \in 0 .. Top
      PROVE  On(z, k) <=> Top - k \in S
  <2>1. Top - k \in 0 .. Top /\ Top - (Top - k) = k BY Width
  <2>2. (Top - k \in Guest!Has(x) <=> On(x, k)) /\ (Top - k \in Guest!Has(y) <=> On(y, k))
    BY <2>1, HasIs
  <2>. QED BY <2>2
<1> HIDE DEF S
<1>. QED BY <1>1, <1>2, <1>3, IsOf

-----------------------------------------------------------------------------
(* Rotations.                                                               *)

\* Where a bit of a number of N bits came from when it was rotated by n.
Source(k, n, N) == IF k >= n THEN k - n ELSE k - n + N

\* A rotation moves every bit by n places, around the end.
LEMMA RotatedSet ==
  ASSUME NEW N \in Nat \ {0}, NEW n \in 0 .. N - 1, NEW S \in SUBSET (0 .. N - 1),
         NEW k \in 0 .. N - 1
  PROVE  /\ Source(k, n, N) \in 0 .. N - 1
         /\ k \in {(j + n) % N : j \in S} <=> Source(k, n, N) \in S
<1>1. ASSUME NEW j \in 0 .. N - 1
      PROVE  (j + n) % N = IF j + n < N THEN j + n ELSE j + n - N
  <2>1. \A M \in Nat \ {0} : \A u \in Int : \A v \in 0 .. M - 1 : (u * M + v) % M = v
    BY Division
  <2>2. 0 \in Int /\ 1 \in Int /\ 0 * N = 0 /\ 1 * N = N OBVIOUS
  <2>3. CASE j + n < N
    <3>1. j + n \in 0 .. N - 1 /\ 0 * N + (j + n) = j + n BY <2>3
    <3>2. (0 * N + (j + n)) % N = j + n BY <2>1, <2>2, <3>1
    <3>. QED BY <2>3, <3>1, <3>2
  <2>4. CASE ~(j + n < N)
    <3>1. j + n - N \in 0 .. N - 1 /\ 1 * N + (j + n - N) = j + n BY <2>4
    <3>2. (1 * N + (j + n - N)) % N = j + n - N BY <2>1, <2>2, <3>1
    <3>. QED BY <2>4, <3>1, <3>2
  <2>. QED BY <2>3, <2>4
<1>2. Source(k, n, N) \in 0 .. N - 1 BY DEF Source
<1>3. (Source(k, n, N) + n) % N = k BY <1>1, <1>2 DEF Source
<1>4. ASSUME NEW j \in S, k = (j + n) % N
      PROVE  j = Source(k, n, N)
  BY <1>1, <1>4 DEF Source
<1>. QED BY <1>2, <1>3, <1>4

\* The bits of a number whose set of bits is rotated.
LEMMA RotatedBits ==
  ASSUME NEW N \in Widths32, NEW n \in 0 .. N - 1, NEW x \in 0 .. 2 ^ N - 1
  PROVE  LET y == NumberOf[{(k + n) % N : k \in BitsOf[x]}]
         IN  /\ y \in Register
             /\ \A k \in 0 .. Top : On(y, k) <=> k < N /\ On(x, Source(k, n, N))
<1> DEFINE S == BitsOf[x]
           T == {(k + n) % N : k \in S}
<1>1. N \in Nat \ {0} /\ N <= Top + 1 /\ N <= 2 * W /\ Top \in Nat
  BY Width DEF Widths32
<1>2. x \in Register BY <1>1, PartOfRegister
<1>3. S = {k \in 0 .. Top : On(x, k)} BY <1>2, BitsAre
<1>4. S \in SUBSET (0 .. N - 1)
  <2>1. ASSUME NEW k \in S PROVE k \in 0 .. N - 1
    <3>1. k \in 0 .. Top /\ On(x, k) BY <1>3
    <3>2. ~(k >= N) BY <1>1, <3>1, OnSmall
    <3>. QED BY <1>1, <3>1, <3>2
  <2>. QED BY <2>1
<1> HIDE DEF S
<1>5. \A k \in 0 .. N - 1 : k \in T <=> Source(k, n, N) \in S
  BY <1>1, <1>4, RotatedSet
<1>6. T \in SUBSET (0 .. N - 1) BY <1>1, <1>4
<1> HIDE DEF T
<1>7. T \in SUBSET (0 .. Top) BY <1>1, <1>6
<1>8. NumberOf[T] \in Register /\ \A k \in 0 .. Top : On(NumberOf[T], k) <=> k \in T
  BY <1>7, NumberOn
<1>9. ASSUME NEW k \in 0 .. Top
      PROVE  On(NumberOf[T], k) <=> k < N /\ On(x, Source(k, n, N))
  <2>1. CASE k < N
    <3>1. k \in 0 .. N - 1 BY <1>1, <2>1
    <3>2. Source(k, n, N) \in 0 .. N - 1 BY <1>1, <3>1 DEF Source
    <3>3. Source(k, n, N) \in 0 .. Top BY <1>1, <3>2
    <3>. QED BY <1>3, <1>5, <1>8, <2>1, <3>1, <3>3
  <2>2. CASE ~(k < N)
    <3>1. k \notin 0 .. N - 1 BY <1>1, <2>2
    <3>2. k \notin T BY <1>6, <3>1
    <3>. QED BY <1>8, <2>2, <3>2
  <2>. QED BY <2>1, <2>2
<1>. QED BY <1>8, <1>9 DEF S, T

\* The host's rotation of a register.
LEMMA Rotate64 ==
  ASSUME NEW x \in Register, NEW n \in 0 .. Top
  PROVE  /\ rotateleft64(x, n) \in Register
         /\ \A k \in 0 .. Top : On(rotateleft64(x, n), k) <=> On(x, Source(k, n, 2 * W))
<1>1. 2 * W \in Widths32 /\ 2 * W - 1 = Top /\ 2 ^ (2 * W) = DWord
  BY DEF Widths32, Top, DWord
<1>2. n \in 0 .. 2 * W - 1 /\ x \in 0 .. 2 ^ (2 * W) - 1 BY <1>1 DEF Register
<1>3. \A k \in 0 .. Top : k < 2 * W BY Width
<1>4. rotateleft64(x, n) = NumberOf[{(k + n) % (2 * W) : k \in BitsOf[x]}]
  BY DEF rotateleft64
<1>. QED BY <1>1, <1>2, <1>3, <1>4, RotatedBits

\* Rotations of a register and of a word doubled into one.
LEMMA RotateLeftAgrees ==
  ASSUME NEW x \in Register, NEW n \in 0 .. Top
  PROVE  Guest!RotateLeft(x, n) = rotateleft64(x, n)
<1> DEFINE N == 2 * W
           S == {(p - n) % N : p \in Guest!Has(x)}
<1>1. N \in Nat \ {0} /\ N = Top + 1 /\ Top \in Nat BY Width
<1>2. ASSUME NEW p \in 0 .. Top
      PROVE  (p - n) % N = IF p >= n THEN p - n ELSE p - n + N
  <2> HIDE DEF N
  <2>1. \A M \in Nat \ {0} : \A u \in Int : \A v \in 0 .. M - 1 : (u * M + v) % M = v
    BY Division
  <2>2. 0 \in Int /\ -1 \in Int /\ 0 * N = 0 /\ (-1) * N = -N BY <1>1
  <2>3. CASE p >= n
    <3>1. p - n \in 0 .. N - 1 /\ 0 * N + (p - n) = p - n BY <1>1, <2>3
    <3>2. (0 * N + (p - n)) % N = p - n BY <1>1, <2>1, <2>2, <3>1
    <3>. QED BY <2>3, <3>1, <3>2
  <2>4. CASE ~(p >= n)
    <3>1. p - n + N \in 0 .. N - 1 /\ (-1) * N + (p - n + N) = p - n
      BY <1>1, <2>4
    <3>2. ((-1) * N + (p - n + N)) % N = p - n + N BY <1>1, <2>1, <2>2, <3>1
    <3>. QED BY <2>4, <3>1, <3>2
  <2>. QED BY <2>3, <2>4
<1>3. Guest!RotateLeft(x, n) = Guest!Of(S) BY DEF Guest!RotateLeft
<1>4. /\ rotateleft64(x, n) \in Register
      /\ \A k \in 0 .. Top : On(rotateleft64(x, n), k) <=> On(x, Source(k, n, N))
  BY Rotate64
<1>5. Guest!Has(x) \in SUBSET (0 .. Top) /\ \A p \in 0 .. Top : p \in Guest!Has(x) <=> On(x, Top - p)
  BY HasIs
<1> HIDE DEF N
<1>6. S \in SUBSET (0 .. Top)
  <2>1. ASSUME NEW p \in Guest!Has(x) PROVE (p - n) % N \in 0 .. Top
    <3>1. p \in 0 .. Top BY <1>5
    <3>. QED BY <1>1, <1>2, <3>1
  <2>. QED BY <2>1
<1>7. ASSUME NEW k \in 0 .. Top
      PROVE  On(rotateleft64(x, n), k) <=> Top - k \in S
  <2> DEFINE p == Top - Source(k, n, N)
  <2>1. p \in 0 .. Top /\ Top - p = Source(k, n, N) /\ (p - n) % N = Top - k
    BY <1>1, <1>2 DEF Source
  <2>2. On(x, Source(k, n, N)) <=> p \in Guest!Has(x) BY <1>5, <2>1
  <2>3. p \in Guest!Has(x) => Top - k \in S BY <2>1
  <2>4. ASSUME NEW q \in Guest!Has(x), Top - k = (q - n) % N PROVE q = p
    <3>1. q \in 0 .. Top BY <1>5
    <3>. QED BY <1>1, <1>2, <2>4, <3>1 DEF Source
  <2> HIDE DEF p
  <2>5. Top - k \in S => p \in Guest!Has(x) BY <2>4
  <2>. QED BY <1>4, <2>2, <2>3, <2>5
<1> HIDE DEF S
<1>. QED BY <1>3, <1>4, <1>6, <1>7, IsOf

\* A word twice, in both halves of a register.
LEMMA TwiceAgrees ==
  ASSUME NEW a \in Register
  PROVE  LET twice == u32(a) + Word * u32(a)
         IN  /\ twice \in Register
             /\ \A k \in 0 .. Top : On(twice, k) <=> On(a, IF k < W THEN k ELSE k - W)
             /\ Guest!Twice(a) = twice
<1> DEFINE y == u32(a)
           x == y * Word + y
<1>1. W \in Nat /\ W >= 4 /\ Top + 1 = 2 * W /\ Top \in Nat /\ a \in Int /\ Word \in Nat /\ Word >= 16
  BY Width DEF Register
<1>2. y \in 0 .. Word - 1
  <2>1. W <= 2 * W BY <1>1
  <2>. QED BY <1>1, <2>1, LowIsRegister DEF u32, Word
<1>3. x = y + Word * y /\ x \in 0 .. DWord - 1
  <2> HIDE DEF y
  <2>1. y * Word = Word * y /\ y * Word \in Nat BY <1>1, <1>2
  <2>2. y * Word <= (Word - 1) * Word BY <1>1, <1>2
  <2>3. (Word - 1) * Word = DWord - Word /\ DWord \in Nat BY <1>1, Width
  <2>. QED BY <1>1, <1>2, <2>1, <2>2, <2>3
<1>4. ASSUME NEW k \in 0 .. Top
      PROVE  On(x, k) <=> On(a, IF k < W THEN k ELSE k - W)
  <2>1. On(y * 2 ^ W + y, k) <=> (IF k < W THEN On(y, k) ELSE On(y, k - W))
    <3>1. y \in Int /\ k \in Nat /\ y \in 0 .. 2 ^ W - 1 BY <1>1, <1>2 DEF Word
    <3>. QED BY <1>1, <3>1, OnJoined
  <2>2. k < W => (On(a % 2 ^ W, k) <=> k < W /\ On(a, k)) BY <1>1, OnLow
  <2>3. ~(k < W) => k - W \in Nat /\ k - W < W BY <1>1
  <2>4. ~(k < W) => (On(a % 2 ^ W, k - W) <=> k - W < W /\ On(a, k - W))
    BY <1>1, <2>3, OnLow
  <2>5. y = a % 2 ^ W /\ x = y * 2 ^ W + y BY DEF u32, Low, Word
  <2> HIDE DEF x, y
  <2>. QED BY <2>1, <2>2, <2>3, <2>4, <2>5
<1>5. x \in Register BY <1>3 DEF Register
<1> DEFINE S == {p \in 0 .. Top : (p % W) + W \in Guest!Has(a)}
<1>6. Guest!Twice(a) = Guest!Of(S) BY GuestWords DEF Guest!Twice
<1> HIDE DEF x, y
<1>7. ASSUME NEW k \in 0 .. Top
      PROVE  On(x, k) <=> Top - k \in S
  <2> DEFINE p == Top - k
             q == IF p < W THEN p ELSE p - W
  <2>1. p \in 0 .. Top /\ q \in 0 .. W - 1 /\ q + W \in 0 .. Top
        /\ Top - (q + W) = IF k < W THEN k ELSE k - W
    BY <1>1
  <2>2. p % W = q
    <3>1. \A M \in Nat \ {0} : \A u \in Int : \A v \in 0 .. M - 1 : (u * M + v) % M = v
      BY Division
    <3>2. W \in Nat \ {0} /\ 0 \in Int /\ 1 \in Int /\ 0 * W + q = q /\ 1 * W + q = q + W
      BY <1>1, <2>1
    <3> HIDE DEF q
    <3>3. (0 * W + q) % W = q /\ (1 * W + q) % W = q BY <2>1, <3>1, <3>2
    <3>4. q % W = q /\ (q + W) % W = q BY <3>2, <3>3, Zenon
    <3>5. p = q \/ p = q + W BY <1>1 DEF q
    <3>. QED BY <3>4, <3>5
  <2>3. q + W \in Guest!Has(a) <=> On(a, Top - (q + W)) BY <2>1, HasIs
  <2> HIDE DEF q
  <2>4. Top - k \in S <=> On(a, IF k < W THEN k ELSE k - W) BY <2>1, <2>2, <2>3
  <2>. QED BY <1>4, <2>4
<1>8. S \in SUBSET (0 .. Top) OBVIOUS
<1> HIDE DEF S
<1>9. Guest!Of(S) = x BY <1>5, <1>7, <1>8, IsOf
<1>10. \A k \in 0 .. Top : On(x, k) <=> On(a, IF k < W THEN k ELSE k - W)
  BY <1>4
<1>. QED BY <1>3, <1>5, <1>6, <1>9, <1>10 DEF y

\* A number under a mask, alone or inserted into another.
LEMMA MaskedIs ==
  ASSUME NEW x \in Register, NEW y \in Register, NEW from \in 0 .. Top, NEW to \in 0 .. Top
  PROVE  LET m == ComputeMask(from, to)
         IN  /\ And(x, m) \in Register
             /\ Guest!Under(Guest!Mask(from, to), x, 0) = And(x, m)
             /\ Or(And(x, m), And(y, Not(m))) \in Register
             /\ Guest!Under(Guest!Mask(from, to), x, y) = Or(And(x, m), And(y, Not(m)))
<1> DEFINE m == ComputeMask(from, to)
           s == Guest!Mask(from, to)
<1>1. m \in Register /\ \A k \in 0 .. Top : On(m, k) <=> Top - k \in s
  BY MaskAgrees
<1> HIDE DEF m, s
<1>2. Not(m) \in Register /\ \A k \in 0 .. Top : On(Not(m), k) <=> ~On(m, k)
  BY <1>1, OnNot
<1>3. And(x, m) \in Register /\ \A k \in 0 .. Top : On(And(x, m), k) <=> On(x, k) /\ On(m, k)
  BY <1>1, BitOperations
<1>4. /\ And(y, Not(m)) \in Register
      /\ \A k \in 0 .. Top : On(And(y, Not(m)), k) <=> On(y, k) /\ On(Not(m), k)
  BY <1>2, BitOperations
<1> DEFINE z == Or(And(x, m), And(y, Not(m)))
<1>5. z \in Register /\ \A k \in 0 .. Top : On(z, k) <=> On(And(x, m), k) \/ On(And(y, Not(m)), k)
  BY <1>3, <1>4, BitOperations
<1> HIDE DEF z
<1>6. \A k \in 0 .. Top : On(z, k) <=> (IF Top - k \in s THEN On(x, k) ELSE On(y, k))
  BY <1>1, <1>2, <1>3, <1>4, <1>5
<1>7. Guest!Under(s, x, y) = z BY <1>5, <1>6, UnderIs
<1>8. 0 \in Register /\ \A k \in 0 .. Top : ~On(0, k) BY ZeroRegister
<1>9. \A k \in 0 .. Top : On(And(x, m), k) <=> (IF Top - k \in s THEN On(x, k) ELSE On(0, k))
  BY <1>1, <1>3, <1>8
<1>10. Guest!Under(s, x, 0) = And(x, m) BY <1>3, <1>8, <1>9, UnderIs
<1>. QED BY <1>3, <1>5, <1>7, <1>10 DEF m, s, z

\* A number of a register or of its low word, cut to its low bits.
LEMMA ClearedIs ==
  ASSUME NEW B \in Widths32, NEW mb \in 0 .. B - 1, NEW a \in Register
  PROVE  LET x == And(Low(B, a), 2 ^ (B - mb) - 1)
         IN  /\ x \in Register
             /\ Guest!Under(Guest!Mask(mb + (Top + 1 - B), Top), a, 0) = x
<1> DEFINE y == Low(B, a)
           o == 2 ^ (B - mb) - 1
           from == mb + (Top + 1 - B)
<1>1. /\ B \in Nat /\ B <= 2 * W /\ a \in Int /\ B - mb \in Nat /\ B - mb <= 2 * W /\ B - mb <= B
      /\ Top \in Nat /\ from \in 0 .. Top /\ Top + 1 - from = B - mb
  BY Width DEF Widths32, Register
<1>2. y \in Register BY <1>1, LowIsRegister
<1>3. o \in Register /\ \A k \in 0 .. Top : On(o, k) <=> k < B - mb
  <2>1. 2 ^ (B - mb) \in Nat \ {0} BY <1>1, PowerPositive
  <2>2. o \in 0 .. 2 ^ (B - mb) - 1
    <3> DEFINE P == 2 ^ (B - mb)
    <3>1. P - 1 \in 0 .. P - 1
      <4> HIDE DEF P
      <4>. QED BY <2>1 DEF P
    <3>. QED BY <3>1
  <2>3. o \in Register BY <1>1, <2>2, PartOfRegister
  <2>4. \A k \in 0 .. Top : k \in Nat OBVIOUS
  <2>. QED BY <1>1, <2>3, <2>4, OnOnes
<1> HIDE DEF o, y
<1>4. And(y, o) \in Register /\ \A k \in 0 .. Top : On(And(y, o), k) <=> On(y, k) /\ On(o, k)
  BY <1>2, <1>3, BitOperations
<1>5. \A k \in 0 .. Top : On(y, k) <=> k < B /\ On(a, k)
  <2>1. \A k \in 0 .. Top : k \in Nat OBVIOUS
  <2>2. \A k \in 0 .. Top : On(a % 2 ^ B, k) <=> k < B /\ On(a, k)
    BY <1>1, <2>1, OnLow
  <2>. QED BY <2>2 DEF y, Low
<1>6. Guest!Mask(from, Top) = from .. Top
  <2>1. from <= Top BY <1>1
  <2> HIDE DEF from
  <2>. QED BY <2>1 DEF Guest!Mask
<1>7. ASSUME NEW k \in 0 .. Top
      PROVE  On(And(y, o), k) <=> (IF Top - k \in from .. Top THEN On(a, k) ELSE On(0, k))
  <2>1. Top - k \in from .. Top <=> k < B - mb BY <1>1
  <2>2. k < B - mb => k < B BY <1>1
  <2> HIDE DEF from
  <2>3. ~On(0, k) BY ZeroRegister
  <2>. QED BY <1>3, <1>4, <1>5, <2>1, <2>2, <2>3
<1> HIDE DEF from
<1>8. Guest!Under(from .. Top, a, 0) = And(y, o)
  <2> DEFINE s == from .. Top
             z == And(y, o)
  <2>1. \A k \in 0 .. Top : On(z, k) <=> (IF Top - k \in s THEN On(a, k) ELSE On(0, k))
    BY <1>7
  <2>2. z \in Register /\ 0 \in Register BY <1>4, ZeroRegister
  <2> HIDE DEF s, z
  <2>3. Guest!Under(s, a, 0) = z BY <2>1, <2>2, UnderIs
  <2>. QED BY <2>3 DEF s, z
<1>. QED BY <1>4, <1>6, <1>8 DEF from, y, o

\* A rotated word in the low half of a register is the low half of the rotated
\* word twice.
LEMMA Rotate32 ==
  ASSUME NEW a \in Register, NEW n \in 0 .. W - 1
  PROVE  LET twice == u32(a) + Word * u32(a)
         IN  /\ rotateleft32(u32(a), n) \in Register
             /\ \A k \in 0 .. Top : On(rotateleft32(u32(a), n), k)
                                    <=> k < W /\ On(rotateleft64(twice, n), k)
<1> DEFINE twice == u32(a) + Word * u32(a)
           y == u32(a)
<1>1. W \in Nat /\ W >= 4 /\ Top + 1 = 2 * W /\ Top \in Nat /\ a \in Int /\ W <= 2 * W
  BY Width DEF Register
<1>2. y \in 0 .. 2 ^ W - 1 BY <1>1, LowIsRegister DEF u32
<1>3. W \in Widths32 BY DEF Widths32
<1>4. rotateleft32(y, n) = NumberOf[{(k + n) % W : k \in BitsOf[y]}]
  BY DEF rotateleft32
<1>5. /\ rotateleft32(y, n) \in Register
      /\ \A k \in 0 .. Top : On(rotateleft32(y, n), k) <=> k < W /\ On(y, Source(k, n, W))
  <2> HIDE DEF y
  <2>. QED BY <1>2, <1>3, <1>4, RotatedBits
<1>6. twice \in Register /\ \A k \in 0 .. Top : On(twice, k) <=> On(a, IF k < W THEN k ELSE k - W)
  BY TwiceAgrees
<1> HIDE DEF twice
<1>7. n \in 0 .. Top BY <1>1
<1>8. \A k \in 0 .. Top : On(rotateleft64(twice, n), k) <=> On(twice, Source(k, n, 2 * W))
  BY <1>6, <1>7, Rotate64
<1>9. ASSUME NEW k \in 0 .. Top, k < W
      PROVE  On(y, Source(k, n, W)) <=> On(twice, Source(k, n, 2 * W))
  <2> DEFINE j == Source(k, n, 2 * W)
             i == Source(k, n, W)
  <2>1. j \in 0 .. Top /\ i \in Nat /\ i < W /\ i = IF j < W THEN j ELSE j - W
    BY <1>1, <1>9 DEF Source
  <2> HIDE DEF i, j
  <2>2. On(twice, j) <=> On(a, i) BY <1>6, <2>1
  <2>3. On(a % 2 ^ W, i) <=> i < W /\ On(a, i) BY <1>1, <2>1, OnLow
  <2>. QED BY <2>1, <2>2, <2>3 DEF i, j, u32, Low
<1> HIDE DEF y
<1>10. \A k \in 0 .. Top : On(rotateleft32(y, n), k) <=> k < W /\ On(rotateleft64(twice, n), k)
  BY <1>5, <1>8, <1>9
<1>. QED BY <1>5, <1>10 DEF twice, y

\* The operands of a rotation: a count, and the first and last position of a
\* mask, of a doubleword or of a word. A mask of rlwimi does not wrap around.
RotationField(m, i) ==
  LET last == IF m \in {"rldicl", "rldicr", "rldimi", "rotldi", "clrldi"} THEN Top ELSE W - 1
  IN  /\ i.sh \in 0 .. last /\ i.mb \in 0 .. last /\ i.me \in 0 .. last
      /\ m = "rlwimi" => i.mb <= i.me

\* rlwinm, rlwimi, rlwnm, the rotations of a register and the clears, for fields that have room.
LEMMA RotationsAgree ==
  ASSUME NEW i, i.m \in Rotations, RotationField(i.m, i.imm),
         NEW a \in Register, NEW b \in Register, NEW old \in Register
  PROVE  /\ Rotate(i.m, a, b, old, i.imm) \in Register
         /\ Guest!Rotated(i, a, b, old) = Rotate(i.m, a, b, old, i.imm)
<1> DEFINE f == i.imm
           m32 == ComputeMask(f.mb + W, f.me + W)
           mimi == ComputeMask(f.mb, Top - f.sh)
           s32_ == Guest!Mask(f.mb + W, f.me + W)
           simi == Guest!Mask(f.mb, Top - f.sh)
           twice == u32(a) + Word * u32(a)
           x == Rotate(i.m, a, b, old, f)
           g == Guest!Rotated(i, a, b, old)
<1>1. W \in Nat /\ W >= 4 /\ Top + 1 = 2 * W /\ Top \in Nat /\ b \in Int /\ 2 * W - 1 = Top
  BY Width DEF Register
<1>2. b % W \in 0 .. W - 1 BY <1>1
<1>3. Guest!Last = Top BY GuestWords
<1>4. twice \in Register /\ Guest!Twice(a) = twice BY TwiceAgrees
<1>5. \A n \in 0 .. Top : /\ rotateleft64(a, n) \in Register
                          /\ Guest!RotateLeft(a, n) = rotateleft64(a, n)
                          /\ rotateleft64(twice, n) \in Register
                          /\ Guest!RotateLeft(twice, n) = rotateleft64(twice, n)
  <2> HIDE DEF twice
  <2>. QED BY <1>4, Rotate64, RotateLeftAgrees
<1>6. \A n \in 0 .. W - 1 :
          LET y == rotateleft32(u32(a), n)
          IN  /\ y \in Register
              /\ \A k \in 0 .. Top : On(y, k) <=> k < W /\ On(rotateleft64(twice, n), k)
  BY Rotate32
<1>7. \A y, z \in Register : \A p, q \in 0 .. Top :
          LET m == ComputeMask(p, q)
          IN  /\ And(y, m) \in Register
              /\ Guest!Under(Guest!Mask(p, q), y, 0) = And(y, m)
              /\ Or(And(y, m), And(z, Not(m))) \in Register
              /\ Guest!Under(Guest!Mask(p, q), y, z) = Or(And(y, m), And(z, Not(m)))
  BY MaskedIs
<1> HIDE DEF twice
<1>20. ASSUME NEW y, y = a \/ y = twice, NEW n \in 0 .. Top, NEW p \in 0 .. Top, NEW q \in 0 .. Top
       PROVE  LET v == rotateleft64(y, n)
                  m == ComputeMask(p, q)
              IN  /\ And(v, m) \in Register
                  /\ Guest!Under(Guest!Mask(p, q), Guest!RotateLeft(y, n), 0) = And(v, m)
                  /\ Or(And(v, m), And(old, Not(m))) \in Register
                  /\ Guest!Under(Guest!Mask(p, q), Guest!RotateLeft(y, n), old)
                       = Or(And(v, m), And(old, Not(m)))
  <2> DEFINE v == rotateleft64(y, n)
             m == ComputeMask(p, q)
             s == Guest!Mask(p, q)
  <2>1. v \in Register /\ Guest!RotateLeft(y, n) = v BY <1>5, <1>20
  <2>2. \A v1, z \in Register : /\ And(v1, m) \in Register
                               /\ Guest!Under(s, v1, 0) = And(v1, m)
                               /\ Or(And(v1, m), And(z, Not(m))) \in Register
                               /\ Guest!Under(s, v1, z) = Or(And(v1, m), And(z, Not(m)))
    BY <1>7
  <2>. QED
    <3> HIDE DEF v, m, s
    <3>3. /\ And(v, m) \in Register
          /\ Guest!Under(s, Guest!RotateLeft(y, n), 0) = And(v, m)
          /\ Or(And(v, m), And(old, Not(m))) \in Register
          /\ Guest!Under(s, Guest!RotateLeft(y, n), old) = Or(And(v, m), And(old, Not(m)))
      BY <2>1, <2>2
    <3>. QED BY <3>3 DEF v, m, s
<1>8. CASE i.m = "rldicl"
  <2>1. f.sh \in 0 .. Top /\ f.mb \in 0 .. Top /\ f.me \in 0 .. Top
    BY <1>8 DEF RotationField
  <2>2. x = And(rotateleft64(a, f.sh), ComputeMask(f.mb, Top))
    BY <1>1, <1>8 DEF Rotate
  <2>3. g = Guest!Under(Guest!Mask(f.mb, Top), Guest!RotateLeft(a, f.sh), 0)
    BY <1>3, <1>8 DEF Guest!Rotated
  <2>4. Top \in 0 .. Top BY <1>1
  <2>5. And(rotateleft64(a, f.sh), ComputeMask(f.mb, Top)) \in Register
        /\ Guest!Under(Guest!Mask(f.mb, Top), Guest!RotateLeft(a, f.sh), 0)
             = And(rotateleft64(a, f.sh), ComputeMask(f.mb, Top))
    BY <1>20, <2>1, <2>4
  <2>9. x \in Register /\ g = x BY <2>2, <2>3, <2>5
  <2>. QED BY <2>9
<1>9. CASE i.m = "rldicr"
  <2>1. f.sh \in 0 .. Top /\ f.mb \in 0 .. Top /\ f.me \in 0 .. Top
    BY <1>9 DEF RotationField
  <2>2. x = And(rotateleft64(a, f.sh), ComputeMask(0, f.me)) BY <1>9 DEF Rotate
  <2>3. g = Guest!Under(Guest!Mask(0, f.me), Guest!RotateLeft(a, f.sh), 0)
    BY <1>9 DEF Guest!Rotated
  <2>4. 0 \in 0 .. Top BY <1>1
  <2>5. And(rotateleft64(a, f.sh), ComputeMask(0, f.me)) \in Register
        /\ Guest!Under(Guest!Mask(0, f.me), Guest!RotateLeft(a, f.sh), 0)
             = And(rotateleft64(a, f.sh), ComputeMask(0, f.me))
    BY <1>20, <2>1, <2>4
  <2>9. x \in Register /\ g = x BY <2>2, <2>3, <2>5
  <2>. QED BY <2>9
<1>10. CASE i.m = "rldimi"
  <2>1. f.sh \in 0 .. Top /\ f.mb \in 0 .. Top /\ f.me \in 0 .. Top
    BY <1>10 DEF RotationField
  <2>2. x = Or(And(rotateleft64(a, f.sh), mimi), And(old, Not(mimi)))
    BY <1>1, <1>10 DEF Rotate
  <2>3. g = Guest!Under(simi, Guest!RotateLeft(a, f.sh), old)
    BY <1>3, <1>10 DEF Guest!Rotated
  <2>4. Top - f.sh \in 0 .. Top BY <1>1, <2>1
  <2>5. Or(And(rotateleft64(a, f.sh), mimi), And(old, Not(mimi))) \in Register
        /\ Guest!Under(simi, Guest!RotateLeft(a, f.sh), old)
             = Or(And(rotateleft64(a, f.sh), mimi), And(old, Not(mimi)))
    BY <1>20, <2>1, <2>4
  <2>9. x \in Register /\ g = x BY <2>2, <2>3, <2>5
  <2>. QED BY <2>9
<1>11. CASE i.m = "rlwimi"
  <2>1. f.sh \in 0 .. W - 1 /\ f.mb \in 0 .. W - 1 /\ f.me \in 0 .. W - 1
    BY <1>11 DEF RotationField
  <2>2. f.sh \in 0 .. Top /\ f.mb + W \in 0 .. Top /\ f.me + W \in 0 .. Top
    BY <1>1, <2>1
  <2> DEFINE y == rotateleft32(u32(a), f.sh)
             z == rotateleft64(twice, f.sh)
  <2>3. x = Or(And(y, m32), And(old, Not(m32))) BY <1>11 DEF Rotate
  <2>4. g = Guest!Under(s32_, z, old)
    <3>1. g = Guest!Under(s32_, Guest!RotateLeft(Guest!Twice(a), f.sh), old)
      BY <1>11 DEF Guest!Rotated
    <3>. QED BY <1>4, <1>5, <2>2, <3>1
  <2>5. y \in Register /\ \A k \in 0 .. Top : On(y, k) <=> k < W /\ On(z, k)
    BY <1>6, <2>1
  <2>6. f.mb <= f.me BY <1>11 DEF RotationField
  <2>7. \A p \in s32_ : p >= W
    <3>1. s32_ = f.mb + W .. f.me + W
      BY <1>1, <2>1, <2>6, SMTT(30) DEF Guest!Mask
    <3>. QED BY <1>1, <2>1, <3>1
  <2>8. m32 \in Register /\ \A k \in 0 .. Top : On(m32, k) <=> Top - k \in s32_
    BY <2>2, MaskAgrees
  <2>9. z \in Register BY <1>5, <2>2
  <2> HIDE DEF y, z, m32, s32_
  <2>10. And(y, m32) \in Register /\ And(z, m32) \in Register
    BY <2>5, <2>8, <2>9, BitOperations
  <2>11. ASSUME NEW k \in 0 .. Top
         PROVE  On(And(y, m32), k) <=> On(And(z, m32), k)
    <3>1. On(And(y, m32), k) <=> On(y, k) /\ On(m32, k)
      BY <2>5, <2>8, BitOperations
    <3>2. On(And(z, m32), k) <=> On(z, k) /\ On(m32, k)
      BY <2>8, <2>9, BitOperations
    <3>3. On(m32, k) => k < W
      <4>1. Top - k \in s32_ => Top - k >= W BY <2>7
      <4>. QED BY <1>1, <2>8, <4>1
    <3>. QED BY <2>5, <3>1, <3>2, <3>3
  <2>12. And(y, m32) = And(z, m32)
    <3>1. BitsOf[And(y, m32)] = BitsOf[And(z, m32)] BY <2>10, <2>11, BitsAre
    <3>. QED BY <2>10, <3>1, SameBits
  <2>13. /\ Or(And(z, m32), And(old, Not(m32))) \in Register
         /\ Guest!Under(s32_, z, old) = Or(And(z, m32), And(old, Not(m32)))
    BY <1>7, <2>2, <2>9, ZenonT(30) DEF m32, s32_
  <2>. QED BY <2>3, <2>4, <2>12, <2>13
<1>12. CASE i.m = "rlwinm"
  <2>1. f.sh \in 0 .. W - 1 /\ f.mb \in 0 .. W - 1 /\ f.me \in 0 .. W - 1
    BY <1>12 DEF RotationField
  <2>2. f.sh \in 0 .. Top /\ f.mb + W \in 0 .. Top /\ f.me + W \in 0 .. Top
    BY <1>1, <2>1
  <2>3. x = And(rotateleft64(twice, f.sh), m32) BY <1>12 DEF Rotate, twice
  <2>4. g = Guest!Under(s32_, Guest!RotateLeft(Guest!Twice(a), f.sh), 0)
    BY <1>12 DEF Guest!Rotated
  <2>5. f.sh \in 0 .. Top BY <1>1, <1>2, <2>1
  <2>6. And(rotateleft64(twice, f.sh), m32) \in Register
        /\ Guest!Under(s32_, Guest!RotateLeft(twice, f.sh), 0) = And(rotateleft64(twice, f.sh), m32)
    BY <1>20, <2>2, <2>5
  <2>9. x \in Register /\ g = x BY <1>4, <2>3, <2>4, <2>6
  <2>. QED BY <2>9
<1>13. CASE i.m = "rlwnm"
  <2>1. f.sh \in 0 .. W - 1 /\ f.mb \in 0 .. W - 1 /\ f.me \in 0 .. W - 1
    BY <1>13 DEF RotationField
  <2>2. f.sh \in 0 .. Top /\ f.mb + W \in 0 .. Top /\ f.me + W \in 0 .. Top
    BY <1>1, <2>1
  <2>3. x = And(rotateleft64(twice, b % W), m32) BY <1>13 DEF Rotate, twice
  <2>4. g = Guest!Under(s32_, Guest!RotateLeft(Guest!Twice(a), b % W), 0)
    BY <1>13 DEF Guest!Rotated
  <2>5. b % W \in 0 .. Top BY <1>1, <1>2, <2>1
  <2>6. And(rotateleft64(twice, b % W), m32) \in Register
        /\ Guest!Under(s32_, Guest!RotateLeft(twice, b % W), 0) = And(rotateleft64(twice, b % W), m32)
    BY <1>20, <2>2, <2>5
  <2>9. x \in Register /\ g = x BY <1>4, <2>3, <2>4, <2>6
  <2>. QED BY <2>9
<1>14. CASE i.m = "rotldi"
  <2>1. f.sh \in 0 .. Top /\ f.mb \in 0 .. Top /\ f.me \in 0 .. Top
    BY <1>14 DEF RotationField
  <2>2. x = rotateleft64(a, f.sh) BY <1>14 DEF Rotate
  <2>3. g = Guest!RotateLeft(a, f.sh) BY <1>14 DEF Guest!Rotated
  <2>9. x \in Register /\ g = x
    <3> HIDE DEF x, g, f
    <3>. QED BY <1>5, <2>1, <2>2, <2>3
  <2>. QED BY <2>9
<1>15. CASE i.m = "rotlw"
  <2>1. f.sh \in 0 .. W - 1 /\ f.mb \in 0 .. W - 1 /\ f.me \in 0 .. W - 1
    BY <1>15 DEF RotationField
  <2>2. f.sh \in 0 .. Top /\ f.mb + W \in 0 .. Top /\ f.me + W \in 0 .. Top
    BY <1>1, <2>1
  <2> DEFINE y == rotateleft32(u32(a), b % W)
             z == rotateleft64(twice, b % W)
  <2>3. x = y BY <1>15 DEF Rotate
  <2>4. b % W \in 0 .. Top /\ b % W \in 0 .. W - 1 BY <1>1, <1>2, <2>1
  <2>5. g = Guest!Under(Guest!Mask(W, Top), z, 0)
    <3>1. g = Guest!Under(Guest!Mask(W, Top), Guest!RotateLeft(Guest!Twice(a), b % W), 0)
      BY <1>3, <1>15 DEF Guest!Rotated
    <3>. QED BY <1>4, <1>5, <2>4, <3>1
  <2>6. y \in Register /\ (\A k \in 0 .. Top : On(y, k) <=> k < W /\ On(z, k)) /\ z \in Register
    BY <1>5, <1>6, <2>4
  <2> HIDE DEF y, z
  <2>7. Guest!Mask(W, Top) = W .. Top BY <1>1 DEF Guest!Mask
  <2>8. \A k \in 0 .. Top : On(y, k) <=> (IF Top - k \in W .. Top THEN On(z, k) ELSE On(0, k))
    <3>1. \A k \in 0 .. Top : Top - k \in W .. Top <=> k < W BY <1>1
    <3>. QED BY <2>6, <3>1, ZeroRegister
  <2>9. Guest!Under(W .. Top, z, 0) = y
    <3> DEFINE s == W .. Top
    <3>1. \A k \in 0 .. Top : On(y, k) <=> (IF Top - k \in s THEN On(z, k) ELSE On(0, k))
      BY <2>8
    <3> HIDE DEF s
    <3>2. Guest!Under(s, z, 0) = y BY <2>6, <3>1, ZeroRegister, UnderIs
    <3>. QED BY <3>2 DEF s
  <2>. QED BY <2>3, <2>5, <2>6, <2>7, <2>9
<1>16. CASE i.m = "rotlwi"
  <2>1. f.sh \in 0 .. W - 1 /\ f.mb \in 0 .. W - 1 /\ f.me \in 0 .. W - 1
    BY <1>16 DEF RotationField
  <2>2. f.sh \in 0 .. Top /\ f.mb + W \in 0 .. Top /\ f.me + W \in 0 .. Top
    BY <1>1, <2>1
  <2> DEFINE y == rotateleft32(u32(a), f.sh)
             z == rotateleft64(twice, f.sh)
  <2>3. x = y BY <1>16 DEF Rotate
  <2>4. f.sh \in 0 .. Top /\ f.sh \in 0 .. W - 1 BY <1>1, <1>2, <2>1
  <2>5. g = Guest!Under(Guest!Mask(W, Top), z, 0)
    <3>1. g = Guest!Under(Guest!Mask(W, Top), Guest!RotateLeft(Guest!Twice(a), f.sh), 0)
      BY <1>3, <1>16 DEF Guest!Rotated
    <3>. QED BY <1>4, <1>5, <2>4, <3>1
  <2>6. y \in Register /\ (\A k \in 0 .. Top : On(y, k) <=> k < W /\ On(z, k)) /\ z \in Register
    BY <1>5, <1>6, <2>4
  <2> HIDE DEF y, z
  <2>7. Guest!Mask(W, Top) = W .. Top BY <1>1 DEF Guest!Mask
  <2>8. \A k \in 0 .. Top : On(y, k) <=> (IF Top - k \in W .. Top THEN On(z, k) ELSE On(0, k))
    <3>1. \A k \in 0 .. Top : Top - k \in W .. Top <=> k < W BY <1>1
    <3>. QED BY <2>6, <3>1, ZeroRegister
  <2>9. Guest!Under(W .. Top, z, 0) = y
    <3> DEFINE s == W .. Top
    <3>1. \A k \in 0 .. Top : On(y, k) <=> (IF Top - k \in s THEN On(z, k) ELSE On(0, k))
      BY <2>8
    <3> HIDE DEF s
    <3>2. Guest!Under(s, z, 0) = y BY <2>6, <3>1, ZeroRegister, UnderIs
    <3>. QED BY <3>2 DEF s
  <2>. QED BY <2>3, <2>5, <2>6, <2>7, <2>9
<1>17. CASE i.m = "clrldi"
  <2>1. f.sh \in 0 .. Top /\ f.mb \in 0 .. Top /\ f.me \in 0 .. Top
    BY <1>17 DEF RotationField
  <2>2. x = And(Low(2 * W, a), 2 ^ (2 * W - f.mb) - 1)
    <3>1. Low(2 * W, a) = a BY InRegister DEF Register, DWord, Low
    <3>. QED BY <1>17, <3>1 DEF Rotate
  <2>3. g = Guest!Under(Guest!Mask(f.mb + (Top + 1 - 2 * W), Top), a, 0)
    <3>1. f.mb + (Top + 1 - 2 * W) = f.mb BY <1>1, <2>1
    <3>. QED BY <1>3, <1>17, <3>1 DEF Guest!Rotated
  <2>4. 2 * W \in Widths32 /\ f.mb \in 0 .. 2 * W - 1 BY <1>1, <2>1 DEF Widths32
  <2>9. x \in Register /\ g = x
    <3> HIDE DEF x, g, f
    <3>. QED BY <2>2, <2>3, <2>4, ClearedIs
  <2>. QED BY <2>9
<1>18. CASE i.m = "clrlwi"
  <2>1. f.sh \in 0 .. W - 1 /\ f.mb \in 0 .. W - 1 /\ f.me \in 0 .. W - 1
    BY <1>18 DEF RotationField
  <2>2. f.sh \in 0 .. Top /\ f.mb + W \in 0 .. Top /\ f.me + W \in 0 .. Top
    BY <1>1, <2>1
  <2>3. x = And(Low(W, a), 2 ^ (W - f.mb) - 1) BY <1>18 DEF Rotate, u32
  <2>4. g = Guest!Under(Guest!Mask(f.mb + (Top + 1 - W), Top), a, 0)
    <3>1. Top + 1 - W = W BY <1>1
    <3>. QED BY <1>3, <1>18, <3>1 DEF Guest!Rotated
  <2>5. W \in Widths32 BY DEF Widths32
  <2>9. x \in Register /\ g = x
    <3> HIDE DEF x, g, f
    <3>. QED BY <2>1, <2>3, <2>4, <2>5, ClearedIs
  <2>. QED BY <2>9
<1>. QED
  BY <1>8, <1>9, <1>10, <1>11, <1>12, <1>13, <1>14, <1>15, <1>16, <1>17, <1>18 DEF Rotations
-----------------------------------------------------------------------------
(* Signed shifts. A count of all bits or more leaves the sign alone.        *)

\* A signed number shifted by more bits than it has is its sign.
LEMMA ShiftedFar ==
  ASSUME NEW H \in Nat \ {0}, NEW C \in Nat \ {0}, C >= H, NEW x \in -H .. H - 1
  PROVE  /\ x \div C = (IF x < 0 THEN -1 ELSE 0)
         /\ x % C = (IF x < 0 THEN x + C ELSE x)
<1>1. \A q \in Int : \A e \in 0 .. C - 1 : (q * C + e) \div C = q /\ (q * C + e) % C = e
  BY Division
<1>2. CASE x < 0
  <2>1. x + C \in 0 .. C - 1 /\ (-1) * C + (x + C) = x /\ -1 \in Int BY <1>2
  <2>. QED BY <1>1, <1>2, <2>1, ZenonT(30)
<1>3. CASE ~(x < 0)
  <2>1. x \in 0 .. C - 1 /\ 0 * C + x = x /\ 0 \in Int BY <1>3
  <2>. QED BY <1>1, <1>3, <2>1, ZenonT(30)
<1>. QED BY <1>2, <1>3

\* A multiple is what division and multiplication give back.
LEMMA Whole ==
  ASSUME NEW x \in Int, NEW P \in Nat \ {0}
  PROVE  (x \div P) * P # x <=> x % P # 0
<1> DEFINE q == x \div P
           e == x % P
<1>1. q \in Int /\ e \in 0 .. P - 1 /\ x = q * P + e BY Remainder
<1> DEFINE z == q * P
<1>2. z \in Int BY <1>1
<1>3. z # x <=> e # 0
  <2>1. x = z + e /\ e \in Int BY <1>1
  <2> HIDE DEF z, e
  <2>. QED BY <1>2, <2>1
<1>. QED BY <1>3

LEMMA SignedLow ==
  ASSUME NEW B \in Nat \ {0}, NEW a \in Int, NEW n \in 0 .. B
  PROVE  Signed(B, a) \in Int /\ Signed(B, a) % 2 ^ n = a % 2 ^ n
<1>1. \A k \in Nat : On(Signed(B, a), k) <=> On(a, IF k < B THEN k ELSE B - 1)
  BY OnSigned
<1>2. Signed(B, a) \in Int
  <2>1. 0 \in Nat OBVIOUS
  <2>. QED BY <2>1, OnSigned
<1>3. \A k \in 0 .. n - 1 : On(Signed(B, a), k) <=> On(a, k) BY <1>1
<1>4. n \in Nat OBVIOUS
<1>. QED BY <1>2, <1>3, <1>4, SameLow

SignedBits(m) == IF m \in {"sraw", "srawi"} THEN W ELSE 2 * W

\* The carry of a signed shift: whether a negative number loses a one.
LEMMA LostBits ==
  ASSUME NEW B \in Widths32, NEW a \in Register, NEW n \in 1 .. B - 1
  PROVE  And(Low(B, a), ComputeMask(2 * W - n, 2 * W - 1)) = a % 2 ^ n
<1> DEFINE m == ComputeMask(2 * W - n, 2 * W - 1)
           s == Guest!Mask(2 * W - n, 2 * W - 1)
           x == And(Low(B, a), m)
           y == a % 2 ^ n
<1>1. /\ B \in Nat /\ B <= 2 * W /\ n \in Nat /\ n <= 2 * W /\ a \in Int
      /\ 2 * W - n \in 0 .. Top /\ 2 * W - 1 \in 0 .. Top /\ Top + 1 = 2 * W /\ Top \in Nat
  BY Width DEF Widths32, Register
<1>2. m \in Register /\ \A k \in 0 .. Top : On(m, k) <=> Top - k \in s
  BY <1>1, MaskAgrees
<1>3. s = 2 * W - n .. Top BY <1>1 DEF Guest!Mask
<1>4. Low(B, a) \in Register /\ y \in Register BY <1>1, LowIsRegister DEF Low
<1>5. \A k \in Nat : On(Low(B, a), k) <=> k < B /\ On(a, k)
  BY <1>1, OnLow DEF Low
<1>6. \A k \in Nat : On(y, k) <=> k < n /\ On(a, k) BY <1>1, OnLow
<1> HIDE DEF m, s
<1>7. x \in Register /\ \A k \in 0 .. Top : On(x, k) <=> On(Low(B, a), k) /\ On(m, k)
  BY <1>2, <1>4, BitOperations
<1> HIDE DEF x, y
<1>8. ASSUME NEW k \in 0 .. Top
      PROVE  On(x, k) <=> On(y, k)
  <2>1. On(m, k) <=> k < n
    <3>1. Top - k \in 2 * W - n .. Top <=> k < n BY <1>1
    <3>. QED BY <1>2, <1>3, <3>1
  <2>2. k < n => k < B BY <1>1
  <2>3. k \in Nat BY <1>1
  <2>4. On(Low(B, a), k) <=> k < B /\ On(a, k) BY <1>5, <2>3
  <2>5. On(y, k) <=> k < n /\ On(a, k) BY <1>6, <2>3
  <2>6. On(x, k) <=> On(Low(B, a), k) /\ On(m, k) BY <1>7
  <2>. QED BY <2>1, <2>2, <2>4, <2>5, <2>6
<1>9. BitsOf[x] = BitsOf[y] BY <1>4, <1>7, <1>8, BitsAre
<1>10. x = y BY <1>4, <1>7, <1>9, SameBits
<1>. QED BY <1>10 DEF x, y, m

\* Counts of immediate forms, and counts that leave the right carry.
ShiftField(i) == i.m \in {"srawi", "sradi"} => i.imm \in 0 .. SignedBits(i.m) - 1

\* sraw, srawi, srad and sradi, result and carry.
LEMMA SignedShiftsAgree ==
  ASSUME NEW i, i.m \in SignedShifts, ShiftField(i), NEW a \in Register, NEW b \in Register,
         i.m \in {"sraw", "srad"} => Exact(i, a, b)
  PROVE  LET s == SignedShift(i.m, a, b, i.imm)
         IN  /\ s[1] \in Register /\ s[2] \in {0, 1}
             /\ Guest!SignShifted(i, a, b) = s[1]
             /\ Guest!SignCarry(i, a, b) = s[2]
<1> DEFINE B == SignedBits(i.m)
           x == Signed(B, a)
           H == 2 ^ (B - 1)
           s == SignedShift(i.m, a, b, i.imm)
           c == Guest!Count(i, b)
           C == 2 ^ c
<1>1. B \in Widths32 /\ B \in Nat \ {0} /\ B <= 2 * W /\ a \in Int /\ b \in Int /\ B - 1 \in Nat
  BY Width DEF Widths32, SignedBits, Register
<1>2. H \in Nat \ {0} /\ x \in -H .. H - 1 /\ x \in Int
  <2>1. H \in Nat \ {0} /\ x \in -H .. H - 1 BY <1>1, SignedRange
  <2> HIDE DEF H, x
  <2>. QED BY <2>1
<1>3. Guest!SignedWidth(i.m) = B
  BY <1>1 DEF Guest!SignedWidth, SignedBits, SignedShifts
<1>4. c \in Nat /\ c = IF i.m \in {"sraw", "srad"} THEN b % (2 * B) ELSE i.imm
  <2>1. c = IF i.m \in {"sraw", "srad"} THEN b % (2 * B) ELSE i.imm
    BY <1>3 DEF Guest!Count
  <2>2. b % (2 * B) \in Nat BY <1>1
  <2>3. i.m \notin {"sraw", "srad"} => i.imm \in Nat
    BY <1>1 DEF ShiftField, SignedShifts
  <2>. QED BY <2>1, <2>2, <2>3
<1>5. C \in Nat \ {0} BY <1>4, PowerPositive
<1>6. Guest!SignShifted(i, a, b) = u64(x \div C)
  BY <1>3, GuestWords DEF Guest!SignShifted, u64
<1>7. Guest!SignCarry(i, a, b) = Bit(x < 0 /\ x % C # 0)
  BY <1>3, GuestWords DEF Guest!SignCarry, Guest!Bit, Bit
<1>8. \A y \in Int : u64(y) \in Register BY Width, LowIsRegister DEF u64
<1>9. x \div C \in Int
  <2> HIDE DEF x, C
  <2>. QED BY <1>2, <1>5, Remainder
<1> DEFINE v == u64(x \div C)
           p == x < 0 /\ x % C # 0
<1>10. v \in Register /\ Bit(p) \in {0, 1} BY <1>8, <1>9 DEF Bit
<1>11. Guest!SignShifted(i, a, b) = v /\ Guest!SignCarry(i, a, b) = Bit(p)
  BY <1>6, <1>7
<1>12. CASE i.m \in {"sraw", "srad"}
  <2> DEFINE temp == IF c > B - 1 THEN B - 1 ELSE c
             T == 2 ^ temp
  <2>1. s = <<u64(x \div T), Bit(x < 0 /\ (x \div T) * T # x)>>
    <3>1. c = b % (2 * B) BY <1>4, <1>12
    <3>. QED BY <1>12, <3>1 DEF SignedShift, SignedBits, ShiftRight
  <2>2. CASE c <= B - 1
    <3>1. temp = c BY <1>1, <1>4, <2>2
    <3>2. T = C BY <3>1
    <3>3. (x \div C) * C # x <=> x % C # 0
      <4> HIDE DEF x, C
      <4>. QED BY <1>2, <1>5, Whole
    <3>4. s = <<v, Bit(p)>>
      <4> HIDE DEF x, C, T
      <4>. QED BY <2>1, <3>2, <3>3 DEF Bit
    <3> HIDE DEF v, p
    <3>. QED BY <1>10, <1>11, <3>4
  <2>3. CASE c > B - 1
    <3>1. T = H BY <2>3
    <3>2. C >= H /\ C >= 2 * H
      <4>1. c \in Nat /\ B \in Nat /\ B <= c BY <1>1, <1>4, <2>3
      <4>2. 2 ^ B <= C BY <4>1, PowerMonotone
      <4>3. 2 ^ B = 2 * H BY <1>1, SignedRange
      <4> HIDE DEF C, H
      <4>. QED BY <1>2, <1>5, <4>2, <4>3
    <3>3. x # -H
      <4>1. Low(B, a) # H
        <5>1. Exact(i, a, b) BY <1>12
        <5>2. (IF i.m = "sraw" THEN W ELSE 2 * W) = B BY <1>12 DEF SignedBits
        <5>3. ~(Low(B, a) = H /\ b % (2 * B) >= B) BY <5>1, <5>2 DEF Exact
        <5>4. b % (2 * B) >= B BY <1>1, <1>4, <1>12, <2>3
        <5>. QED BY <5>3, <5>4
      <4>2. x = IF Low(B, a) < H THEN Low(B, a) ELSE Low(B, a) - 2 ^ B
        BY DEF Signed
      <4>3. 2 ^ B = 2 * H BY <1>1, SignedRange
      <4>4. Low(B, a) \in Nat
        BY <1>1, LowIsRegister, Width, SMTT(30) DEF Register
      <4> HIDE DEF x, H
      <4>. QED BY <1>2, <4>1, <4>2, <4>3, <4>4
    <3>4. /\ x \div C = (IF x < 0 THEN -1 ELSE 0) /\ x % C = (IF x < 0 THEN x + C ELSE x)
          /\ x \div H = (IF x < 0 THEN -1 ELSE 0)
      <4> HIDE DEF x, C, H
      <4>1. /\ x \div C = (IF x < 0 THEN -1 ELSE 0) /\ x % C = (IF x < 0 THEN x + C ELSE x)
        BY <1>2, <1>5, <3>2, ShiftedFar
      <4>2. H >= H BY <1>2
      <4>3. x \div H = (IF x < 0 THEN -1 ELSE 0) BY <1>2, <4>2, ShiftedFar
      <4>. QED BY <4>1, <4>3
    <3> HIDE DEF x, C, H, T
    <3>5. x \div T = x \div C BY <3>1, <3>4
    <3>6. x < 0 => (x % C # 0 /\ (x \div T) * T # x)
      <4> SUFFICES ASSUME x < 0
                   PROVE  x % C # 0 /\ (x \div T) * T # x
        OBVIOUS
      <4>1. x % C = x + C /\ x + C # 0 BY <1>2, <1>5, <3>2, <3>4
      <4>2. (x \div T) * T = (-1) * H BY <3>1, <3>4
      <4>3. (-1) * H # x BY <1>2, <3>3
      <4>. QED BY <4>1, <4>2, <4>3
    <3>7. s = <<v, Bit(p)>> BY <2>1, <3>5, <3>6 DEF Bit
    <3> HIDE DEF v, p
    <3>. QED BY <1>10, <1>11, <3>7
  <2>. QED BY <1>1, <1>4, <2>2, <2>3
<1>13. CASE i.m \in {"srawi", "sradi"}
  <2>1. c = i.imm /\ c \in 0 .. B - 1 BY <1>4, <1>13 DEF ShiftField
  <2>2. s = IF c = 0 THEN <<u64(x), 0>>
            ELSE <<u64(x \div C), Bit(x < 0 /\ And(Low(B, a), ComputeMask(2 * W - c, 2 * W - 1)) # 0)>>
    BY <1>13, <2>1 DEF SignedShift, SignedBits, ShiftRight
  <2>3. x % C = a % C BY <1>1, <2>1, SignedLow
  <2>4. CASE c = 0
    <3>1. C = 1 BY <2>4
    <3>2. x \div C = x /\ x % C = 0
      <4> HIDE DEF x, C
      <4>. QED BY <1>2, <3>1
    <3>3. s = <<v, Bit(p)>>
      <4> HIDE DEF x, C
      <4>. QED BY <2>2, <2>4, <3>2 DEF Bit
    <3> HIDE DEF v, p
    <3>. QED BY <1>10, <1>11, <3>3
  <2>5. CASE c # 0
    <3>1. And(Low(B, a), ComputeMask(2 * W - c, 2 * W - 1)) = a % C
      <4>1. c \in 1 .. B - 1 BY <1>1, <2>1, <2>5
      <4>. QED BY <1>1, <4>1, LostBits
    <3>2. s = <<v, Bit(p)>>
      <4> HIDE DEF x, C
      <4>. QED BY <2>2, <2>3, <2>5, <3>1 DEF Bit
    <3> HIDE DEF v, p
    <3>. QED BY <1>10, <1>11, <3>2
  <2>. QED BY <2>4, <2>5
<1>. QED BY <1>12, <1>13 DEF SignedShifts

-----------------------------------------------------------------------------
(* Sums. Numbers that differ by a multiple have the same remainder; carries *)
(* are found by comparing a truncated sum with what it was made of.         *)

\* Numbers that differ by a multiple of m.
LEMMA Congruent ==
  ASSUME NEW M \in Nat \ {0}, NEW x \in Int, NEW k \in Int
  PROVE  (x + k * M) % M = x % M
<1> DEFINE q == x \div M
           e == x % M
<1>1. q \in Int /\ e \in 0 .. M - 1 /\ x = q * M + e BY Remainder
<1> HIDE DEF q, e
<1>2. x + k * M = (q + k) * M + e
  <2>1. (q + k) * M = q * M + k * M /\ q * M \in Int /\ k * M \in Int BY <1>1
  <2>. QED BY <1>1, <2>1
<1>3. q + k \in Int BY <1>1
<1>4. ((q + k) * M + e) % M = e BY <1>1, <1>3, Division
<1>5. (x + k * M) % M = e BY <1>2, <1>4
<1>. QED BY <1>5 DEF e

\* The complement of a word, by subtraction.
LEMMA Complement ==
  ASSUME NEW M \in Nat \ {0}, NEW x \in Int
  PROVE  (-1 - x) % M = M - 1 - (x % M)
<1> DEFINE q == x \div M
           e == x % M
<1>1. q \in Int /\ e \in 0 .. M - 1 /\ x = q * M + e BY Remainder
<1> HIDE DEF q, e
<1>2. -1 - x = (-1 - q) * M + (M - 1 - e)
  <2>1. (-1 - q) * M = -M - q * M /\ q * M \in Int BY <1>1
  <2>. QED BY <1>1, <2>1
<1>3. -1 - q \in Int /\ M - 1 - e \in 0 .. M - 1 BY <1>1
<1>4. ((-1 - q) * M + (M - 1 - e)) % M = M - 1 - e BY <1>3, Division
<1>. QED BY <1>2, <1>4 DEF e

\* Remainders of registers and of their low words.
LEMMA Doublewords ==
  ASSUME NEW x \in Int, NEW y \in Int
  PROVE  /\ u64(x) \in Register /\ u64(x) \in Int
         /\ x = y + DWord \/ x = y - DWord => u64(x) = u64(y)
         /\ u64(x + u64(y)) = u64(x + y)
         /\ u32(u64(x)) = u32(x)
         /\ u32(x) \in 0 .. Word - 1 /\ u32(x) \in Int
         /\ u32(-1 - x) = Word - 1 - u32(x)
         /\ u32(u32(x) + y) = u32(x + y)
<1>1. DWord \in Nat \ {0} /\ Word \in Nat \ {0} /\ W \in Nat BY Width
<1>2. u64(x) = x % DWord /\ u64(y) = y % DWord BY DEF u64, Low, DWord
<1>3. x % DWord \in 0 .. DWord - 1 /\ x % Word \in 0 .. Word - 1
  BY <1>1, Remainder
<1>4. u64(x) \in Register /\ u64(x) \in Int BY <1>2, <1>3 DEF Register
<1>5. x = y + DWord \/ x = y - DWord => u64(x) = u64(y)
  <2>1. (y + 1 * DWord) % DWord = y % DWord /\ (y + (-1) * DWord) % DWord = y % DWord
    <3>1. 1 \in Int /\ -1 \in Int OBVIOUS
    <3>. QED BY <1>1, <3>1, Congruent
  <2>2. y + 1 * DWord = y + DWord /\ y + (-1) * DWord = y - DWord BY <1>1
  <2>3. (y + DWord) % DWord = y % DWord /\ (y - DWord) % DWord = y % DWord
    BY <2>1, <2>2, Zenon
  <2>. QED BY <1>2, <2>3
<1>6. u64(x + u64(y)) = u64(x + y)
  <2>1. ((y % DWord) + x) % DWord = (y + x) % DWord BY <1>1, AddToRemainder
  <2>2. y % DWord \in Int BY <1>1, Remainder
  <2>3. x + y = y + x /\ x + (y % DWord) = (y % DWord) + x BY <2>2
  <2>. QED BY <1>2, <2>1, <2>3 DEF u64, Low, DWord
<1>7. u32(u64(x)) = u32(x)
  <2>1. (x % DWord) % Place(4) = x % Place(4) BY Narrow
  <2>. QED BY <1>2, <2>1, Widths DEF u32, Low, Word
<1>8. u32(x) \in 0 .. Word - 1 /\ u32(x) \in Int BY <1>3 DEF u32, Low, Word
<1>9. u32(-1 - x) = Word - 1 - u32(x) BY <1>1, Complement DEF u32, Low, Word
<1>10. u32(u32(x) + y) = u32(x + y) BY <1>1, AddToRemainder DEF u32, Low, Word
<1>. QED BY <1>4, <1>5, <1>6, <1>7, <1>8, <1>9, <1>10

LEMMA LowNot ==
  ASSUME NEW a \in Register
  PROVE  /\ Not(a) \in Register /\ Not(a) = DWord - 1 - a
         /\ u32(Not(a)) = Word - 1 - u32(a)
<1>1. a \in Int /\ DWord \in Nat /\ Word \in Nat \ {0} /\ DWord = Word * Word
  BY Width DEF Register
<1>2. Not(a) \in Register /\ Not(a) = DWord - 1 - a BY OnNot DEF Not
<1>3. DWord - 1 - a = (-1 - a) + Word * Word /\ -1 - a \in Int
  <2>1. DWord - 1 - a = (-1 - a) + DWord /\ -1 - a \in Int BY <1>1
  <2>. QED BY <1>1, <2>1, Zenon
<1>4. ((-1 - a) + Word * Word) % Word = (-1 - a) % Word
  <2>1. \A M \in Nat \ {0} : \A x, k \in Int : (x + k * M) % M = x % M
    BY Congruent
  <2>2. Word \in Int BY <1>1
  <2>. QED BY <1>1, <1>3, <2>1, <2>2, Zenon
<1>5. u32(Not(a)) = u32(-1 - a) BY <1>2, <1>3, <1>4 DEF u32, Low, Word
<1>. QED BY <1>1, <1>2, <1>5, Doublewords

\* The carry out of a sum, and how the sum shows it.
LEMMA CarryOut ==
  ASSUME NEW p \in 0 .. Word - 1, NEW q \in 0 .. Word - 1, NEW c \in {0, 1}
  PROVE  /\ (p + q + c) \div Word = Bit(p + q + c >= Word)
         /\ u32(p + q) = (IF p + q >= Word THEN (p + q) - Word ELSE p + q)
         /\ u32(p + q + c) = (IF p + q + c >= Word THEN (p + q + c) - Word ELSE p + q + c)
<1> DEFINE M == Word
<1>1. M \in Nat \ {0} /\ p \in Int /\ q \in Int /\ c \in Int /\ M >= 2 BY Width
<1>2. \A x \in Int : u32(x) = x % M BY DEF u32, Low, Word
<1> HIDE DEF M
<1>3. ASSUME NEW x \in 0 .. 2 * M - 1
      PROVE  /\ x \div M = (IF x >= M THEN 1 ELSE 0)
             /\ x % M = (IF x >= M THEN x - M ELSE x)
  <2>1. \A u \in Int : \A v \in 0 .. M - 1 : (u * M + v) \div M = u /\ (u * M + v) % M = v
    BY <1>1, Division
  <2>2. CASE x >= M
    <3>1. 1 * M + (x - M) = x /\ x - M \in 0 .. M - 1 /\ 1 \in Int BY <1>1, <2>2
    <3>. QED BY <2>1, <2>2, <3>1, ZenonT(30)
  <2>3. CASE ~(x >= M)
    <3>1. 0 * M + x = x /\ x \in 0 .. M - 1 /\ 0 \in Int BY <1>1, <2>3
    <3>. QED BY <2>1, <2>3, <3>1, ZenonT(30)
  <2>. QED BY <2>2, <2>3
<1>4. /\ p + q \in 0 .. 2 * M - 1 /\ p + q + c \in 0 .. 2 * M - 1
      /\ p + q \in Int /\ p + q + c \in Int
  BY <1>1 DEF M
<1>5. /\ (p + q + c) \div M = Bit(p + q + c >= M)
      /\ u32(p + q) = (IF p + q >= M THEN (p + q) - M ELSE p + q)
      /\ u32(p + q + c) = (IF p + q + c >= M THEN (p + q + c) - M ELSE p + q + c)
  <2>1. (p + q + c) \div M = Bit(p + q + c >= M) BY <1>3, <1>4 DEF Bit
  <2>2. u32(p + q) = (p + q) % M /\ u32(p + q + c) = (p + q + c) % M
    BY <1>2, <1>4
  <2>3. /\ (p + q) % M = (IF p + q >= M THEN (p + q) - M ELSE p + q)
        /\ (p + q + c) % M = (IF p + q + c >= M THEN (p + q + c) - M ELSE p + q + c)
    <3> DEFINE x == p + q
               y == p + q + c
    <3>1. x \in 0 .. 2 * M - 1 /\ y \in 0 .. 2 * M - 1 BY <1>4
    <3> HIDE DEF x, y
    <3>2. x % M = (IF x >= M THEN x - M ELSE x) /\ y % M = (IF y >= M THEN y - M ELSE y)
      BY <1>3, <3>1
    <3>. QED BY <3>2, Zenon DEF x, y
  <2>. QED BY <2>1, <2>2, <2>3
<1>. QED BY <1>5 DEF M

-----------------------------------------------------------------------------
(* Additions and subtractions.                                              *)

\* A word with its sign extended, which the instructions that add -1 or 0 to
\* it take to be all of the register.
SignExtended(x) == x = u64(s32(x))

\* An immediate is a number; addme, subfme and subfze are of words.
SumField(i, a) ==
  /\ i.m \in {"addi", "addic", "addis", "subfic"} => i.imm \in Int
  /\ i.m \in {"addme", "subfme", "subfze"} => SignExtended(a)

Summed(i, a, b, ca) ==
  IF i.m \in Additions THEN Add(i.m, a, b, IF i.a = 0 THEN 0 ELSE a, i.imm, ca)
  ELSE Subtract(i.m, a, b, i.imm, ca)

\* Results of additions and subtractions.
LEMMA SumsAgree ==
  ASSUME NEW i, i.m \in Additions \cup Subtractions, NEW a \in Register, SumField(i, a),
         NEW b \in Register, NEW ca \in {0, 1}
  PROVE  LET s == Summed(i, a, b, ca)
         IN  s[1] \in Register /\ Guest!Sum(i, a, b, ca) = s[1]
<1> DEFINE z == IF i.a = 0 THEN 0 ELSE a
           s == Summed(i, a, b, ca)
           g == Guest!Sum(i, a, b, ca)
<1>1. /\ DWord \in Nat /\ a \in Int /\ b \in Int /\ z \in Int /\ ca \in Int
      /\ Not(a) \in Int /\ Not(a) = DWord - 1 - a
  BY Width, LowNot DEF Register
<1>2. g = u64(Guest!First(i, a) + Guest!Second(i, b) + Guest!Third(i, ca))
  BY GuestWords DEF Guest!Sum, u64
<1>3. \A x \in Int : u64(x) \in Register /\ u64(x) \in Int BY Doublewords
<1>4. \A x, y \in Int : x = y \/ x = y + DWord \/ x = y - DWord => u64(x) = u64(y)
  BY Doublewords
<1>5. \A x, y \in Int : u64(x + u64(y)) = u64(x + y) BY Doublewords
<1>6. CASE i.m = "add"
  <2>1. g = u64(a + b + 0)
    BY <1>2, <1>6, GuestWords DEF Guest!First, Guest!Second, Guest!Third, Guest!Negated,
      Guest!Extended, Guest!Ones, u64
  <2>2. s[1] = u64(a + b)
    BY <1>6 DEF Summed, Add, Subtract, Additions, Subtractions
  <2>4. g = s[1] /\ s[1] \in Register
    <3>1. a + b + 0 = a + b /\ a + b \in Int BY <1>1
    <3>. QED BY <1>3, <2>1, <2>2, <3>1
  <2>. QED BY <2>4
<1>7. CASE i.m = "addc"
  <2>1. g = u64(a + b + 0)
    BY <1>2, <1>7, GuestWords DEF Guest!First, Guest!Second, Guest!Third, Guest!Negated,
      Guest!Extended, Guest!Ones, u64
  <2>2. s[1] = u64(a + b)
    BY <1>7 DEF Summed, Add, Subtract, Additions, Subtractions
  <2>4. g = s[1] /\ s[1] \in Register
    <3>1. a + b + 0 = a + b /\ a + b \in Int BY <1>1
    <3>. QED BY <1>3, <2>1, <2>2, <3>1
  <2>. QED BY <2>4
<1>8. CASE i.m = "adde"
  <2>1. g = u64(a + b + ca)
    BY <1>2, <1>8, GuestWords DEF Guest!First, Guest!Second, Guest!Third, Guest!Negated,
      Guest!Extended, Guest!Ones, u64
  <2>2. s[1] = u64(a + b + ca)
    BY <1>8 DEF Summed, Add, Subtract, Additions, Subtractions
  <2>4. g = s[1] /\ s[1] \in Register
    <3>1. a + b + ca = a + b + ca /\ a + b + ca \in Int BY <1>1
    <3>. QED BY <1>3, <2>1, <2>2, <3>1
  <2>. QED BY <2>4
<1>9. CASE i.m = "addi"
  <2>1. g = u64(z + u64(i.imm) + 0)
    BY <1>2, <1>9, GuestWords DEF Guest!First, Guest!Second, Guest!Third, Guest!Negated,
      Guest!Extended, Guest!Ones, u64
  <2>2. s[1] = u64(z + i.imm)
    BY <1>9 DEF Summed, Add, Subtract, Additions, Subtractions
  <2>3. i.imm \in Int /\ u64(i.imm) \in Int BY <1>3, <1>9 DEF SumField
  <2>4. g = s[1] /\ s[1] \in Register
    <3>1. z + u64(i.imm) + 0 = z + u64(i.imm) /\ z + i.imm \in Int BY <1>1, <2>3
    <3>2. u64(z + u64(i.imm)) = u64(z + i.imm) BY <1>1, <1>5, <2>3
    <3>. QED BY <1>3, <2>1, <2>2, <3>1, <3>2
  <2>. QED BY <2>4
<1>10. CASE i.m = "addic"
  <2>1. g = u64(a + u64(i.imm) + 0)
    BY <1>2, <1>10, GuestWords DEF Guest!First, Guest!Second, Guest!Third, Guest!Negated,
      Guest!Extended, Guest!Ones, u64
  <2>2. s[1] = u64(a + i.imm)
    BY <1>10 DEF Summed, Add, Subtract, Additions, Subtractions
  <2>3. i.imm \in Int /\ u64(i.imm) \in Int BY <1>3, <1>10 DEF SumField
  <2>4. g = s[1] /\ s[1] \in Register
    <3>1. a + u64(i.imm) + 0 = a + u64(i.imm) /\ a + i.imm \in Int BY <1>1, <2>3
    <3>2. u64(a + u64(i.imm)) = u64(a + i.imm) BY <1>1, <1>5, <2>3
    <3>. QED BY <1>3, <2>1, <2>2, <3>1, <3>2
  <2>. QED BY <2>4
<1>11. CASE i.m = "addis"
  <2>1. g = u64(z + u64(Signed(W, i.imm * 2 ^ (W \div 2))) + 0)
    BY <1>2, <1>11, GuestWords DEF Guest!First, Guest!Second, Guest!Third, Guest!Negated,
      Guest!Extended, Guest!Ones, u64
  <2>2. s[1] = u64(z + Signed(W, i.imm * 2 ^ (W \div 2)))
    BY <1>11 DEF Summed, Add, Subtract, Additions, Subtractions
  <2> DEFINE n == Signed(W, i.imm * 2 ^ (W \div 2))
  <2>3. n \in Int /\ u64(n) \in Int
    <3>1. i.imm \in Int /\ 2 ^ (W \div 2) \in Int
      BY <1>11, HalfWord DEF SumField, Half
    <3>2. i.imm * 2 ^ (W \div 2) \in Int BY <3>1
    <3>3. n \in Int
      <4> DEFINE y == i.imm * 2 ^ (W \div 2)
      <4>1. W \in Nat \ {0} /\ 0 \in Nat BY Width
      <4>2. y \in Int /\ n = Signed(W, y) BY <3>2
      <4> HIDE DEF y, n
      <4>. QED BY <4>1, <4>2, OnSigned
    <3>. QED BY <1>3, <3>3
  <2>4. g = s[1] /\ s[1] \in Register
    <3> HIDE DEF n, g, s, z
    <3>1. z + u64(n) + 0 = z + u64(n) /\ z + n \in Int BY <1>1, <2>3
    <3>2. g = u64(z + u64(n) + 0) /\ s[1] = u64(z + n) BY <2>1, <2>2 DEF n
    <3>. QED BY <1>1, <1>3, <1>5, <2>3, <3>1, <3>2
  <2>. QED BY <2>4
<1>12. CASE i.m = "addme"
  <2>1. g = u64(a + (DWord - 1) + ca)
    BY <1>2, <1>12, GuestWords DEF Guest!First, Guest!Second, Guest!Third, Guest!Negated,
      Guest!Extended, Guest!Ones, u64
  <2>2. s[1] = u64(a + ca - 1)
    BY <1>12 DEF Summed, Add, Subtract, Additions, Subtractions
  <2>4. g = s[1] /\ s[1] \in Register
    <3>1. a + (DWord - 1) + ca = (a + ca - 1) + DWord /\ a + ca - 1 \in Int /\ (a + ca - 1) + DWord \in Int
      BY <1>1
    <3>. QED BY <1>3, <1>4, <2>1, <2>2, <3>1
  <2>. QED BY <2>4
<1>13. CASE i.m = "addze"
  <2>1. g = u64(a + 0 + ca)
    BY <1>2, <1>13, GuestWords DEF Guest!First, Guest!Second, Guest!Third, Guest!Negated,
      Guest!Extended, Guest!Ones, u64
  <2>2. s[1] = u64(a + ca)
    BY <1>13 DEF Summed, Add, Subtract, Additions, Subtractions
  <2>4. g = s[1] /\ s[1] \in Register
    <3>1. a + 0 + ca = a + ca /\ a + ca \in Int BY <1>1
    <3>. QED BY <1>3, <2>1, <2>2, <3>1
  <2>. QED BY <2>4
<1>14. CASE i.m = "subf"
  <2>1. g = u64(Not(a) + b + 1)
    BY <1>2, <1>14, GuestWords DEF Guest!First, Guest!Second, Guest!Third, Guest!Negated,
      Guest!Extended, Guest!Ones, u64
  <2>2. s[1] = u64(b - a)
    BY <1>14 DEF Summed, Add, Subtract, Additions, Subtractions
  <2>4. g = s[1] /\ s[1] \in Register
    <3>1. Not(a) + b + 1 = (b - a) + DWord /\ b - a \in Int /\ (b - a) + DWord \in Int
      BY <1>1
    <3>. QED BY <1>3, <1>4, <2>1, <2>2, <3>1
  <2>. QED BY <2>4
<1>15. CASE i.m = "subfc"
  <2>1. g = u64(Not(a) + b + 1)
    BY <1>2, <1>15, GuestWords DEF Guest!First, Guest!Second, Guest!Third, Guest!Negated,
      Guest!Extended, Guest!Ones, u64
  <2>2. s[1] = u64(b - a)
    BY <1>15 DEF Summed, Add, Subtract, Additions, Subtractions
  <2>4. g = s[1] /\ s[1] \in Register
    <3>1. Not(a) + b + 1 = (b - a) + DWord /\ b - a \in Int /\ (b - a) + DWord \in Int
      BY <1>1
    <3>. QED BY <1>3, <1>4, <2>1, <2>2, <3>1
  <2>. QED BY <2>4
<1>16. CASE i.m = "subfe"
  <2>1. g = u64(Not(a) + b + ca)
    BY <1>2, <1>16, GuestWords DEF Guest!First, Guest!Second, Guest!Third, Guest!Negated,
      Guest!Extended, Guest!Ones, u64
  <2>2. s[1] = u64(Not(a) + b + ca)
    BY <1>16 DEF Summed, Add, Subtract, Additions, Subtractions
  <2>4. g = s[1] /\ s[1] \in Register
    <3>1. Not(a) + b + ca = Not(a) + b + ca /\ Not(a) + b + ca \in Int BY <1>1
    <3>. QED BY <1>3, <2>1, <2>2, <3>1
  <2>. QED BY <2>4
<1>17. CASE i.m = "subfic"
  <2>1. g = u64(Not(a) + u64(i.imm) + 1)
    BY <1>2, <1>17, GuestWords DEF Guest!First, Guest!Second, Guest!Third, Guest!Negated,
      Guest!Extended, Guest!Ones, u64
  <2>2. s[1] = u64(i.imm - a)
    BY <1>17 DEF Summed, Add, Subtract, Additions, Subtractions
  <2>3. i.imm \in Int /\ u64(i.imm) \in Int BY <1>3, <1>17 DEF SumField
  <2>4. g = s[1] /\ s[1] \in Register
    <3>1. Not(a) + u64(i.imm) + 1 = (DWord - a) + u64(i.imm) /\ DWord - a \in Int
      BY <1>1, <2>3
    <3>2. u64((DWord - a) + u64(i.imm)) = u64((DWord - a) + i.imm)
      BY <1>5, <2>3, <3>1
    <3>3. /\ (DWord - a) + i.imm = (i.imm - a) + DWord /\ i.imm - a \in Int
          /\ (DWord - a) + i.imm \in Int
      BY <1>1, <2>3
    <3>4. u64((DWord - a) + i.imm) = u64(i.imm - a) BY <1>4, <3>3
    <3>. QED BY <1>3, <2>1, <2>2, <3>1, <3>2, <3>3, <3>4
  <2>. QED BY <2>4
<1>18. CASE i.m = "subfme"
  <2>1. g = u64(Not(a) + (DWord - 1) + ca)
    BY <1>2, <1>18, GuestWords DEF Guest!First, Guest!Second, Guest!Third, Guest!Negated,
      Guest!Extended, Guest!Ones, u64
  <2>2. s[1] = u64(Not(a) + ca - 1)
    BY <1>18 DEF Summed, Add, Subtract, Additions, Subtractions
  <2>4. g = s[1] /\ s[1] \in Register
    <3>1. Not(a) + (DWord - 1) + ca = (Not(a) + ca - 1) + DWord /\ Not(a) + ca - 1 \in Int /\ (Not(a) + ca - 1) + DWord \in Int
      BY <1>1
    <3>. QED BY <1>3, <1>4, <2>1, <2>2, <3>1
  <2>. QED BY <2>4
<1>19. CASE i.m = "subfze"
  <2>1. g = u64(Not(a) + 0 + ca)
    BY <1>2, <1>19, GuestWords DEF Guest!First, Guest!Second, Guest!Third, Guest!Negated,
      Guest!Extended, Guest!Ones, u64
  <2>2. s[1] = u64(Not(a) + ca)
    BY <1>19 DEF Summed, Add, Subtract, Additions, Subtractions
  <2>4. g = s[1] /\ s[1] \in Register
    <3>1. Not(a) + 0 + ca = Not(a) + ca /\ Not(a) + ca \in Int BY <1>1
    <3>. QED BY <1>3, <2>1, <2>2, <3>1
  <2>. QED BY <2>4
<1>20. CASE i.m = "neg"
  <2>1. g = u64(Not(a) + 0 + 1)
    BY <1>2, <1>20, GuestWords DEF Guest!First, Guest!Second, Guest!Third, Guest!Negated,
      Guest!Extended, Guest!Ones, u64
  <2>2. s[1] = u64(-s64(a))
    BY <1>20 DEF Summed, Add, Subtract, Additions, Subtractions
  <2>3. s64(a) \in Int /\ (s64(a) = a \/ s64(a) = a - DWord)
    <3>1. Low(2 * W, a) = a BY InRegister DEF Register, DWord, Low
    <3>. QED BY <1>1, <3>1 DEF s64, Signed, DWord
  <2>4. g = s[1] /\ s[1] \in Register
    <3>1. Not(a) + 0 + 1 = DWord - a /\ DWord - a \in Int /\ -s64(a) \in Int
      BY <1>1, <2>3
    <3>2. DWord - a = -s64(a) \/ DWord - a = -s64(a) + DWord BY <1>1, <2>3
    <3>. QED BY <1>3, <1>4, <2>1, <2>2, <3>1, <3>2
  <2>. QED BY <2>4
<1>. QED
  BY <1>6, <1>7, <1>8, <1>9, <1>10, <1>11, <1>12, <1>13,
     <1>14, <1>15, <1>16, <1>17, <1>18, <1>19, <1>20 DEF Additions, Subtractions

\* Adding -1 to a word with its sign extended carries unless the word is 0.
LEMMA MinusOne ==
  ASSUME NEW x \in Register, NEW c \in {0, 1}, u32(x) = 0 => x = 0
  PROVE  LET temp == u64(x + c - 1)
         IN  (x > temp \/ (x = temp /\ c = 1)) <=> u32(x) + (Word - 1) + c >= Word
<1> DEFINE temp == u64(x + c - 1)
           p == u32(x)
<1>1. /\ DWord \in Nat /\ DWord >= 256 /\ x \in Int /\ x >= 0 /\ x <= DWord - 1
      /\ Word \in Nat /\ Word >= 16 /\ c \in Int
  BY Width DEF Register
<1>2. p \in Int /\ p >= 0 /\ p <= Word - 1 BY <1>1, Doublewords
<1>3. x = 0 => p = 0
  <2>1. u32(0) = 0
    <3>1. 0 % Word = 0 BY <1>1
    <3>. QED BY <3>1 DEF u32, Low, Word
  <2>. QED BY <2>1
<1>4. \A y \in Register : u64(y) = y BY InRegister DEF u64, Low, DWord, Register
<1>5. CASE c = 1
  <2>1. x + c - 1 = x BY <1>1, <1>5
  <2>2. temp = x BY <1>4, <2>1
  <2> HIDE DEF temp, p
  <2>3. p + (Word - 1) + c >= Word BY <1>1, <1>2, <1>5
  <2>. QED BY <1>5, <2>2, <2>3 DEF temp, p
<1>6. CASE c = 0 /\ x # 0
  <2>1. x + c - 1 = x - 1 /\ x - 1 \in Register BY <1>1, <1>6 DEF Register
  <2>2. temp = x - 1 BY <1>4, <2>1
  <2>3. p # 0 BY <1>6
  <2> HIDE DEF temp, p
  <2>4. x > temp /\ p + (Word - 1) + c >= Word BY <1>1, <1>2, <1>6, <2>2, <2>3
  <2>. QED BY <2>4 DEF temp, p
<1>7. CASE c = 0 /\ x = 0
  <2>1. x + c - 1 = (DWord - 1) - DWord /\ DWord - 1 \in Register /\ DWord - 1 \in Int
        /\ (DWord - 1) - DWord \in Int
    BY <1>1, <1>7 DEF Register
  <2>2. u64((DWord - 1) - DWord) = u64(DWord - 1) BY <2>1, Doublewords
  <2>3. temp = DWord - 1 BY <1>4, <2>1, <2>2
  <2>4. p = 0 BY <1>3, <1>7
  <2> HIDE DEF temp, p
  <2>5. ~(x > temp) /\ x # temp /\ ~(p + (Word - 1) + c >= Word)
    BY <1>1, <1>7, <2>3, <2>4
  <2>. QED BY <2>5 DEF temp, p
<1>. QED BY <1>5, <1>6, <1>7

\* A truncated sum of two words, and one with a carry, tell their carry.
LEMMA SumTells ==
  ASSUME NEW p \in 0 .. Word - 1, NEW q \in 0 .. Word - 1, NEW c \in {0, 1}
  PROVE  /\ u32(p + q) < p <=> p + q + 0 >= Word
         /\ (u32(p + q) < p \/ u32(p + q + c) < c) <=> p + q + c >= Word
         /\ u32(p + c) < p <=> p + 0 + c >= Word
<1>1. Word \in Nat /\ Word >= 16 /\ p \in Int /\ q \in Int /\ c \in Int BY Width
<1>2. /\ u32(p + q) = (IF p + q >= Word THEN (p + q) - Word ELSE p + q)
      /\ u32(p + q + c) = (IF p + q + c >= Word THEN (p + q + c) - Word ELSE p + q + c)
  BY CarryOut
<1>3. u32(p + 0 + c) = (IF p + 0 + c >= Word THEN (p + 0 + c) - Word ELSE p + 0 + c)
  <2>1. 0 \in 0 .. Word - 1 BY <1>1
  <2>. QED BY <2>1, CarryOut
<1>4. p + 0 + c = p + c BY <1>1
<1> DEFINE s == u32(p + q)
           sc == u32(p + q + c)
           pc0 == u32(p + c)
<1>5. /\ s = (IF p + q >= Word THEN (p + q) - Word ELSE p + q)
      /\ sc = (IF p + q + c >= Word THEN (p + q + c) - Word ELSE p + q + c)
      /\ pc0 = (IF p + c >= Word THEN (p + c) - Word ELSE p + c)
  BY <1>2, <1>3, <1>4
<1> HIDE DEF s, sc, pc0
<1>6. s < p <=> p + q + 0 >= Word BY <1>1, <1>5
<1>7. (s < p \/ sc < c) <=> p + q + c >= Word BY <1>1, <1>5
<1>8. pc0 < p <=> p + 0 + c >= Word BY <1>1, <1>5
<1>. QED BY <1>6, <1>7, <1>8 DEF s, sc, pc0

LEMMA ExtendedEnds ==
  ASSUME NEW a \in Register, SignExtended(a)
  PROVE  /\ u32(a) = 0 => a = 0
         /\ u32(Not(a)) = 0 => Not(a) = 0
<1> DEFINE H == 2 ^ (W - 1)
<1>1. /\ W \in Nat \ {0} /\ Word \in Nat /\ Word >= 16 /\ DWord \in Nat /\ DWord >= 256
      /\ a \in Int
  BY Width DEF Register
<1>2. H \in Nat \ {0} /\ Word = 2 * H BY <1>1, SignedRange DEF Word
<1>3. s32(a) = (IF u32(a) < H THEN u32(a) ELSE u32(a) - Word)
  BY DEF s32, Signed, u32, Word
<1>4. a = u64(s32(a)) BY DEF SignExtended
<1> HIDE DEF H
<1>5. ASSUME u32(a) = 0
      PROVE  a = 0
  <2>1. s32(a) = 0 BY <1>2, <1>3, <1>5
  <2>2. u64(0) = 0
    <3>1. 0 \in Register /\ 0 \in Int BY <1>1 DEF Register
    <3>. QED BY <3>1, InRegister DEF u64, Low, DWord
  <2>. QED BY <1>4, <2>1, <2>2
<1>6. ASSUME u32(Not(a)) = 0
      PROVE  Not(a) = 0
  <2>1. u32(a) = Word - 1 /\ Not(a) = DWord - 1 - a
    <3>1. u32(Not(a)) = Word - 1 - u32(a) /\ Not(a) = DWord - 1 - a BY LowNot
    <3>2. u32(a) \in Int BY <1>1, Doublewords
    <3>. QED BY <1>1, <1>6, <3>1, <3>2
  <2>2. s32(a) = (DWord - 1) - DWord BY <1>1, <1>2, <1>3, <2>1
  <2>3. DWord - 1 \in Register /\ DWord - 1 \in Int /\ (DWord - 1) - DWord \in Int
    BY <1>1 DEF Register
  <2>4. u64((DWord - 1) - DWord) = u64(DWord - 1) BY <2>3, Doublewords
  <2>5. u64(DWord - 1) = DWord - 1 BY <2>3, InRegister DEF u64, Low, DWord
  <2>. QED BY <1>1, <1>4, <2>1, <2>2, <2>4, <2>5
<1>. QED BY <1>5, <1>6

\* Carries of additions and subtractions, in and out.
LEMMA CarriesAgree ==
  ASSUME NEW i, i.m \in Additions \cup Subtractions, NEW a \in Register, SumField(i, a),
         NEW b \in Register, NEW ca \in {0, 1}
  PROVE  LET s == Summed(i, a, b, ca)
         IN  s[2] \in {0, 1} /\ Guest!Carry(i, a, b, ca) = s[2]
<1> DEFINE s == Summed(i, a, b, ca)
           g == Guest!Carry(i, a, b, ca)
           F == Guest!First(i, a)
           S == Guest!Second(i, b)
           T == Guest!Third(i, ca)
           n == i.imm
<1>1. /\ Word \in Nat /\ Word >= 16 /\ DWord \in Nat /\ a \in Int /\ b \in Int /\ ca \in Int
      /\ Not(a) \in Int /\ Not(a) \in Register /\ Not(a) = DWord - 1 - a
  BY Width, LowNot DEF Register
<1>2. g = IF i.m \in Guest!Carrying THEN (u32(F) + u32(S) + T) \div Word ELSE ca
  BY GuestWords DEF Guest!Carry, u32
<1>3. \A x \in Int : u32(x) \in 0 .. Word - 1 /\ u32(u64(x)) = u32(x) /\ u64(x) \in Int
  BY Doublewords
<1>4. \A p, q \in 0 .. Word - 1 : \A c \in {0, 1} : (p + q + c) \div Word = Bit(p + q + c >= Word)
  BY CarryOut
<1>5. \A p, q \in 0 .. Word - 1 : \A c \in {0, 1} :
        /\ u32(p + q) < p <=> p + q + 0 >= Word
        /\ (u32(p + q) < p \/ u32(p + q + c) < c) <=> p + q + c >= Word
        /\ u32(p + c) < p <=> p + 0 + c >= Word
  BY SumTells
<1>6. u32(Not(a)) = Word - 1 - u32(a) BY LowNot
<1>7. u32(0) = 0 /\ u32(DWord - 1) = Word - 1
  <2>1. u32(0) = 0
    <3>1. 0 % Word = 0 BY <1>1
    <3>. QED BY <3>1 DEF u32, Low, Word
  <2>2. 0 \in Register /\ Not(0) = DWord - 1
    BY ZeroRegister, LowNot, <1>1 DEF Not
  <2>3. u32(Not(0)) = Word - 1 - u32(0) BY <2>2, LowNot
  <2>. QED BY <1>1, <2>1, <2>2, <2>3
<1> DEFINE p == u32(a)
           q == u32(b)
           o == u32(Not(a))
<1>8. p \in 0 .. Word - 1 /\ q \in 0 .. Word - 1 /\ o \in 0 .. Word - 1
  BY <1>1, <1>3
<1>9. CASE i.m \in {"add", "addi", "addis", "subf", "neg"}
  <2>1. s[2] = ca BY <1>9 DEF Summed, Add, Subtract, Additions, Subtractions
  <2>2. g = ca BY <1>2, <1>9 DEF Guest!Carrying
  <2>. QED BY <2>1, <2>2
<1>10. CASE i.m = "addc"
  <2>1. q \in 0 .. Word - 1 BY <1>1, <1>8
  <2>2. F = a /\ S = b /\ T = 0
    BY <1>10, GuestWords DEF Guest!First, Guest!Second, Guest!Third, Guest!Negated,
      Guest!Extended, Guest!Ones, u64
  <2>3. g = Bit(p + q + 0 >= Word)
    <3>1. u32(F) = p /\ u32(S) = q /\ T \in {0, 1} BY <1>3, <1>7, <2>1, <2>2
    <3>2. g = (u32(F) + u32(S) + T) \div Word BY <1>2, <1>10 DEF Guest!Carrying
    <3> HIDE DEF g, F, S, p, q, o
    <3>3. (p + q + T) \div Word = Bit(p + q + T >= Word)
      BY <1>4, <1>8, <2>1, <3>1
    <3>. QED BY <2>2, <3>1, <3>2, <3>3
  <2>4. s[2] = Bit(u32(p + q) < p)
    BY <1>10 DEF Summed, Add, Subtract, Additions, Subtractions, add32, u32
  <2>5. (u32(p + q) < p) <=> p + q + 0 >= Word BY <1>5, <1>8
  <2>6. s[2] = g BY <2>3, <2>4, <2>5 DEF Bit
  <2>. QED BY <2>3, <2>6 DEF Bit
<1>11. CASE i.m = "adde"
  <2>1. q \in 0 .. Word - 1 BY <1>1, <1>8
  <2>2. F = a /\ S = b /\ T = ca
    BY <1>11, GuestWords DEF Guest!First, Guest!Second, Guest!Third, Guest!Negated,
      Guest!Extended, Guest!Ones, u64
  <2>3. g = Bit(p + q + ca >= Word)
    <3>1. u32(F) = p /\ u32(S) = q /\ T \in {0, 1} BY <1>3, <1>7, <2>1, <2>2
    <3>2. g = (u32(F) + u32(S) + T) \div Word BY <1>2, <1>11 DEF Guest!Carrying
    <3> HIDE DEF g, F, S, p, q, o
    <3>3. (p + q + T) \div Word = Bit(p + q + T >= Word)
      BY <1>4, <1>8, <2>1, <3>1
    <3>. QED BY <2>2, <3>1, <3>2, <3>3
  <2>4. s[2] = Bit(u32(p + q) < p \/ u32(p + q + ca) < ca)
    BY <1>11 DEF Summed, Add, Subtract, Additions, Subtractions, add32, u32
  <2>5. (u32(p + q) < p \/ u32(p + q + ca) < ca) <=> p + q + ca >= Word
    BY <1>5, <1>8
  <2>6. s[2] = g BY <2>3, <2>4, <2>5 DEF Bit
  <2>. QED BY <2>3, <2>6 DEF Bit
<1>12. CASE i.m = "addic"
  <2>1. n \in Int /\ u32(n) \in 0 .. Word - 1 BY <1>3, <1>12 DEF SumField
  <2>2. F = a /\ S = u64(n) /\ T = 0
    BY <1>12, GuestWords DEF Guest!First, Guest!Second, Guest!Third, Guest!Negated,
      Guest!Extended, Guest!Ones, u64
  <2>3. g = Bit(p + u32(n) + 0 >= Word)
    <3>1. u32(F) = p /\ u32(S) = u32(n) /\ T \in {0, 1}
      BY <1>3, <1>7, <2>1, <2>2
    <3>2. g = (u32(F) + u32(S) + T) \div Word BY <1>2, <1>12 DEF Guest!Carrying
    <3> HIDE DEF g, F, S, p, q, o
    <3>3. (p + u32(n) + T) \div Word = Bit(p + u32(n) + T >= Word)
      BY <1>4, <1>8, <2>1, <3>1
    <3>. QED BY <2>2, <3>1, <3>2, <3>3
  <2>4. s[2] = Bit(p > u32(-n - 1))
    BY <1>12 DEF Summed, Add, Subtract, Additions, Subtractions, add32, u32
  <2>5. (p > u32(-n - 1)) <=> p + u32(n) + 0 >= Word
    <3>1. u32(-n - 1) = Word - 1 - u32(n)
      <4>1. -n - 1 = -1 - n BY <2>1
      <4>. QED BY <2>1, <4>1, Doublewords
    <3> DEFINE v == u32(n)
               w == u32(-n - 1)
    <3>2. w = Word - 1 - v /\ v \in 0 .. Word - 1 BY <2>1, <3>1
    <3> HIDE DEF v, w, p
    <3>3. p > w <=> p + v + 0 >= Word BY <1>1, <1>8, <3>2
    <3>. QED BY <3>3 DEF v, w
  <2>6. s[2] = g BY <2>3, <2>4, <2>5 DEF Bit
  <2>. QED BY <2>3, <2>6 DEF Bit
<1>13. CASE i.m = "addme"
  <2>1. (Word - 1) \in 0 .. Word - 1 BY <1>1, <1>8
  <2>2. F = a /\ S = DWord - 1 /\ T = ca
    BY <1>13, GuestWords DEF Guest!First, Guest!Second, Guest!Third, Guest!Negated,
      Guest!Extended, Guest!Ones, u64
  <2>3. g = Bit(p + (Word - 1) + ca >= Word)
    <3>1. u32(F) = p /\ u32(S) = (Word - 1) /\ T \in {0, 1}
      BY <1>3, <1>7, <2>1, <2>2
    <3>2. g = (u32(F) + u32(S) + T) \div Word BY <1>2, <1>13 DEF Guest!Carrying
    <3> HIDE DEF g, F, S, p, q, o
    <3>3. (p + (Word - 1) + T) \div Word = Bit(p + (Word - 1) + T >= Word)
      BY <1>4, <1>8, <2>1, <3>1
    <3>. QED BY <2>2, <3>1, <3>2, <3>3
  <2>4. s[2] = Bit(LET temp == u64(a + ca - 1) IN a > temp \/ (a = temp /\ ca = 1))
    BY <1>13 DEF Summed, Add, Subtract, Additions, Subtractions, add32, u32
  <2>5. (LET temp == u64(a + ca - 1) IN a > temp \/ (a = temp /\ ca = 1)) <=> p + (Word - 1) + ca >= Word
    BY <1>13, ExtendedEnds, MinusOne DEF SumField
  <2>6. s[2] = g BY <2>3, <2>4, <2>5 DEF Bit
  <2>. QED BY <2>3, <2>6 DEF Bit
<1>14. CASE i.m = "addze"
  <2>1. 0 \in 0 .. Word - 1 BY <1>1, <1>8
  <2>2. F = a /\ S = 0 /\ T = ca
    BY <1>14, GuestWords DEF Guest!First, Guest!Second, Guest!Third, Guest!Negated,
      Guest!Extended, Guest!Ones, u64
  <2>3. g = Bit(p + 0 + ca >= Word)
    <3>1. u32(F) = p /\ u32(S) = 0 /\ T \in {0, 1} BY <1>3, <1>7, <2>1, <2>2
    <3>2. g = (u32(F) + u32(S) + T) \div Word BY <1>2, <1>14 DEF Guest!Carrying
    <3> HIDE DEF g, F, S, p, q, o
    <3>3. (p + 0 + T) \div Word = Bit(p + 0 + T >= Word)
      BY <1>4, <1>8, <2>1, <3>1
    <3>. QED BY <2>2, <3>1, <3>2, <3>3
  <2>4. s[2] = Bit(u32(u64(a + ca)) < p)
    BY <1>14 DEF Summed, Add, Subtract, Additions, Subtractions, add32, u32
  <2>5. (u32(u64(a + ca)) < p) <=> p + 0 + ca >= Word
    <3>1. u32(u64(a + ca)) = u32(p + ca)
      <4>1. a + ca \in Int BY <1>1
      <4>. QED BY <1>1, <4>1, Doublewords
    <3>. QED BY <1>5, <1>8, <3>1
  <2>6. s[2] = g BY <2>3, <2>4, <2>5 DEF Bit
  <2>. QED BY <2>3, <2>6 DEF Bit
<1>15. CASE i.m = "subfc"
  <2>1. q \in 0 .. Word - 1 BY <1>1, <1>8
  <2>2. F = Not(a) /\ S = b /\ T = 1
    BY <1>15, GuestWords DEF Guest!First, Guest!Second, Guest!Third, Guest!Negated,
      Guest!Extended, Guest!Ones, u64
  <2>3. g = Bit(o + q + 1 >= Word)
    <3>1. u32(F) = o /\ u32(S) = q /\ T \in {0, 1} BY <1>3, <1>7, <2>1, <2>2
    <3>2. g = (u32(F) + u32(S) + T) \div Word BY <1>2, <1>15 DEF Guest!Carrying
    <3> HIDE DEF g, F, S, p, q, o
    <3>3. (o + q + T) \div Word = Bit(o + q + T >= Word)
      BY <1>4, <1>8, <2>1, <3>1
    <3>. QED BY <2>2, <3>1, <3>2, <3>3
  <2>4. s[2] = Bit(q >= p)
    BY <1>15 DEF Summed, Add, Subtract, Additions, Subtractions, add32, u32
  <2>5. (q >= p) <=> o + q + 1 >= Word
    <3>1. o = Word - 1 - p BY <1>6
    <3> HIDE DEF o, p, q
    <3>. QED BY <1>1, <1>8, <3>1
  <2>6. s[2] = g BY <2>3, <2>4, <2>5 DEF Bit
  <2>. QED BY <2>3, <2>6 DEF Bit
<1>16. CASE i.m = "subfe"
  <2>1. q \in 0 .. Word - 1 BY <1>1, <1>8
  <2>2. F = Not(a) /\ S = b /\ T = ca
    BY <1>16, GuestWords DEF Guest!First, Guest!Second, Guest!Third, Guest!Negated,
      Guest!Extended, Guest!Ones, u64
  <2>3. g = Bit(o + q + ca >= Word)
    <3>1. u32(F) = o /\ u32(S) = q /\ T \in {0, 1} BY <1>3, <1>7, <2>1, <2>2
    <3>2. g = (u32(F) + u32(S) + T) \div Word BY <1>2, <1>16 DEF Guest!Carrying
    <3> HIDE DEF g, F, S, p, q, o
    <3>3. (o + q + T) \div Word = Bit(o + q + T >= Word)
      BY <1>4, <1>8, <2>1, <3>1
    <3>. QED BY <2>2, <3>1, <3>2, <3>3
  <2>4. s[2] = Bit(u32(o + q) < o \/ u32(o + q + ca) < ca)
    BY <1>16 DEF Summed, Add, Subtract, Additions, Subtractions, add32, u32
  <2>5. (u32(o + q) < o \/ u32(o + q + ca) < ca) <=> o + q + ca >= Word
    BY <1>5, <1>8
  <2>6. s[2] = g BY <2>3, <2>4, <2>5 DEF Bit
  <2>. QED BY <2>3, <2>6 DEF Bit
<1>17. CASE i.m = "subfic"
  <2>1. n \in Int /\ u32(n) \in 0 .. Word - 1 BY <1>3, <1>17 DEF SumField
  <2>2. F = Not(a) /\ S = u64(n) /\ T = 1
    BY <1>17, GuestWords DEF Guest!First, Guest!Second, Guest!Third, Guest!Negated,
      Guest!Extended, Guest!Ones, u64
  <2>3. g = Bit(o + u32(n) + 1 >= Word)
    <3>1. u32(F) = o /\ u32(S) = u32(n) /\ T \in {0, 1}
      BY <1>3, <1>7, <2>1, <2>2
    <3>2. g = (u32(F) + u32(S) + T) \div Word BY <1>2, <1>17 DEF Guest!Carrying
    <3> HIDE DEF g, F, S, p, q, o
    <3>3. (o + u32(n) + T) \div Word = Bit(o + u32(n) + T >= Word)
      BY <1>4, <1>8, <2>1, <3>1
    <3>. QED BY <2>2, <3>1, <3>2, <3>3
  <2>4. s[2] = Bit(p <= u32(n))
    BY <1>17 DEF Summed, Add, Subtract, Additions, Subtractions, add32, u32
  <2>5. (p <= u32(n)) <=> o + u32(n) + 1 >= Word
    <3>1. o = Word - 1 - p BY <1>6
    <3> DEFINE v == u32(n)
    <3>2. v \in 0 .. Word - 1 BY <2>1
    <3> HIDE DEF o, p, v
    <3>3. p <= v <=> o + v + 1 >= Word BY <1>1, <1>8, <3>1, <3>2
    <3>. QED BY <3>3 DEF v
  <2>6. s[2] = g BY <2>3, <2>4, <2>5 DEF Bit
  <2>. QED BY <2>3, <2>6 DEF Bit
<1>18. CASE i.m = "subfme"
  <2>1. (Word - 1) \in 0 .. Word - 1 BY <1>1, <1>8
  <2>2. F = Not(a) /\ S = DWord - 1 /\ T = ca
    BY <1>18, GuestWords DEF Guest!First, Guest!Second, Guest!Third, Guest!Negated,
      Guest!Extended, Guest!Ones, u64
  <2>3. g = Bit(o + (Word - 1) + ca >= Word)
    <3>1. u32(F) = o /\ u32(S) = (Word - 1) /\ T \in {0, 1}
      BY <1>3, <1>7, <2>1, <2>2
    <3>2. g = (u32(F) + u32(S) + T) \div Word BY <1>2, <1>18 DEF Guest!Carrying
    <3> HIDE DEF g, F, S, p, q, o
    <3>3. (o + (Word - 1) + T) \div Word = Bit(o + (Word - 1) + T >= Word)
      BY <1>4, <1>8, <2>1, <3>1
    <3>. QED BY <2>2, <3>1, <3>2, <3>3
  <2>4. s[2] = Bit(LET temp == u64(Not(a) + ca - 1) IN temp < Not(a) \/ (temp = Not(a) /\ ca = 1))
    BY <1>18 DEF Summed, Add, Subtract, Additions, Subtractions, add32, u32
  <2>5. (LET temp == u64(Not(a) + ca - 1) IN temp < Not(a) \/ (temp = Not(a) /\ ca = 1)) <=> o + (Word - 1) + ca >= Word
    <3>1. u32(Not(a)) = 0 => Not(a) = 0 BY <1>18, ExtendedEnds DEF SumField
    <3> DEFINE x == Not(a)
               temp == u64(x + ca - 1)
    <3>2. (x > temp \/ (x = temp /\ ca = 1)) <=> u32(x) + (Word - 1) + ca >= Word
      BY <1>1, <3>1, MinusOne
    <3>3. temp \in Int /\ x \in Int BY <1>1, Doublewords
    <3>4. x > temp <=> temp < x
      <4> HIDE DEF temp, x
      <4>. QED BY <3>3
    <3>. QED BY <3>2, <3>4
  <2>6. s[2] = g BY <2>3, <2>4, <2>5 DEF Bit
  <2>. QED BY <2>3, <2>6 DEF Bit
<1>19. CASE i.m = "subfze"
  <2>1. 0 \in 0 .. Word - 1 BY <1>1, <1>8
  <2>2. F = Not(a) /\ S = 0 /\ T = ca
    BY <1>19, GuestWords DEF Guest!First, Guest!Second, Guest!Third, Guest!Negated,
      Guest!Extended, Guest!Ones, u64
  <2>3. g = Bit(o + 0 + ca >= Word)
    <3>1. u32(F) = o /\ u32(S) = 0 /\ T \in {0, 1} BY <1>3, <1>7, <2>1, <2>2
    <3>2. g = (u32(F) + u32(S) + T) \div Word BY <1>2, <1>19 DEF Guest!Carrying
    <3> HIDE DEF g, F, S, p, q, o
    <3>3. (o + 0 + T) \div Word = Bit(o + 0 + T >= Word)
      BY <1>4, <1>8, <2>1, <3>1
    <3>. QED BY <2>2, <3>1, <3>2, <3>3
  <2>4. s[2] = Bit(u64(Not(a) + ca) < ca)
    BY <1>19 DEF Summed, Add, Subtract, Additions, Subtractions, add32, u32
  <2>5. (u64(Not(a) + ca) < ca) <=> o + 0 + ca >= Word
    <3> DEFINE x == Not(a)
               temp == u64(x + ca)
    <3>1. p = 0 => a = 0 BY <1>19, ExtendedEnds DEF SumField
    <3>2. o = Word - 1 - p BY <1>6
    <3>3. \A y \in Register : u64(y) = y
      BY InRegister DEF u64, Low, DWord, Register
    <3>4. CASE ca = 0
      <4>1. temp \in Nat
        <5>1. x + ca \in Int BY <1>1
        <5>2. temp \in Register BY <5>1, Doublewords
        <5>3. \A y \in Register : y \in Nat BY <1>1 DEF Register
        <5>. QED BY <5>2, <5>3
      <4> HIDE DEF temp, o, p
      <4>2. ~(temp < ca) /\ ~(o + 0 + ca >= Word) BY <1>1, <1>8, <3>4, <4>1
      <4>. QED BY <4>2 DEF temp
    <3>5. CASE ca = 1 /\ a = 0
      <4>1. x + ca = 0 + DWord /\ 0 \in Int /\ x + ca \in Int BY <1>1, <3>5
      <4>2. temp = 0
        <5>1. u64(x + ca) = u64(0) BY <4>1, Doublewords
        <5>. QED BY <3>3, <5>1, ZeroRegister
      <4>3. p = 0 BY <1>7, <3>5
      <4> HIDE DEF temp, o, p
      <4>4. temp < ca /\ o + 0 + ca >= Word BY <1>1, <3>2, <3>5, <4>2, <4>3
      <4>. QED BY <4>4 DEF temp
    <3>6. CASE ca = 1 /\ a # 0
      <4>1. x + ca \in Register /\ x + ca >= 1 BY <1>1, <3>6 DEF Register
      <4>2. temp = x + ca BY <3>3, <4>1
      <4>3. p # 0 BY <3>1, <3>6
      <4>4. x \in Int BY <1>1
      <4> HIDE DEF temp, o, p, x
      <4>5. ~(temp < ca) /\ ~(o + 0 + ca >= Word)
        BY <1>1, <1>8, <3>2, <3>6, <4>1, <4>2, <4>3, <4>4
      <4>. QED BY <4>5 DEF temp, x
    <3>. QED BY <3>4, <3>5, <3>6
  <2>6. s[2] = g BY <2>3, <2>4, <2>5 DEF Bit
  <2>. QED BY <2>3, <2>6 DEF Bit
<1>. QED
  BY <1>9, <1>10, <1>11, <1>12, <1>13, <1>14, <1>15, <1>16,
     <1>17, <1>18, <1>19 DEF Additions, Subtractions

-----------------------------------------------------------------------------
(* Products and quotients.                                                  *)

LEMMA QuotientBelow ==
  ASSUME NEW M \in Nat \ {0}, NEW N \in Nat \ {0}, NEW x \in Nat, x < M * N
  PROVE  x \div M \in 0 .. N - 1
<1> DEFINE q == x \div M
           e == x % M
<1>1. q \in Nat /\ e \in 0 .. M - 1 /\ x = q * M + e
  <2>1. x \in Int OBVIOUS
  <2>. QED BY <2>1, Remainder
<1> HIDE DEF q, e
<1>2. ASSUME q >= N
      PROVE  FALSE
  <2>1. q * M >= N * M /\ q * M \in Nat /\ N * M = M * N BY <1>1, <1>2
  <2>. QED BY <1>1, <2>1
<1>. QED BY <1>1, <1>2 DEF q

LEMMA ProductBelow ==
  ASSUME NEW M \in Nat \ {0}, NEW x \in 0 .. M - 1, NEW y \in 0 .. M - 1
  PROVE  x * y \in Nat /\ x * y < M * M
<1>1. x * y \in Nat /\ x * y <= (M - 1) * y /\ (M - 1) * y <= (M - 1) * M /\ (M - 1) * M < M * M
  <2>1. x * y \in Nat /\ x * y <= (M - 1) * y OBVIOUS
  <2>2. (M - 1) * y <= (M - 1) * M /\ (M - 1) * M < M * M OBVIOUS
  <2>. QED BY <2>1, <2>2
<1> DEFINE u == x * y
           v == (M - 1) * y
           w == (M - 1) * M
           z == M * M
<1>2. u \in Int /\ v \in Int /\ w \in Int /\ z \in Int OBVIOUS
<1>3. u <= v /\ v <= w /\ w < z BY <1>1
<1> HIDE DEF u, v, w, z
<1>4. u < z BY <1>2, <1>3
<1>. QED BY <1>1, <1>4 DEF u, z

\* The products of the halves make up the product.
LEMMA Halves ==
  ASSUME NEW K \in Nat \ {0}, NEW a1 \in Nat, NEW a0 \in Nat, NEW b1 \in Nat, NEW b0 \in Nat,
         NEW h0 \in Nat, NEW l0 \in 0 .. K - 1, a0 * b0 = h0 * K + l0,
         NEW h1 \in Nat, NEW l1 \in 0 .. K - 1, a1 * b0 = h1 * K + l1,
         NEW h2 \in Nat, NEW l2 \in 0 .. K - 1, a0 * b1 = h2 * K + l2,
         NEW hc \in Nat, NEW lc \in 0 .. K - 1, h0 + l1 + l2 = hc * K + lc
  PROVE  /\ (a1 * K + a0) * (b1 * K + b0)
            = (a1 * b1 + h1 + h2 + hc) * (K * K) + (lc * K + l0)
         /\ lc * K + l0 \in 0 .. K * K - 1
<1>1. (a1 * K + a0) * (b1 * K + b0) = (a1 * b1) * (K * K) + (a1 * b0) * K + (a0 * b1) * K + a0 * b0
  OBVIOUS
<1>2. (a1 * b0) * K = h1 * (K * K) + l1 * K OBVIOUS
<1>3. (a0 * b1) * K = h2 * (K * K) + l2 * K OBVIOUS
<1>4. h0 * K + l1 * K + l2 * K = hc * (K * K) + lc * K
  <2>1. (h0 + l1 + l2) * K = (hc * K + lc) * K OBVIOUS
  <2>2. (h0 + l1 + l2) * K = h0 * K + l1 * K + l2 * K OBVIOUS
  <2>3. (hc * K + lc) * K = hc * (K * K) + lc * K OBVIOUS
  <2>. QED BY <2>1, <2>2, <2>3
<1> DEFINE s == (a1 * b1) * (K * K)
           s1 == h1 * (K * K)
           s2 == h2 * (K * K)
           sc == hc * (K * K)
           t == lc * K
<1>5. s \in Int /\ s1 \in Int /\ s2 \in Int /\ sc \in Int /\ t \in Int
      /\ h0 * K \in Int /\ l1 * K \in Int /\ l2 * K \in Int
  OBVIOUS
<1>6. (a1 * b1 + h1 + h2 + hc) * (K * K) = s + s1 + s2 + sc OBVIOUS
<1>7. (a1 * K + a0) * (b1 * K + b0) = s + (s1 + l1 * K) + (s2 + l2 * K) + (h0 * K + l0)
  BY <1>1, <1>2, <1>3
<1>8. s + (s1 + l1 * K) + (s2 + l2 * K) + (h0 * K + l0) = s + s1 + s2 + sc + (t + l0)
  <2> HIDE DEF s, s1, s2, sc
  <2>1. h0 * K + l1 * K + l2 * K = sc + t BY <1>4 DEF sc
  <2> DEFINE u0 == h0 * K
             u1 == l1 * K
             u2 == l2 * K
  <2>2. u0 + u1 + u2 = sc + t /\ u0 \in Int /\ u1 \in Int /\ u2 \in Int /\ l0 \in Int
    BY <1>5, <2>1
  <2> HIDE DEF u0, u1, u2, t
  <2>3. s + (s1 + u1) + (s2 + u2) + (u0 + l0) = s + s1 + s2 + sc + (t + l0)
    BY <1>5, <2>2
  <2>. QED BY <2>3 DEF u0, u1, u2
<1>9. t + l0 \in 0 .. K * K - 1
  <2>1. t <= (K - 1) * K /\ (K - 1) * K = K * K - K /\ t >= 0 OBVIOUS
  <2>. QED BY <1>5, <2>1
<1>. QED BY <1>6, <1>7, <1>8, <1>9

\* The high half of a product of signed or unsigned words.
LEMMA HighHalf ==
  ASSUME NEW a \in Register, NEW b \in Register
  PROVE  mulhu(a, b) \in Register /\ mulhu(a, b) = (a * b) \div DWord
<1> DEFINE K == Word
           a_lo == a % K
           a_hi == a \div K
           b_lo == b % K
           b_hi == b \div K
           cross == ((a_lo * b_lo) \div K) + ((a_hi * b_lo) % K) + ((a_lo * b_hi) % K)
           high == a_hi * b_hi + ((a_hi * b_lo) \div K) + ((a_lo * b_hi) \div K) + (cross \div K)
<1>1. mulhu(a, b) = high BY DEF mulhu, u32, Low, Word
<1>2. K \in Nat \ {0} /\ DWord = K * K /\ a \in Nat /\ b \in Nat
  BY Width DEF Register
<1> HIDE DEF K
<1>3. \A x \in Nat : x \div K \in Nat /\ x % K \in 0 .. K - 1 /\ x = (x \div K) * K + (x % K)
  <2>1. \A x \in Nat : x \in Int OBVIOUS
  <2>. QED BY <1>2, <2>1, Remainder
<1>4. /\ a_hi \in Nat /\ a_lo \in 0 .. K - 1 /\ a_lo \in Nat /\ a = a_hi * K + a_lo
      /\ b_hi \in Nat /\ b_lo \in 0 .. K - 1 /\ b_lo \in Nat /\ b = b_hi * K + b_lo
  <2>1. 0 .. K - 1 \subseteq Nat BY <1>2
  <2>. QED BY <1>2, <1>3, <2>1
<1> HIDE DEF a_lo, a_hi, b_lo, b_hi
<1> DEFINE m0 == a_lo * b_lo
           m1 == a_hi * b_lo
           m2 == a_lo * b_hi
<1>5. m0 \in Nat /\ m1 \in Nat /\ m2 \in Nat BY <1>4
<1> DEFINE h0 == m0 \div K
           l0 == m0 % K
           h1 == m1 \div K
           l1 == m1 % K
           h2 == m2 \div K
           l2 == m2 % K
<1>6. /\ h0 \in Nat /\ l0 \in 0 .. K - 1 /\ m0 = h0 * K + l0
      /\ h1 \in Nat /\ l1 \in 0 .. K - 1 /\ m1 = h1 * K + l1
      /\ h2 \in Nat /\ l2 \in 0 .. K - 1 /\ m2 = h2 * K + l2
  <2> HIDE DEF m0, m1, m2
  <2>. QED BY <1>3, <1>5
<1>7. cross = h0 + l1 + l2 OBVIOUS
<1> HIDE DEF h0, l0, h1, l1, h2, l2, cross
<1>8. cross \in Nat BY <1>2, <1>6, <1>7
<1> DEFINE hc == cross \div K
           lc == cross % K
<1>9. hc \in Nat /\ lc \in 0 .. K - 1 /\ h0 + l1 + l2 = hc * K + lc
  BY <1>3, <1>7, <1>8
<1>10. high = a_hi * b_hi + h1 + h2 + hc BY DEF h1, h2
<1> HIDE DEF hc, lc, high
<1>11. /\ (a_hi * K + a_lo) * (b_hi * K + b_lo)
          = (a_hi * b_hi + h1 + h2 + hc) * (K * K) + (lc * K + l0)
       /\ lc * K + l0 \in 0 .. K * K - 1
  BY <1>2, <1>4, <1>6, <1>9, Halves
<1> DEFINE e == lc * K + l0
<1>12. a * b = high * DWord + e /\ e \in 0 .. DWord - 1
  BY <1>2, <1>4, <1>10, <1>11, Zenon
<1>13. high \in Int /\ DWord \in Nat \ {0}
  <2>1. a_hi * b_hi \in Int BY <1>4
  <2>. QED BY <1>2, <1>6, <1>9, <1>10, <2>1, Width
<1> HIDE DEF e
<1>14. (a * b) \div DWord = high
  <2>1. (high * DWord + e) \div DWord = high BY <1>12, <1>13, Division
  <2>. QED BY <1>12, <2>1
<1>15. (a * b) \div DWord \in Register
  <2>1. a \in 0 .. DWord - 1 /\ b \in 0 .. DWord - 1 BY DEF Register
  <2>2. a * b \in Nat /\ a * b < DWord * DWord BY <1>13, <2>1, ProductBelow
  <2> DEFINE x == a * b
  <2>3. x \in Nat /\ x < DWord * DWord BY <2>2
  <2> HIDE DEF x
  <2>4. x \div DWord \in 0 .. DWord - 1 BY <1>13, <2>3, QuotientBelow
  <2>. QED BY <2>4 DEF x, Register
<1>. QED BY <1>1, <1>14, <1>15

\* / of C rounds to zero.
LEMMA QuotientIs ==
  ASSUME NEW x \in Int, NEW y \in Int, y # 0
  PROVE  LET q == Quotient(x, y)
             X == IF x < 0 THEN -x ELSE x
             Y == IF y < 0 THEN -y ELSE y
         IN  /\ q \in Int /\ Guest!IsQuotient(q, x, y)
             /\ q = (IF (x < 0) = (y < 0) THEN X \div Y ELSE -(X \div Y))
             /\ X \div Y \in Nat /\ X \div Y <= X /\ (Y >= 2 => 2 * (X \div Y) <= X)
<1> DEFINE X == IF x < 0 THEN -x ELSE x
           Y == IF y < 0 THEN -y ELSE y
           m == X \div Y
           e == X % Y
           q == Quotient(x, y)
           v == q * y
<1>1. X \in Nat /\ X \in Int /\ Y \in Nat \ {0} OBVIOUS
<1>2. m \in Nat /\ e \in 0 .. Y - 1 /\ X = m * Y + e
  <2> HIDE DEF X, Y
  <2>. QED BY <1>1, Remainder
<1>3. q = (IF (x < 0) = (y < 0) THEN m ELSE -m) BY DEF Quotient
<1> HIDE DEF m, e, q
<1>4. v \in Int /\ Guest!Magnitude(v) = m * Y
  <2> DEFINE z == m * Y
  <2>1. z \in Nat BY <1>1, <1>2
  <2>2. v = z \/ v = -z
    <3>1. CASE y < 0
      <4>1. z = -(m * y) /\ q * y = (IF x < 0 THEN m * y ELSE -(m * y))
        BY <1>2, <1>3, <3>1
      <4>2. m * y \in Int BY <1>2
      <4>. QED BY <4>1, <4>2
    <3>2. CASE ~(y < 0)
      <4>1. z = m * y /\ q * y = (IF x < 0 THEN -(m * y) ELSE m * y)
        BY <1>2, <1>3, <3>2
      <4>2. m * y \in Int BY <1>2
      <4>. QED BY <4>1, <4>2
    <3>. QED BY <3>1, <3>2
  <2> HIDE DEF z, v
  <2>3. v \in Int /\ Guest!Magnitude(v) = z BY <2>1, <2>2 DEF Guest!Magnitude
  <2>. QED BY <2>3 DEF z
<1>5. Guest!Magnitude(x) = X /\ Guest!Magnitude(y) = Y BY DEF Guest!Magnitude
<1>6. q \in Int /\ (q # 0 => ((q < 0) <=> ~((x < 0) <=> (y < 0)))) BY <1>2, <1>3
<1>7. m <= X /\ (Y >= 2 => 2 * m <= X)
  <2>1. m * Y >= m /\ (Y >= 2 => m * Y >= 2 * m) /\ m * Y \in Int BY <1>1, <1>2
  <2> DEFINE z == m * Y
  <2>2. z >= m /\ (Y >= 2 => z >= 2 * m) /\ z \in Int /\ X = z + e BY <1>2, <2>1
  <2> HIDE DEF z, X, Y
  <2>. QED BY <1>1, <1>2, <2>2
<1>8. m * Y <= X /\ X - m * Y < Y
  <2> DEFINE z == m * Y
  <2>1. z \in Int /\ X = z + e BY <1>1, <1>2
  <2> HIDE DEF z, X, Y
  <2>2. z <= X /\ X - z < Y BY <1>1, <1>2, <2>1
  <2>. QED BY <2>2 DEF z
<1>9. Guest!IsQuotient(q, x, y)
  <2>1. /\ Guest!Magnitude(q * y) <= Guest!Magnitude(x)
        /\ Guest!Magnitude(x) - Guest!Magnitude(q * y) < Guest!Magnitude(y)
    BY <1>4, <1>5, <1>8
  <2>2. q # 0 => ((q < 0) <=> ((x < 0) # (y < 0))) BY <1>6
  <2>. QED BY <2>1, <2>2 DEF Guest!IsQuotient
<1>. QED BY <1>2, <1>3, <1>6, <1>7, <1>9 DEF q, m

\* The number of n bits that are signed is found again.
LEMMA SignedOf ==
  ASSUME NEW n \in Nat \ {0}, NEW x \in Int, NEW q \in -2 ^ (n - 1) .. 2 ^ (n - 1) - 1,
         x % 2 ^ n = q % 2 ^ n
  PROVE  Signed(n, x) = q
<1> DEFINE M == 2 ^ n
           H == 2 ^ (n - 1)
<1>1. H \in Nat \ {0} /\ M = 2 * H BY SignedRange
<1>2. Signed(n, x) = IF x % M < H THEN x % M ELSE (x % M) - M BY DEF Signed, Low
<1>3. q \in -H .. H - 1 /\ x % M = q % M OBVIOUS
<1> HIDE DEF M, H
<1>4. q % M = IF q < 0 THEN q + M ELSE q
  <2>1. M \in Nat \ {0} /\ \A u \in Int : \A v \in 0 .. M - 1 : (u * M + v) % M = v
    BY <1>1, Division
  <2>2. CASE q < 0
    <3>1. (-1) * M + (q + M) = q /\ q + M \in 0 .. M - 1 /\ -1 \in Int
      BY <1>1, <1>3, <2>2
    <3>. QED BY <2>1, <2>2, <3>1, ZenonT(30)
  <2>3. CASE ~(q < 0)
    <3>1. 0 * M + q = q /\ q \in 0 .. M - 1 /\ 0 \in Int BY <1>1, <1>3, <2>3
    <3>. QED BY <2>1, <2>3, <3>1, ZenonT(30)
  <2>. QED BY <2>2, <2>3
<1>5. Signed(n, x) = q BY <1>1, <1>2, <1>3, <1>4
<1>. QED BY <1>5

\* A quotient that the host computes fits.
LEMMA QuotientFits ==
  ASSUME NEW n \in Nat \ {0}, NEW a \in Int, NEW b \in Int, Low(n, b) # 0,
         ~(Low(n, a) = 2 ^ (n - 1) /\ Low(n, b) = 2 ^ n - 1)
  PROVE  LET q == Quotient(Signed(n, a), Signed(n, b))
         IN  /\ q \in -2 ^ (n - 1) .. 2 ^ (n - 1) - 1
             /\ Guest!IsQuotient(q, Signed(n, a), Signed(n, b))
<1> DEFINE M == 2 ^ n
           H == 2 ^ (n - 1)
           x == Signed(n, a)
           y == Signed(n, b)
           q == Quotient(x, y)
           X == IF x < 0 THEN -x ELSE x
           Y == IF y < 0 THEN -y ELSE y
           m == X \div Y
<1>1. H \in Nat \ {0} /\ M = 2 * H /\ M \in Nat \ {0}
  <2>1. H \in Nat \ {0} /\ M = 2 * H BY SignedRange
  <2> HIDE DEF H, M
  <2>. QED BY <2>1
<1>2. x \in -H .. H - 1 /\ y \in -H .. H - 1 BY SignedRange
<1>3. /\ Low(n, a) \in 0 .. M - 1 /\ Low(n, b) \in 0 .. M - 1
      /\ x = (IF Low(n, a) < H THEN Low(n, a) ELSE Low(n, a) - M)
      /\ y = (IF Low(n, b) < H THEN Low(n, b) ELSE Low(n, b) - M)
  BY <1>1, Remainder DEF Low, Signed
<1> HIDE DEF M, H, x, y
<1>4. y # 0 /\ ~(x = -H /\ y = -1) /\ x \in Int /\ y \in Int
  <2>1. ~(Low(n, a) = H /\ Low(n, b) = M - 1) /\ Low(n, b) # 0 BY DEF H, M
  <2>. QED BY <1>1, <1>2, <1>3, <2>1
<1>5. /\ q \in Int /\ Guest!IsQuotient(q, x, y)
      /\ q = (IF (x < 0) = (y < 0) THEN m ELSE -m)
      /\ m \in Nat /\ m <= X /\ (Y >= 2 => 2 * m <= X)
  BY <1>4, QuotientIs
<1> HIDE DEF m, q
<1>6. q \in -H .. H - 1
  <2>1. CASE Y >= 2
    <3>1. 2 * m <= H /\ m <= H - 1 BY <1>1, <1>2, <1>5, <2>1
    <3>. QED BY <1>1, <1>5, <3>1
  <2>2. CASE y = 1
    <3>1. m <= H /\ ((x < 0) = (y < 0) => m <= H - 1) BY <1>1, <1>2, <1>5, <2>2
    <3>. QED BY <1>1, <1>5, <3>1
  <2>3. CASE y = -1
    <3>1. m <= H /\ ((x < 0) = (y < 0) => m <= H - 1)
      BY <1>1, <1>2, <1>4, <1>5, <2>3
    <3>. QED BY <1>1, <1>5, <3>1
  <2>4. Y >= 2 \/ y = 1 \/ y = -1 BY <1>4
  <2>. QED BY <2>1, <2>2, <2>3, <2>4
<1>. QED BY <1>5, <1>6 DEF q, x, y, H

LEMMA QuotientOfNaturals ==
  ASSUME NEW x \in Nat, NEW y \in Nat \ {0}
  PROVE  /\ Guest!IsQuotient(Quotient(x, y), x, y) /\ Quotient(x, y) = x \div y
         /\ x \div y \in Nat /\ x \div y <= x
<1> DEFINE q == Quotient(x, y)
           X == IF x < 0 THEN -x ELSE x
           Y == IF y < 0 THEN -y ELSE y
<1>1. ~(x < 0) /\ ~(y < 0) /\ y # 0 /\ x \in Int /\ y \in Int OBVIOUS
<1>2. X = x /\ Y = y BY <1>1
<1>3. /\ Guest!IsQuotient(q, x, y)
      /\ q = (IF (x < 0) = (y < 0) THEN X \div Y ELSE -(X \div Y))
      /\ X \div Y \in Nat /\ X \div Y <= X
  BY <1>1, QuotientIs
<1> HIDE DEF X, Y, q
<1>4. (x < 0) = (y < 0) BY <1>1
<1>5. q = X \div Y BY <1>3, <1>4
<1>. QED BY <1>2, <1>3, <1>5 DEF q

\* A register whose low word is replaced, as the update forms do.
LEMMA LowReplaced ==
  ASSUME NEW old \in Register, NEW v \in 0 .. Word - 1
  PROVE  LET x == old - u32(old) + v
         IN  x \in Register /\ x \in Int /\ u32(x) = v
<1> DEFINE K == Word
           h == old \div K
           e == old % K
           x == old - u32(old) + v
<1>1. K \in Nat \ {0} /\ DWord = K * K /\ old \in Nat /\ old < K * K
  BY Width DEF Register
<1>2. u32(old) = e /\ \A z \in Int : u32(z) = z % K BY DEF u32, Low, Word
<1>3. v \in 0 .. K - 1 OBVIOUS
<1> HIDE DEF K
<1>4. h \in 0 .. K - 1 /\ e \in Int /\ old = h * K + e
  <2>1. old \in Int BY <1>1
  <2>2. h \in Int /\ e \in 0 .. K - 1 /\ old = h * K + e
    BY <1>1, <2>1, Remainder
  <2>3. h \in 0 .. K - 1
    <3>1. \A M, N \in Nat \ {0} : \A z \in Nat : z < M * N => z \div M \in 0 .. N - 1
      BY QuotientBelow
    <3>. QED BY <1>1, <3>1, Zenon
  <2> HIDE DEF h, e
  <2>. QED BY <1>1, <2>2, <2>3
<1> HIDE DEF h, e
<1>5. x = h * K + v
  <2>1. h * K \in Int BY <1>1, <1>4
  <2>. QED BY <1>2, <1>3, <1>4, <2>1
<1>6. h * K + v \in 0 .. K * K - 1
  <2>1. h * K <= (K - 1) * K /\ (K - 1) * K = K * K - K /\ h * K >= 0 /\ h * K \in Int
    BY <1>1, <1>4
  <2>. QED BY <1>1, <1>3, <2>1
<1>7. (h * K + v) % K = v
  <2>1. h \in Int BY <1>4
  <2>. QED BY <1>1, <1>3, <2>1, Division
<1> HIDE DEF x
<1>8. x \in Register /\ x \in Int BY <1>1, <1>5, <1>6 DEF Register
<1>9. u32(x) = v BY <1>2, <1>5, <1>7, <1>8
<1>. QED BY <1>8, <1>9 DEF x

\* The host's division instructions fault on the quotients this leaves out.
ProductField(i, a, b) ==
  /\ i.m = "mulli" => i.imm \in Int
  /\ i.m \in {"divw", "divwu", "divd", "divdu"} => Divisible(i, a, b)

\* Products and quotients, as far as the console defines them.
LEMMA ProductsAgree ==
  ASSUME NEW i, i.m \in Products, NEW a \in Register, NEW b \in Register, ProductField(i, a, b),
         NEW old \in Register
  PROVE  LET x == Multiply(i.m, a, b, i.imm, old)
         IN  /\ x \in Register
             /\ i.m \in Guest!Products => Guest!Multiplied(i.m, a, b, i.imm) = x
             /\ i.m \in Guest!HighUndefined => Guest!MayBe(i.m, a, b, x)
             /\ i.m \in Guest!Divisions => Guest!Divides(i.m, a, b, x)
<1> DEFINE x == Multiply(i.m, a, b, i.imm, old)
           p == u32(a)
           q == u32(b)
<1>1. /\ W \in Nat \ {0} /\ 2 * W \in Nat \ {0} /\ a \in Nat /\ b \in Nat /\ a \in Int /\ b \in Int
      /\ Word \in Nat \ {0} /\ DWord \in Nat \ {0}
  BY Width DEF Register
<1>2. \A y \in Int : u64(y) \in Register /\ u32(u64(y)) = u32(y) /\ u32(y) \in 0 .. Word - 1
  BY Doublewords
<1>3. s32(a) \in Int /\ s32(b) \in Int /\ s64(a) \in Int /\ s64(b) \in Int
  <2>1. 0 \in Nat OBVIOUS
  <2>. QED BY <1>1, <2>1, OnSigned DEF s32, s64
<1>4. p \in 0 .. Word - 1 /\ q \in 0 .. Word - 1 BY <1>1, <1>2
<1>5. /\ Guest!s32(a) = s32(a) /\ Guest!s32(b) = s32(b) /\ Guest!s64(a) = s64(a) /\ Guest!s64(b) = s64(b)
      /\ \A y : Guest!s32(y) = s32(y) /\ Guest!s64(y) = s64(y)
  BY GuestWords DEF Guest!s32, Guest!s64, s32, s64
<1>6. CASE i.m \in {"mulli", "mullw", "mulld"}
  <2> DEFINE y == CASE i.m = "mulli" -> s64(a) * i.imm
                    [] i.m = "mullw" -> s32(a) * s32(b)
                    [] i.m = "mulld" -> s64(a) * s64(b)
  <2>1. y \in Int
    <3>1. i.m = "mulli" => i.imm \in Int BY DEF ProductField
    <3>. QED BY <1>3, <1>6, <3>1
  <2>2. x = u64(y) /\ Guest!Multiplied(i.m, a, b, i.imm) = u64(y)
    BY <1>5, <1>6, GuestWords DEF Multiply, Guest!Multiplied, u64
  <2>3. i.m \notin Guest!HighUndefined /\ i.m \notin Guest!Divisions
    BY <1>6 DEF Guest!HighUndefined, Guest!Divisions
  <2>. QED BY <1>2, <2>1, <2>2, <2>3
<1>7. CASE i.m = "mulhdu"
  <2>1. x = mulhu(a, b) /\ Guest!Multiplied(i.m, a, b, i.imm) = (a * b) \div DWord
    BY <1>7, GuestWords DEF Multiply, Guest!Multiplied
  <2>2. i.m \notin Guest!HighUndefined /\ i.m \notin Guest!Divisions
    BY <1>7 DEF Guest!HighUndefined, Guest!Divisions
  <2>. QED BY <2>1, <2>2, HighHalf
<1>8. CASE i.m = "mulhw"
  <2> DEFINE y == s32(a) * s32(b)
             z == y \div Word
  <2>1. y \in Int BY <1>3
  <2>2. z \in Int
    <3> HIDE DEF y
    <3>. QED BY <1>1, <2>1, Remainder
  <2>3. x = u64(z) /\ Guest!MayBe(i.m, a, b, x) = (u32(x) = u32(z))
    BY <1>5, <1>8, GuestWords DEF Multiply, Guest!MayBe, ShiftRight, u32, Word
  <2>4. i.m \notin Guest!Products /\ i.m \notin Guest!Divisions
    BY <1>8 DEF Guest!Products, Guest!Divisions
  <2> HIDE DEF x, z
  <2>. QED BY <1>2, <2>2, <2>3, <2>4 DEF x
<1>9. CASE i.m = "mulhwu"
  <2> DEFINE z == (p * q) \div Word
  <2>1. z \in 0 .. Word - 1
    <3>1. p * q \in Nat /\ p * q < Word * Word BY <1>1, <1>4, ProductBelow
    <3> DEFINE y == p * q
    <3>2. y \in Nat /\ y < Word * Word BY <3>1
    <3> HIDE DEF y
    <3>3. y \div Word \in 0 .. Word - 1 BY <1>1, <3>2, QuotientBelow
    <3>. QED BY <3>3 DEF y
  <2>2. x = z /\ Guest!MayBe(i.m, a, b, x) = (u32(x) = z)
    BY <1>9, GuestWords DEF Multiply, Guest!MayBe, ShiftRight, u32, Word
  <2>3. i.m \notin Guest!Products /\ i.m \notin Guest!Divisions
    BY <1>9 DEF Guest!Products, Guest!Divisions
  <2> HIDE DEF z
  <2>4. z \in Register /\ u32(z) = z
    <3>1. z \in 0 .. 2 ^ W - 1 /\ W <= 2 * W /\ W \in Nat BY <1>1, <2>1 DEF Word
    <3>. QED BY <3>1, PartOfRegister DEF u32, Low
  <2>. QED BY <2>2, <2>3, <2>4
<1>10. CASE i.m = "divd"
  <2> DEFINE y == Quotient(s64(a), s64(b))
  <2>1. Low(2 * W, b) # 0 /\ ~(Low(2 * W, a) = 2 ^ (2 * W - 1) /\ Low(2 * W, b) = 2 ^ (2 * W) - 1)
    BY <1>10 DEF ProductField, Divisible
  <2>2. /\ y \in -2 ^ (2 * W - 1) .. 2 ^ (2 * W - 1) - 1
        /\ Guest!IsQuotient(y, s64(a), s64(b))
    BY <1>1, <2>1, QuotientFits DEF s64
  <2>3. y \in Int
    <3>1. 2 ^ (2 * W - 1) \in Nat \ {0} BY <1>1, SignedRange
    <3> HIDE DEF y
    <3>. QED BY <2>2, <3>1
  <2>4. x = u64(y) /\ Guest!Divides(i.m, a, b, x) = Guest!IsQuotient(s64(x), s64(a), s64(b))
    BY <1>5, <1>10 DEF Multiply, Guest!Divides
  <2>5. s64(u64(y)) = y
    <3> HIDE DEF y
    <3>1. u64(y) % 2 ^ (2 * W) = y % 2 ^ (2 * W) /\ u64(y) \in Int
      <4>1. (y % DWord) % DWord = y % DWord /\ y % DWord \in Int
        <5>1. y % DWord \in 0 .. DWord - 1 BY <1>1, <2>3, Remainder
        <5>2. y % DWord \in Register /\ y % DWord \in Int
          BY <1>1, <5>1 DEF Register
        <5>. QED BY <5>2, InRegister
      <4>. QED BY <4>1 DEF u64, Low, DWord
    <3>. QED BY <1>1, <2>2, <3>1, SignedOf DEF s64
  <2>6. i.m \notin Guest!Products /\ i.m \notin Guest!HighUndefined
    BY <1>10 DEF Guest!Products, Guest!HighUndefined
  <2> HIDE DEF y
  <2>. QED BY <1>2, <2>2, <2>3, <2>4, <2>5, <2>6
<1>11. CASE i.m = "divdu"
  <2>1. Low(2 * W, b) # 0 BY <1>11 DEF ProductField, Divisible
  <2>2. Low(2 * W, b) = b BY InRegister DEF Register, DWord, Low
  <2>3. b # 0 BY <1>1, <2>1, <2>2
  <2> DEFINE y == a \div b
  <2>4. Guest!IsQuotient(Quotient(a, b), a, b) /\ Quotient(a, b) = y /\ y \in Nat /\ y <= a
    BY <1>1, <2>3, QuotientOfNaturals
  <2>5. x = y /\ Guest!Divides(i.m, a, b, x) = Guest!IsQuotient(x, a, b)
    BY <1>11 DEF Multiply, Guest!Divides
  <2>6. i.m \notin Guest!Products /\ i.m \notin Guest!HighUndefined
    BY <1>11 DEF Guest!Products, Guest!HighUndefined
  <2>7. y \in Register
    <3> HIDE DEF y
    <3>. QED BY <1>1, <2>4 DEF Register
  <2>. QED BY <2>4, <2>5, <2>6, <2>7
<1>12. CASE i.m = "divw"
  <2> DEFINE y == Quotient(s32(a), s32(b))
             v == u32(y)
  <2>1. Low(W, b) # 0 /\ ~(Low(W, a) = 2 ^ (W - 1) /\ Low(W, b) = 2 ^ W - 1)
    BY <1>12 DEF ProductField, Divisible
  <2>2. /\ y \in -2 ^ (W - 1) .. 2 ^ (W - 1) - 1
        /\ Guest!IsQuotient(y, s32(a), s32(b))
    BY <1>1, <2>1, QuotientFits DEF s32
  <2>3. y \in Int
    <3>1. 2 ^ (W - 1) \in Nat \ {0} BY <1>1, SignedRange
    <3> HIDE DEF y
    <3>. QED BY <2>2, <3>1
  <2>4. x = old - u32(old) + v BY <1>12 DEF Multiply
  <2>5. Guest!MayBe(i.m, a, b, x) = Guest!IsQuotient(s32(x), s32(a), s32(b))
    BY <1>5, <1>12 DEF Guest!MayBe
  <2>6. v \in 0 .. Word - 1 BY <1>2, <2>3
  <2> HIDE DEF v, x, y
  <2>7. x \in Register /\ x \in Int /\ u32(x) = v BY <2>4, <2>6, LowReplaced
  <2>8. s32(x) = y
    <3>1. x % 2 ^ W = y % 2 ^ W BY <2>7 DEF u32, Low, v
    <3>. QED BY <1>1, <2>2, <2>7, <3>1, SignedOf DEF s32
  <2>9. i.m \notin Guest!Products /\ i.m \notin Guest!Divisions
    BY <1>12 DEF Guest!Products, Guest!Divisions
  <2>. QED BY <2>2, <2>5, <2>7, <2>8, <2>9 DEF x
<1>13. CASE i.m = "divwu"
  <2> DEFINE y == p \div q
  <2>1. q # 0 BY <1>13 DEF ProductField, Divisible, u32
  <2>2. p \in Nat /\ q \in Nat BY <1>4
  <2>3. Guest!IsQuotient(Quotient(p, q), p, q) /\ Quotient(p, q) = y /\ y \in Nat /\ y <= p
    <3> HIDE DEF p, q
    <3>. QED BY <2>1, <2>2, QuotientOfNaturals
  <2>4. x = old - u32(old) + y BY <1>13 DEF Multiply
  <2>5. Guest!MayBe(i.m, a, b, x) = Guest!IsQuotient(u32(x), p, q)
    BY <1>13, GuestWords DEF Guest!MayBe, u32
  <2>6. y \in 0 .. Word - 1
    <3> HIDE DEF y, p, q
    <3>. QED BY <1>1, <1>4, <2>3
  <2> HIDE DEF x, y
  <2>7. x \in Register /\ u32(x) = y BY <2>4, <2>6, LowReplaced
  <2>8. i.m \notin Guest!Products /\ i.m \notin Guest!Divisions
    BY <1>13 DEF Guest!Products, Guest!Divisions
  <2>. QED BY <2>3, <2>5, <2>7, <2>8 DEF x
<1>. QED BY <1>6, <1>7, <1>8, <1>9, <1>10, <1>11, <1>12, <1>13 DEF Products

-----------------------------------------------------------------------------
(* All instructions that only compute.                                      *)

\* The fields an instruction can have, and operands it is right for.
Fields(i, a, b) ==
  /\ i.m \in Additions \cup Subtractions => SumField(i, a)
  /\ i.m \in Products => ProductField(i, a, b)
  /\ i.m \in LogicalImmediates => i.imm \in 0 .. Half - 1
  /\ i.m \in SignedShifts => ShiftField(i) /\ (i.m \in {"sraw", "srad"} => Exact(i, a, b))
  /\ i.m \in Rotations => RotationField(i.m, i.imm)
  /\ i.rc => i.m \in RecordForms

\* The console may leave x in the destination.
GuestMakes(i, a, b, old, ca, x) ==
  \/ i.m \in Guest!Definite /\ x = Guest!Result(i, a, b, old, ca)
  \/ i.m \in Guest!HighUndefined /\ Guest!MayBe(i.m, a, b, x)
  \/ i.m \in Guest!Divisions /\ Guest!Divides(i.m, a, b, x)
GuestCarry(i, a, b, ca) ==
  IF i.m \in Guest!Sums THEN Guest!Carry(i, a, b, ca)
  ELSE IF i.m \in Guest!SignedShifts THEN Guest!SignCarry(i, a, b) ELSE ca

\* The console's groups of instructions and the translator's are the same.
LEMMA GuestKinds ==
  /\ Guest!Sums = Additions \cup Subtractions
  /\ Guest!Rotations = Rotations /\ Guest!Shifts = Shifts /\ Guest!SignedShifts = SignedShifts
  /\ Guest!Unaries = Unaries /\ Guest!Logicals = Logicals
  /\ Guest!Products \cup Guest!HighUndefined \cup Guest!Divisions = Products
  /\ DOMAIN Guest!LogicalImmediates \cup DOMAIN Guest!ShiftedImmediates = LogicalImmediates
  /\ DOMAIN Guest!LogicalImmediates = {"andi", "ori", "xori"}
  /\ DOMAIN Guest!ShiftedImmediates = {"andis", "oris", "xoris"}
<1>1. Guest!Sums = Additions \cup Subtractions
  BY DEF Guest!Sums, Guest!Negated, Guest!Carrying, Additions, Subtractions
<1>2. Guest!Rotations = Rotations /\ Guest!Shifts = Shifts /\ Guest!SignedShifts = SignedShifts
  BY DEF Guest!Rotations, Rotations, Guest!Shifts, Shifts, Guest!SignedShifts, SignedShifts
<1>3. Guest!Unaries = Unaries /\ Guest!Logicals = Logicals
  BY DEF Guest!Unaries, Unaries, Guest!Logicals, Logicals
<1>4. Guest!Products \cup Guest!HighUndefined \cup Guest!Divisions = Products
  BY DEF Guest!Products, Guest!HighUndefined, Guest!Divisions, Products
<1>5. /\ DOMAIN Guest!LogicalImmediates \cup DOMAIN Guest!ShiftedImmediates = LogicalImmediates
      /\ DOMAIN Guest!LogicalImmediates = {"andi", "ori", "xori"}
      /\ DOMAIN Guest!ShiftedImmediates = {"andis", "oris", "xoris"}
  BY DEF Guest!LogicalImmediates, Guest!ShiftedImmediates, LogicalImmediates
<1>. QED BY <1>1, <1>2, <1>3, <1>4, <1>5

\* No mnemonic is of two kinds.
LEMMA KindsDiffer ==
  ASSUME NEW m
  PROVE  /\ m \in Additions => /\ m \notin Subtractions /\ m \notin Products /\ m \notin Unaries /\ m \notin Logicals
                               /\ m \notin LogicalImmediates /\ m \notin Shifts /\ m \notin SignedShifts /\ m \notin Rotations
         /\ m \in Subtractions => /\ m \notin Additions /\ m \notin Products /\ m \notin Unaries /\ m \notin Logicals
                                  /\ m \notin LogicalImmediates /\ m \notin Shifts /\ m \notin SignedShifts /\ m \notin Rotations
         /\ m \in Products => /\ m \notin Additions /\ m \notin Subtractions /\ m \notin Unaries /\ m \notin Logicals
                              /\ m \notin LogicalImmediates /\ m \notin Shifts /\ m \notin SignedShifts /\ m \notin Rotations
         /\ m \in Unaries => /\ m \notin Additions /\ m \notin Subtractions /\ m \notin Products /\ m \notin Logicals
                             /\ m \notin LogicalImmediates /\ m \notin Shifts /\ m \notin SignedShifts /\ m \notin Rotations
         /\ m \in Logicals => /\ m \notin Additions /\ m \notin Subtractions /\ m \notin Products /\ m \notin Unaries
                              /\ m \notin LogicalImmediates /\ m \notin Shifts /\ m \notin SignedShifts /\ m \notin Rotations
         /\ m \in LogicalImmediates => /\ m \notin Additions /\ m \notin Subtractions /\ m \notin Products /\ m \notin Unaries
                                       /\ m \notin Logicals /\ m \notin Shifts /\ m \notin SignedShifts /\ m \notin Rotations
         /\ m \in Shifts => /\ m \notin Additions /\ m \notin Subtractions /\ m \notin Products /\ m \notin Unaries
                            /\ m \notin Logicals /\ m \notin LogicalImmediates /\ m \notin SignedShifts /\ m \notin Rotations
         /\ m \in SignedShifts => /\ m \notin Additions /\ m \notin Subtractions /\ m \notin Products /\ m \notin Unaries
                                  /\ m \notin Logicals /\ m \notin LogicalImmediates /\ m \notin Shifts /\ m \notin Rotations
         /\ m \in Rotations => /\ m \notin Additions /\ m \notin Subtractions /\ m \notin Products /\ m \notin Unaries
                               /\ m \notin Logicals /\ m \notin LogicalImmediates /\ m \notin Shifts /\ m \notin SignedShifts
<1>1. ASSUME m \in Additions
      PROVE  /\ m \notin Subtractions /\ m \notin Products /\ m \notin Unaries /\ m \notin Logicals
             /\ m \notin LogicalImmediates /\ m \notin Shifts /\ m \notin SignedShifts /\ m \notin Rotations
  BY <1>1 DEF Additions, Subtractions, Products, Unaries, Logicals, LogicalImmediates, Shifts,
    SignedShifts, Rotations
<1>2. ASSUME m \in Subtractions
      PROVE  /\ m \notin Additions /\ m \notin Products /\ m \notin Unaries /\ m \notin Logicals
             /\ m \notin LogicalImmediates /\ m \notin Shifts /\ m \notin SignedShifts /\ m \notin Rotations
  BY <1>2 DEF Additions, Subtractions, Products, Unaries, Logicals, LogicalImmediates, Shifts,
    SignedShifts, Rotations
<1>3. ASSUME m \in Products
      PROVE  /\ m \notin Additions /\ m \notin Subtractions /\ m \notin Unaries /\ m \notin Logicals
             /\ m \notin LogicalImmediates /\ m \notin Shifts /\ m \notin SignedShifts /\ m \notin Rotations
  BY <1>3 DEF Additions, Subtractions, Products, Unaries, Logicals, LogicalImmediates, Shifts,
    SignedShifts, Rotations
<1>4. ASSUME m \in Unaries
      PROVE  /\ m \notin Additions /\ m \notin Subtractions /\ m \notin Products /\ m \notin Logicals
             /\ m \notin LogicalImmediates /\ m \notin Shifts /\ m \notin SignedShifts /\ m \notin Rotations
  BY <1>4 DEF Additions, Subtractions, Products, Unaries, Logicals, LogicalImmediates, Shifts,
    SignedShifts, Rotations
<1>5. ASSUME m \in Logicals
      PROVE  /\ m \notin Additions /\ m \notin Subtractions /\ m \notin Products /\ m \notin Unaries
             /\ m \notin LogicalImmediates /\ m \notin Shifts /\ m \notin SignedShifts /\ m \notin Rotations
  BY <1>5 DEF Additions, Subtractions, Products, Unaries, Logicals, LogicalImmediates, Shifts,
    SignedShifts, Rotations
<1>6. ASSUME m \in LogicalImmediates
      PROVE  /\ m \notin Additions /\ m \notin Subtractions /\ m \notin Products /\ m \notin Unaries
             /\ m \notin Logicals /\ m \notin Shifts /\ m \notin SignedShifts /\ m \notin Rotations
  BY <1>6 DEF Additions, Subtractions, Products, Unaries, Logicals, LogicalImmediates, Shifts,
    SignedShifts, Rotations
<1>7. ASSUME m \in Shifts
      PROVE  /\ m \notin Additions /\ m \notin Subtractions /\ m \notin Products /\ m \notin Unaries
             /\ m \notin Logicals /\ m \notin LogicalImmediates /\ m \notin SignedShifts /\ m \notin Rotations
  BY <1>7 DEF Additions, Subtractions, Products, Unaries, Logicals, LogicalImmediates, Shifts,
    SignedShifts, Rotations
<1>8. ASSUME m \in SignedShifts
      PROVE  /\ m \notin Additions /\ m \notin Subtractions /\ m \notin Products /\ m \notin Unaries
             /\ m \notin Logicals /\ m \notin LogicalImmediates /\ m \notin Shifts /\ m \notin Rotations
  BY <1>8 DEF Additions, Subtractions, Products, Unaries, Logicals, LogicalImmediates, Shifts,
    SignedShifts, Rotations
<1>9. ASSUME m \in Rotations
      PROVE  /\ m \notin Additions /\ m \notin Subtractions /\ m \notin Products /\ m \notin Unaries
             /\ m \notin Logicals /\ m \notin LogicalImmediates /\ m \notin Shifts /\ m \notin SignedShifts
  BY <1>9 DEF Additions, Subtractions, Products, Unaries, Logicals, LogicalImmediates, Shifts,
    SignedShifts, Rotations
<1>. QED BY <1>1, <1>2, <1>3, <1>4, <1>5, <1>6, <1>7, <1>8, <1>9

\* What an instruction that only computes leaves in its register and in carry.
LEMMA ValuesAgree ==
  ASSUME NEW i, i.m \in Computing, NEW regs, NEW ca \in {0, 1},
         regs[i.a] \in Register, regs[i.b] \in Register, regs[i.d] \in Register,
         Fields(i, regs[i.a], regs[i.b])
  PROVE  LET v == Value(i, regs, ca)
         IN  /\ v[1] \in Register /\ v[2] \in {0, 1}
             /\ GuestMakes(i, regs[i.a], regs[i.b], regs[i.d], ca, v[1])
             /\ v[2] = GuestCarry(i, regs[i.a], regs[i.b], ca)
<1> DEFINE a == regs[i.a]
           b == regs[i.b]
           old == regs[i.d]
           v == Value(i, regs, ca)
<1>1. a \in Register /\ b \in Register /\ old \in Register /\ Fields(i, a, b)
  OBVIOUS
<1>2. v = LET z == IF i.a = 0 THEN 0 ELSE a
          IN  CASE i.m \in Additions -> Add(i.m, a, b, z, i.imm, ca)
                [] i.m \in Subtractions -> Subtract(i.m, a, b, i.imm, ca)
                [] i.m \in Products -> <<Multiply(i.m, a, b, i.imm, old), ca>>
                [] i.m \in Unaries -> <<Unary(i.m, a), ca>>
                [] i.m \in Logicals -> <<Logical(i.m, a, b), ca>>
                [] i.m \in LogicalImmediates -> <<LogicalImmediate(i.m, a, i.imm), ca>>
                [] i.m \in Shifts -> <<Shift(i.m, a, b), ca>>
                [] i.m \in SignedShifts -> SignedShift(i.m, a, b, i.imm)
                [] i.m \in Rotations -> <<Rotate(i.m, a, b, old, i.imm), ca>>
  BY DEF Value
<1> HIDE DEF a, b, old, v
<1> DEFINE g == Guest!Result(i, a, b, old, ca)
           c == GuestCarry(i, a, b, ca)
<1> SUFFICES /\ v[1] \in Register /\ v[2] \in {0, 1}
             /\ GuestMakes(i, a, b, old, ca, v[1])
             /\ v[2] = c
  BY DEF a, b, old, v
<1>3. CASE i.m \in Additions
  <2>1. v = Summed(i, a, b, ca) BY <1>2, <1>3, KindsDiffer DEF Summed
  <2>2. c = Guest!Carry(i, a, b, ca) BY <1>3, GuestKinds DEF GuestCarry
  <2>3. i.m \in Guest!Definite /\ g = Guest!Sum(i, a, b, ca)
    BY <1>3, GuestKinds, KindsDiffer DEF Guest!Definite, Guest!Result
  <2>4. LET s == Summed(i, a, b, ca)
        IN  /\ s[1] \in Register /\ Guest!Sum(i, a, b, ca) = s[1]
            /\ s[2] \in {0, 1} /\ Guest!Carry(i, a, b, ca) = s[2]
    <3>1. SumField(i, a) BY <1>1, <1>3 DEF Fields
    <3>. QED BY <1>1, <1>3, <3>1, SumsAgree, CarriesAgree
  <2>. QED BY <2>1, <2>2, <2>3, <2>4 DEF GuestMakes
<1>4. CASE i.m \in Subtractions
  <2>1. v = Summed(i, a, b, ca) BY <1>2, <1>4, KindsDiffer DEF Summed
  <2>2. c = Guest!Carry(i, a, b, ca) BY <1>4, GuestKinds DEF GuestCarry
  <2>3. i.m \in Guest!Definite /\ g = Guest!Sum(i, a, b, ca)
    BY <1>4, GuestKinds, KindsDiffer DEF Guest!Definite, Guest!Result
  <2>4. LET s == Summed(i, a, b, ca)
        IN  /\ s[1] \in Register /\ Guest!Sum(i, a, b, ca) = s[1]
            /\ s[2] \in {0, 1} /\ Guest!Carry(i, a, b, ca) = s[2]
    <3>1. SumField(i, a) BY <1>1, <1>4 DEF Fields
    <3>. QED BY <1>1, <1>4, <3>1, SumsAgree, CarriesAgree
  <2>. QED BY <2>1, <2>2, <2>3, <2>4 DEF GuestMakes
<1>5. CASE i.m \in Products
  <2> DEFINE x == Multiply(i.m, a, b, i.imm, old)
  <2>1. v = <<x, ca>> BY <1>2, <1>5, KindsDiffer
  <2>2. c = ca BY <1>5, GuestKinds, KindsDiffer DEF GuestCarry
  <2>3. ProductField(i, a, b) BY <1>1, <1>5 DEF Fields
  <2>4. /\ x \in Register
        /\ i.m \in Guest!Products => Guest!Multiplied(i.m, a, b, i.imm) = x
        /\ i.m \in Guest!HighUndefined => Guest!MayBe(i.m, a, b, x)
        /\ i.m \in Guest!Divisions => Guest!Divides(i.m, a, b, x)
    BY <1>1, <1>5, <2>3, ProductsAgree
  <2>5. i.m \in Guest!Products => i.m \in Guest!Definite /\ g = Guest!Multiplied(i.m, a, b, i.imm)
    BY <1>5, GuestKinds, KindsDiffer DEF Guest!Definite, Guest!Result
  <2>6. i.m \in Guest!Products \/ i.m \in Guest!HighUndefined \/ i.m \in Guest!Divisions
    BY <1>5, GuestKinds
  <2> HIDE DEF x, g, c
  <2>7. v[1] = x /\ v[2] = ca BY <2>1
  <2>8. GuestMakes(i, a, b, old, ca, x) BY <2>4, <2>5, <2>6 DEF GuestMakes, g
  <2>. QED BY <2>2, <2>4, <2>7, <2>8
<1>6. CASE i.m \in Unaries
  <2> DEFINE x == Unary(i.m, a)
             y == Guest!Unary(i.m, a)
  <2>1. v = <<x, ca>> BY <1>2, <1>6, KindsDiffer
  <2>2. c = ca BY <1>6, GuestKinds, KindsDiffer DEF GuestCarry
  <2>3. i.m \in Guest!Definite /\ g = y
    BY <1>6, GuestKinds, KindsDiffer DEF Guest!Definite, Guest!Result
  <2>4. x \in Register /\ y = x BY <1>1, <1>6, UnariesAgree DEF Fields
  <2> HIDE DEF x, y, g, c
  <2>5. v[1] = x /\ v[2] = ca /\ g = x BY <2>1, <2>3, <2>4
  <2>6. GuestMakes(i, a, b, old, ca, x) BY <2>3, <2>5 DEF GuestMakes, g
  <2>. QED BY <2>2, <2>4, <2>5, <2>6
<1>7. CASE i.m \in Logicals
  <2> DEFINE x == Logical(i.m, a, b)
             y == Guest!OfBits(i.m, a, b)
  <2>1. v = <<x, ca>> BY <1>2, <1>7, KindsDiffer
  <2>2. c = ca BY <1>7, GuestKinds, KindsDiffer DEF GuestCarry
  <2>3. i.m \in Guest!Definite /\ g = y
    BY <1>7, GuestKinds, KindsDiffer DEF Guest!Definite, Guest!Result
  <2>4. x \in Register /\ y = x BY <1>1, <1>7, LogicalsAgree DEF Fields
  <2> HIDE DEF x, y, g, c
  <2>5. v[1] = x /\ v[2] = ca /\ g = x BY <2>1, <2>3, <2>4
  <2>6. GuestMakes(i, a, b, old, ca, x) BY <2>3, <2>5 DEF GuestMakes, g
  <2>. QED BY <2>2, <2>4, <2>5, <2>6
<1>8. CASE i.m \in LogicalImmediates
  <2> DEFINE x == LogicalImmediate(i.m, a, i.imm)
             y == GuestImmediate(i.m, a, i.imm)
  <2>1. v = <<x, ca>> BY <1>2, <1>8, KindsDiffer
  <2>2. c = ca BY <1>8, GuestKinds, KindsDiffer DEF GuestCarry
  <2>3. i.m \in Guest!Definite /\ g = y
    <3>1. i.m \in Guest!Definite BY <1>8, GuestKinds DEF Guest!Definite
    <3>2. CASE i.m \in {"andi", "ori", "xori"}
      <4>1. g = Guest!OfBits(Guest!LogicalImmediates[i.m], a, i.imm)
        BY <1>8, <3>2, GuestKinds, KindsDiffer DEF Guest!Result
      <4>. QED BY <3>1, <3>2, <4>1 DEF GuestImmediate
    <3>3. CASE i.m \in {"andis", "oris", "xoris"}
      <4>1. g = Guest!OfBits(Guest!ShiftedImmediates[i.m], a, i.imm * 2 ^ (W \div 2))
        BY <1>8, <3>3, GuestKinds, KindsDiffer DEF Guest!Result
      <4>. QED BY <3>1, <3>3, <4>1 DEF GuestImmediate, Half
    <3>. QED BY <1>8, <3>2, <3>3 DEF LogicalImmediates
  <2>4. x \in Register /\ y = x BY <1>1, <1>8, LogicalImmediatesAgree DEF Fields
  <2> HIDE DEF x, y, g, c
  <2>5. v[1] = x /\ v[2] = ca /\ g = x BY <2>1, <2>3, <2>4
  <2>6. GuestMakes(i, a, b, old, ca, x) BY <2>3, <2>5 DEF GuestMakes, g
  <2>. QED BY <2>2, <2>4, <2>5, <2>6
<1>9. CASE i.m \in Shifts
  <2> DEFINE x == Shift(i.m, a, b)
             y == Guest!Shifted(i.m, a, b)
  <2>1. v = <<x, ca>> BY <1>2, <1>9, KindsDiffer
  <2>2. c = ca BY <1>9, GuestKinds, KindsDiffer DEF GuestCarry
  <2>3. i.m \in Guest!Definite /\ g = y
    BY <1>9, GuestKinds, KindsDiffer DEF Guest!Definite, Guest!Result
  <2>4. x \in Register /\ y = x BY <1>1, <1>9, ShiftsAgree DEF Fields
  <2> HIDE DEF x, y, g, c
  <2>5. v[1] = x /\ v[2] = ca /\ g = x BY <2>1, <2>3, <2>4
  <2>6. GuestMakes(i, a, b, old, ca, x) BY <2>3, <2>5 DEF GuestMakes, g
  <2>. QED BY <2>2, <2>4, <2>5, <2>6
<1>10. CASE i.m \in Rotations
  <2> DEFINE x == Rotate(i.m, a, b, old, i.imm)
             y == Guest!Rotated(i, a, b, old)
  <2>1. v = <<x, ca>> BY <1>2, <1>10, KindsDiffer
  <2>2. c = ca BY <1>10, GuestKinds, KindsDiffer DEF GuestCarry
  <2>3. i.m \in Guest!Definite /\ g = y
    BY <1>10, GuestKinds, KindsDiffer DEF Guest!Definite, Guest!Result
  <2>4. x \in Register /\ y = x BY <1>1, <1>10, RotationsAgree DEF Fields
  <2> HIDE DEF x, y, g, c
  <2>5. v[1] = x /\ v[2] = ca /\ g = x BY <2>1, <2>3, <2>4
  <2>6. GuestMakes(i, a, b, old, ca, x) BY <2>3, <2>5 DEF GuestMakes, g
  <2>. QED BY <2>2, <2>4, <2>5, <2>6
<1>11. CASE i.m \in SignedShifts
  <2> DEFINE s == SignedShift(i.m, a, b, i.imm)
  <2>1. v = s BY <1>2, <1>11, KindsDiffer
  <2>2. c = Guest!SignCarry(i, a, b)
    BY <1>11, GuestKinds, KindsDiffer DEF GuestCarry
  <2>3. i.m \in Guest!Definite /\ g = Guest!SignShifted(i, a, b)
    BY <1>11, GuestKinds, KindsDiffer DEF Guest!Definite, Guest!Result
  <2>4. /\ s[1] \in Register /\ s[2] \in {0, 1}
        /\ Guest!SignShifted(i, a, b) = s[1]
        /\ Guest!SignCarry(i, a, b) = s[2]
    <3>1. ShiftField(i) /\ (i.m \in {"sraw", "srad"} => Exact(i, a, b))
      BY <1>1, <1>11 DEF Fields
    <3>. QED BY <1>1, <1>11, <3>1, SignedShiftsAgree
  <2> HIDE DEF s, g, c
  <2>5. GuestMakes(i, a, b, old, ca, v[1]) BY <2>1, <2>3, <2>4 DEF GuestMakes, g
  <2>. QED BY <2>1, <2>2, <2>4, <2>5
<1>. QED BY <1>3, <1>4, <1>5, <1>6, <1>7, <1>8, <1>9, <1>10, <1>11 DEF Computing

-----------------------------------------------------------------------------
(* Registers and fields of a state, and the console's condition register.   *)

\* Registers hold numbers of 2 * W bits; xer and the condition register hold flags.
Registered ==
  /\ r \in [Threads -> UNION {[N -> Register] : N \in SUBSET Int}]
  /\ xer \in [Threads -> [so : {0, 1}, ca : {0, 1}]]
  /\ cr \in [Threads -> [0 .. (W \div 4) - 1 -> CRField]]

\* What Registered says of one thread.
LEMMA RegistersAre ==
  ASSUME Registered, NEW t \in Threads
  PROVE  /\ DOMAIN r = Threads /\ \A k \in DOMAIN r[t] : r[t][k] \in Register
         /\ r[t] = [k \in DOMAIN r[t] |-> r[t][k]]
         /\ xer[t].ca \in {0, 1} /\ xer[t].so \in {0, 1}
<1>1. r[t] \in UNION {[N -> Register] : N \in SUBSET Int} /\ DOMAIN r = Threads
  BY DEF Registered
<1>2. PICK N \in SUBSET Int : r[t] \in [N -> Register] BY <1>1
<1>3. xer[t] \in [so : {0, 1}, ca : {0, 1}] BY DEF Registered
<1>. QED BY <1>1, <1>2, <1>3

\* A register that is set is still one.
LEMMA SetRegister ==
  ASSUME Registered, NEW t \in Threads, NEW d \in DOMAIN r[t], NEW x \in Register
  PROVE  /\ [r EXCEPT ![t][d] = x][t][d] = x
         /\ [r EXCEPT ![t][d] = x] \in [Threads -> UNION {[N -> Register] : N \in SUBSET Int}]
         /\ \A k \in DOMAIN r[t] : k # d => [r EXCEPT ![t][d] = x][t][k] = r[t][k]
<1> DEFINE q == [r EXCEPT ![t][d] = x]
           All == UNION {[N -> Register] : N \in SUBSET Int}
<1>1. r \in [Threads -> All] BY DEF Registered
<1>2. r[t] \in All BY <1>1
<1>3. PICK N \in SUBSET Int : r[t] \in [N -> Register] BY <1>2
<1>4. q[t] = [r[t] EXCEPT ![d] = x] BY <1>1
<1>5. q[t] \in [N -> Register] /\ q[t][d] = x /\ \A k \in DOMAIN r[t] : k # d => q[t][k] = r[t][k]
  BY <1>3, <1>4
<1>6. q[t] \in All BY <1>3, <1>5
<1> HIDE DEF All
<1>7. q \in [Threads -> All] BY <1>1, <1>4, <1>6
<1>. QED BY <1>5, <1>7 DEF All

\* Positions of the condition register.
LEMMA FlagPlaces ==
  /\ \A n \in 0 .. W - 1 : n \div 4 \in 0 .. (W \div 4) - 1 /\ n % 4 \in 0 .. 3
                            /\ n = 4 * (n \div 4) + (n % 4)
  /\ \A f \in 0 .. (W \div 4) - 1 : \A k \in 0 .. 3 :
        4 * f + k \in 0 .. W - 1 /\ (4 * f + k) \div 4 = f /\ (4 * f + k) % 4 = k
<1>1. W = 4 * (W \div 4) /\ W \div 4 \in Nat BY Places
<1> DEFINE V == W \div 4
<1>2. W = 4 * V /\ V \in Nat BY <1>1
<1> HIDE DEF V
<1>3. \A n \in 0 .. W - 1 : n \div 4 \in 0 .. V - 1 /\ n % 4 \in 0 .. 3 /\ n = 4 * (n \div 4) + (n % 4)
  <2> SUFFICES ASSUME NEW n \in 0 .. W - 1
               PROVE  n \div 4 \in 0 .. V - 1 /\ n % 4 \in 0 .. 3 /\ n = 4 * (n \div 4) + (n % 4)
    OBVIOUS
  <2>1. n \in Int /\ 0 <= n /\ n <= 4 * V - 1 BY <1>2
  <2> DEFINE q == n \div 4
             e == n % 4
  <2>2. q \in Int /\ e \in 0 .. 3 /\ n = 4 * q + e BY <2>1
  <2> HIDE DEF q, e
  <2>3. q \in 0 .. V - 1
    <3>1. e >= 0 /\ e <= 3 /\ e \in Int BY <2>2
    <3>2. q >= 0 BY <2>1, <2>2, <3>1
    <3>3. q <= V - 1 BY <1>2, <2>1, <2>2, <3>1
    <3>. QED BY <1>2, <2>2, <3>2, <3>3
  <2>. QED BY <2>2, <2>3 DEF q, e
<1>4. \A f \in 0 .. V - 1 : \A k \in 0 .. 3 :
        4 * f + k \in 0 .. W - 1 /\ (4 * f + k) \div 4 = f /\ (4 * f + k) % 4 = k
  BY <1>2
<1>. QED BY <1>3, <1>4 DEF V

GuestCR(c) == [t \in Threads |-> [n \in 0 .. W - 1 |-> Flag(c[t], n)]]
FieldBits(F) == <<F.lt, F.gt, F.eq, F.so>>

\* A flag of the condition register, by the register's number.
LEMMA FlagIs ==
  ASSUME NEW c, NEW n \in 0 .. W - 1
  PROVE  /\ n % 4 = 0 => Flag(c, n) = c[n \div 4].lt
         /\ n % 4 = 1 => Flag(c, n) = c[n \div 4].gt
         /\ n % 4 = 2 => Flag(c, n) = c[n \div 4].eq
         /\ n % 4 = 3 => Flag(c, n) = c[n \div 4].so
         /\ Flag(c, n) = FieldBits(c[n \div 4])[(n % 4) + 1]
<1>1. n % 4 \in 0 .. 3 BY FlagPlaces
<1>2. /\ FieldNames[1] = "lt" /\ FieldNames[2] = "gt" /\ FieldNames[3] = "eq" /\ FieldNames[4] = "so"
      /\ 0 + 1 = 1 /\ 1 + 1 = 2 /\ 2 + 1 = 3 /\ 3 + 1 = 4
  BY DEF FieldNames
<1>3. /\ n % 4 = 0 => Flag(c, n) = c[n \div 4].lt
      /\ n % 4 = 1 => Flag(c, n) = c[n \div 4].gt
      /\ n % 4 = 2 => Flag(c, n) = c[n \div 4].eq
      /\ n % 4 = 3 => Flag(c, n) = c[n \div 4].so
  <2> DEFINE q == n % 4
             g == c[n \div 4]
  <2>1. Flag(c, n) = g[FieldNames[q + 1]] BY DEF Flag
  <2> HIDE DEF q, g
  <2>2. /\ q = 0 => Flag(c, n) = g.lt
        /\ q = 1 => Flag(c, n) = g.gt
        /\ q = 2 => Flag(c, n) = g.eq
        /\ q = 3 => Flag(c, n) = g.so
    BY <1>2, <2>1, Zenon
  <2>. QED BY <2>2 DEF q, g
<1>4. Flag(c, n) = FieldBits(c[n \div 4])[(n % 4) + 1]
  <2> DEFINE q == n % 4
             F == c[n \div 4]
  <2>1. /\ q \in 0 .. 3
        /\ q = 0 => Flag(c, n) = F.lt
        /\ q = 1 => Flag(c, n) = F.gt
        /\ q = 2 => Flag(c, n) = F.eq
        /\ q = 3 => Flag(c, n) = F.so
    BY <1>1, <1>3
  <2> HIDE DEF q, F
  <2>2. /\ FieldBits(F)[1] = F.lt /\ FieldBits(F)[2] = F.gt
        /\ FieldBits(F)[3] = F.eq /\ FieldBits(F)[4] = F.so
    BY DEF FieldBits
  <2>3. q = 0 \/ q = 1 \/ q = 2 \/ q = 3 BY <2>1
  <2>4. Flag(c, n) = FieldBits(F)[q + 1] BY <1>2, <2>1, <2>2, <2>3, Zenon
  <2>. QED BY <2>4 DEF q, F
<1>. QED BY <1>3, <1>4

\* A field that is set.
LEMMA SetField ==
  ASSUME NEW c \in [Threads -> [0 .. (W \div 4) - 1 -> CRField]], NEW t \in Threads,
         NEW f \in 0 .. (W \div 4) - 1, NEW F \in CRField
  PROVE  LET d == [c EXCEPT ![t][f] = F]
         IN  /\ d \in [Threads -> [0 .. (W \div 4) - 1 -> CRField]]
             /\ GuestCR(d) = [GuestCR(c) EXCEPT ![t] = Guest!WithField(@, f, FieldBits(F))]
<1> DEFINE d == [c EXCEPT ![t][f] = F]
           R0 == 0 .. (W \div 4) - 1
           new == Guest!WithField(GuestCR(c)[t], f, FieldBits(F))
<1>1. /\ d \in [Threads -> [R0 -> CRField]] /\ d[t] = [c[t] EXCEPT ![f] = F]
      /\ \A u \in Threads \ {t} : d[u] = c[u]
  <2> HIDE DEF R0
  <2>. QED BY DEF R0
<1>2. c[t] \in [R0 -> CRField] OBVIOUS
<1>3. ASSUME NEW n \in 0 .. W - 1
      PROVE  Flag(d[t], n) = new[n]
  <2>1. GuestCR(c)[t] = [k \in 0 .. W - 1 |-> Flag(c[t], k)] BY DEF GuestCR
  <2>2. new[n] = IF n \div 4 = f THEN FieldBits(F)[(n % 4) + 1] ELSE Flag(c[t], n)
    BY <2>1 DEF Guest!WithField
  <2>3. Flag(d[t], n) = FieldBits(d[t][n \div 4])[(n % 4) + 1]
        /\ Flag(c[t], n) = FieldBits(c[t][n \div 4])[(n % 4) + 1]
    BY FlagIs
  <2>4. n \div 4 \in R0 BY FlagPlaces
  <2>5. d[t][n \div 4] = IF n \div 4 = f THEN F ELSE c[t][n \div 4]
    <3> HIDE DEF R0, d
    <3>1. f \in R0 BY DEF R0
    <3>. QED BY <1>1, <1>2, <2>4, <3>1
  <2>. QED BY <2>2, <2>3, <2>5
<1>4. new = [n \in 0 .. W - 1 |-> new[n]] BY DEF Guest!WithField, GuestCR
<1>5. [n \in 0 .. W - 1 |-> Flag(d[t], n)] = new
  <2> HIDE DEF new, d
  <2>. QED BY <1>3, <1>4
<1>6. GuestCR(d) = [u \in Threads |-> IF u = t THEN new ELSE GuestCR(c)[u]]
  <2> HIDE DEF new, d
  <2>. QED BY <1>1, <1>5 DEF GuestCR
<1>7. [GuestCR(c) EXCEPT ![t] = new] = [u \in Threads |-> IF u = t THEN new ELSE GuestCR(c)[u]]
  BY DEF GuestCR
<1>. QED BY <1>1, <1>6, <1>7

\* A comparison makes a field of it.
LEMMA ComparisonIs ==
  ASSUME NEW x, NEW y, NEW so \in {0, 1}
  PROVE  /\ compare(x, y, so) \in CRField
         /\ FieldBits(compare(x, y, so)) = Guest!Flags(x, y, so)
<1>1. compare(x, y, so) \in CRField BY DEF compare, CRField, Bit
<1>2. FieldBits(compare(x, y, so)) = Guest!Flags(x, y, so)
  BY DEF compare, FieldBits, Guest!Flags, Bit, Guest!Bit
<1>. QED BY <1>1, <1>2

-----------------------------------------------------------------------------
(* The console's state, and instructions that only compute.                 *)

GuestCA == [u \in Threads |-> xer[u].ca]
GuestSO == [u \in Threads |-> xer[u].so]

ViewIn(b, m, u) ==
  LET stored(a) == {k \in DOMAIN b[u] : a \in DOMAIN b[u][k]}
  IN  [a \in DOMAIN m |-> IF stored(a) = {} THEN m[a] ELSE b[u][Max(stored(a))][a]]

\* What is seen of memory is kept where neither it nor the buffers change.
LEMMA SeenKept ==
  ASSUME UNCHANGED <<buffer, mem>>
  PROVE  Seen' = Seen
<1> DEFINE S(b, m) == IF \A u \in Threads : b[u] = <<>> THEN m ELSE ViewIn(b, m, CHOOSE u \in Threads : b[u] # <<>>)
<1>1. Seen = S(buffer, mem) BY DEF Seen, View, ViewIn
<1>2. Seen' = S(buffer', mem') BY DEF Seen, View, ViewIn
<1> HIDE DEF S
<1>. QED BY <1>1, <1>2

\* ca of one thread becomes n.
LEMMA SetCarry ==
  ASSUME Registered, NEW t \in Threads, NEW n \in {0, 1}, xer' = [xer EXCEPT ![t].ca = n]
  PROVE  /\ GuestCA' = [GuestCA EXCEPT ![t] = n] /\ GuestSO' = GuestSO
         /\ xer' \in [Threads -> [so : {0, 1}, ca : {0, 1}]]
<1>1. xer \in [Threads -> [so : {0, 1}, ca : {0, 1}]] BY DEF Registered
<1>2. xer' \in [Threads -> [so : {0, 1}, ca : {0, 1}]] BY <1>1
<1>3. \A u \in Threads : xer'[u].ca = (IF u = t THEN n ELSE xer[u].ca) /\ xer'[u].so = xer[u].so
  BY <1>1
<1>4. GuestCA' = [u \in Threads |-> IF u = t THEN n ELSE xer[u].ca]
  BY <1>3 DEF GuestCA
<1>5. [GuestCA EXCEPT ![t] = n] = [u \in Threads |-> IF u = t THEN n ELSE xer[u].ca]
  BY DEF GuestCA
<1>6. GuestSO' = GuestSO BY <1>3 DEF GuestSO
<1>. QED BY <1>2, <1>4, <1>5, <1>6

\* A field of one thread becomes F.
LEMMA FieldBecomes ==
  ASSUME Registered, NEW t \in Threads, NEW f \in 0 .. (W \div 4) - 1, NEW F \in CRField,
         cr' = [cr EXCEPT ![t][f] = F]
  PROVE  /\ cr' \in [Threads -> [0 .. (W \div 4) - 1 -> CRField]]
         /\ GuestCR(cr') = [GuestCR(cr) EXCEPT ![t] = Guest!WithField(@, f, FieldBits(F))]
<1> DEFINE C == [Threads -> [0 .. (W \div 4) - 1 -> CRField]]
           D == 0 .. (W \div 4) - 1
           P(c, u, n, G) ==
             LET d == [c EXCEPT ![u][n] = G]
             IN  /\ d \in [Threads -> [0 .. (W \div 4) - 1 -> CRField]]
                 /\ GuestCR(d) = [GuestCR(c) EXCEPT ![u] = Guest!WithField(@, n, FieldBits(G))]
<1>1. \A c \in C : \A u \in Threads : \A n \in D : \A G \in CRField : P(c, u, n, G)
  BY SetField
<1>2. cr \in C /\ f \in D BY DEF Registered
<1> HIDE DEF C, D, P
<1>3. P(cr, t, f, F) BY <1>1, <1>2
<1>. QED BY <1>3 DEF P

\* The record form of an instruction is one that sets field 0, and its operands
\* are right for it.
LEMMA ComputeAgrees ==
  ASSUME NEW t \in Threads, Registered, Compute(t), held' = held,
         LET i == Current(t)
         IN  /\ {i.d, i.a, i.b} \subseteq DOMAIN r[t] /\ i.rc \in BOOLEAN
             /\ Fields(i, r[t][i.a], r[t][i.b])
  PROVE  Guest!Compute(t) /\ Registered'
<1> DEFINE i == Current(t)
           a == r[t][i.a]
           b == r[t][i.b]
           old == r[t][i.d]
           ca == xer[t].ca
           so == xer[t].so
           v == Value(i, r[t], ca)
           x == v[1]
           F == compare(s32(x), 0, so)
<1>1. /\ i.m \in Computing
      /\ r' = [r EXCEPT ![t][i.d] = x] /\ xer' = [xer EXCEPT ![t].ca = v[2]]
      /\ cr' = IF i.rc /\ i.m \in RecordForms THEN [cr EXCEPT ![t][0] = F] ELSE cr
      /\ UNCHANGED <<trapped, buffer, mem>> /\ pc' = [pc EXCEPT ![t] = @ + 1] /\ prog' = prog
  BY DEF Compute, Advance, memory
<1>2. /\ a \in Register /\ b \in Register /\ old \in Register /\ ca \in {0, 1} /\ so \in {0, 1}
      /\ i.d \in DOMAIN r[t] /\ Fields(i, a, b) /\ i.rc \in BOOLEAN
  BY RegistersAre
<1>3. x \in Register /\ v[2] \in {0, 1} /\ GuestMakes(i, a, b, old, ca, x) /\ v[2] = GuestCarry(i, a, b, ca)
  BY <1>1, <1>2, ValuesAgree
<1>4. r'[t][i.d] = x /\ r' \in [Threads -> UNION {[N -> Register] : N \in SUBSET Int}]
  <2> HIDE DEF v, i
  <2>. QED BY <1>1, <1>2, <1>3, SetRegister
<1>5. /\ GuestCA' = [GuestCA EXCEPT ![t] = v[2]] /\ GuestSO' = GuestSO
      /\ xer' \in [Threads -> [so : {0, 1}, ca : {0, 1}]]
  <2> HIDE DEF v, i
  <2>. QED BY <1>1, <1>3, SetCarry
<1>6. i.rc => i.m \in RecordForms BY <1>2 DEF Fields
<1>7. cr \in [Threads -> [0 .. (W \div 4) - 1 -> CRField]] /\ 0 \in 0 .. (W \div 4) - 1
  BY Places DEF Registered
<1>8. F \in CRField /\ FieldBits(F) = Guest!Flags(s32(x), 0, so)
  BY <1>2, ComparisonIs
<1>9. /\ GuestCR(cr') = IF i.rc THEN [GuestCR(cr) EXCEPT ![t] = Guest!WithField(@, 0, Guest!Flags(s32(x), 0, so))]
                        ELSE GuestCR(cr)
      /\ cr' \in [Threads -> [0 .. (W \div 4) - 1 -> CRField]]
  <2>1. CASE i.rc
    <3>1. cr' = [cr EXCEPT ![t][0] = F] BY <1>1, <1>6, <2>1
    <3> DEFINE g == Guest!Flags(s32(x), 0, so)
    <3> HIDE DEF F, g
    <3>2. /\ cr' \in [Threads -> [0 .. (W \div 4) - 1 -> CRField]]
          /\ GuestCR(cr') = [GuestCR(cr) EXCEPT ![t] = Guest!WithField(@, 0, FieldBits(F))]
      BY <1>7, <1>8, <3>1, FieldBecomes
    <3>3. FieldBits(F) = g BY <1>8 DEF g
    <3>4. /\ cr' \in [Threads -> [0 .. (W \div 4) - 1 -> CRField]]
          /\ GuestCR(cr') = [GuestCR(cr) EXCEPT ![t] = Guest!WithField(@, 0, g)]
      BY <3>1, <3>2, <3>3
    <3>. QED BY <2>1, <3>4 DEF g
  <2>2. CASE ~i.rc BY <1>1, <1>7, <2>2
  <2>. QED BY <1>2, <2>1, <2>2
<1>10. Seen' = Seen BY <1>1, SeenKept
<1>11. Registered' BY <1>4, <1>5, <1>9 DEF Registered
<1> HIDE DEF v, x, a, b, old, ca, so, F
<1>12. /\ \/ i.m \in Guest!Definite /\ x = Guest!Result(i, a, b, old, ca)
          \/ i.m \in Guest!HighUndefined /\ Guest!MayBe(i.m, a, b, x)
          \/ i.m \in Guest!Divisions /\ Guest!Divides(i.m, a, b, x)
       /\ v[2] = IF i.m \in Guest!Sums THEN Guest!Carry(i, a, b, ca)
                 ELSE IF i.m \in Guest!SignedShifts THEN Guest!SignCarry(i, a, b) ELSE ca
  BY <1>3 DEF GuestMakes, GuestCarry
<1>13. Guest!s32(x) = s32(x) BY GuestWords DEF Guest!s32, s32
<1>14. GuestCA[t] = ca /\ GuestSO[t] = so BY DEF GuestCA, GuestSO, ca, so
<1>15. Guest!Compute(t)
  <2>1. Guest!Current(t) = i BY DEF Guest!Current, Current
  <2>2. Guest!Advance(t) BY <1>1 DEF Guest!Advance
  <2>3. r' = [r EXCEPT ![t][i.d] = r'[t][i.d]] BY <1>1, <1>4
  <2>4. SUFFICES /\ \/ i.m \in Guest!Definite /\ r'[t][i.d] = Guest!Result(i, a, b, old, GuestCA[t])
                    \/ i.m \in Guest!HighUndefined /\ Guest!MayBe(i.m, a, b, r'[t][i.d])
                    \/ i.m \in Guest!Divisions /\ Guest!Divides(i.m, a, b, r'[t][i.d])
                 /\ r' = [r EXCEPT ![t][i.d] = r'[t][i.d]]
                 /\ GuestCA' = [GuestCA EXCEPT ![t] =
                                  IF i.m \in Guest!Sums THEN Guest!Carry(i, a, b, @)
                                  ELSE IF i.m \in Guest!SignedShifts THEN Guest!SignCarry(i, a, b) ELSE @]
                 /\ GuestCR(cr') = IF i.rc THEN [GuestCR(cr) EXCEPT ![t] =
                                       Guest!WithField(@, 0, Guest!Flags(Guest!s32(r'[t][i.d]), 0, GuestSO[t]))]
                                   ELSE GuestCR(cr)
                 /\ GuestSO' = GuestSO /\ held' = held /\ trapped' = trapped /\ Seen' = Seen
                 /\ Guest!Advance(t)
    BY <2>1 DEF Guest!Compute, GuestCA, GuestSO, GuestCR, a, b, old
  <2> HIDE DEF i
  <2>. QED BY <1>1, <1>4, <1>5, <1>9, <1>10, <1>12, <1>13, <1>14, <2>2, <2>3
<1>. QED BY <1>11, <1>15
-----------------------------------------------------------------------------
(* Comparisons and traps.                                                   *)

\* Immediates of signed and of unsigned comparisons.
SignedImmediates == -2 ^ (W - 1) .. 2 ^ (W - 1) - 1

LEMMA ImmediatesAre ==
  ASSUME NEW n \in {W, 2 * W}
  PROVE  /\ n \in Nat \ {0}
         /\ \A x \in SignedImmediates : x \in Int /\ Signed(n, x) = x
         /\ \A x \in 0 .. Word - 1 : x \in Int /\ Low(n, x) = x
         /\ \A x \in SignedImmediates : x >= 0 => x \in 0 .. Word - 1
<1>1. W \in Nat \ {0} /\ 2 * W \in Nat \ {0} /\ W - 1 \in Nat /\ 2 * W - 1 \in Nat
  BY WAssumption
<1>2. n \in Nat \ {0} /\ n - 1 \in Nat /\ W <= n /\ W - 1 <= n - 1 BY <1>1
<1>3. 2 ^ (W - 1) \in Nat \ {0} /\ 2 ^ (W - 1) <= 2 ^ (n - 1)
  BY <1>1, <1>2, PowerPositive, PowerMonotone
<1>4. 2 ^ W = 2 * 2 ^ (W - 1) /\ 2 ^ n = 2 * 2 ^ (n - 1) /\ 2 ^ (n - 1) \in Nat \ {0}
  <2>1. 0 \in Int OBVIOUS
  <2>. QED BY <1>1, <1>2, <2>1, SignedRange
<1> DEFINE H == 2 ^ (W - 1)
           G == 2 ^ (n - 1)
<1>5. H \in Nat \ {0} /\ G \in Nat \ {0} /\ H <= G /\ Word = 2 * H /\ 2 ^ n = 2 * G
  BY <1>3, <1>4 DEF Word
<1>6. ASSUME NEW x \in SignedImmediates
      PROVE  x \in Int /\ x \in -G .. G - 1 /\ (x >= 0 => x \in 0 .. Word - 1)
  <2>1. x \in -H .. H - 1 BY DEF SignedImmediates
  <2> HIDE DEF H, G
  <2>. QED BY <1>5, <2>1
<1>7. ASSUME NEW x \in SignedImmediates
      PROVE  Signed(n, x) = x
  BY <1>2, <1>6, SignedOf
<1>8. ASSUME NEW x \in 0 .. Word - 1
      PROVE  x \in Int /\ Low(n, x) = x
  <2> HIDE DEF H, G
  <2>. QED BY <1>5 DEF Low
<1>. QED BY <1>2, <1>6, <1>7, <1>8

\* A field of the condition register, and the immediate that goes with the comparison.
CompareField(i) ==
  /\ i.d \in 0 .. (W \div 4) - 1
  /\ i.m \in {"cmpdi", "cmpwi"} => i.imm \in SignedImmediates
  /\ i.m \in {"cmpldi", "cmplwi"} => i.imm \in 0 .. Word - 1

\* The console compares x and y, as numbers of one or of two words.
GuestCompared(i, x, y, so) ==
  LET entry == Guest!Comparisons[i.m]
      width == IF entry[1] = "d" THEN 2 * W ELSE W
      of(z) == IF entry[2] = "s" THEN Guest!Signed(width, z) ELSE Guest!Low(width, z)
  IN  Guest!Flags(of(x), of(IF entry[3] = "i" THEN i.imm ELSE y), so)

\* Comparisons of registers and with immediates.
LEMMA ComparisonsAgree ==
  ASSUME NEW i, i.m \in DOMAIN Compares, CompareField(i), NEW x, NEW y, NEW so \in {0, 1}
  PROVE  LET F == Compared(Compares[i.m], x, y, i.imm, so)
         IN  /\ i.m \in DOMAIN Guest!Comparisons
             /\ F \in CRField /\ FieldBits(F) = GuestCompared(i, x, y, so)
<1>1. i.m \in {"cmpd", "cmpdi", "cmpld", "cmpldi", "cmplw", "cmplwi", "cmpw", "cmpwi"}
  BY DEF Compares
<1>2. i.m \in DOMAIN Guest!Comparisons BY <1>1 DEF Guest!Comparisons
<1> DEFINE entry == Compares[i.m]
           guest == Guest!Comparisons[i.m]
           cast(z) == IF entry[2] THEN Signed(entry[1], z) ELSE Low(entry[1], z)
           p == cast(x)
           q == IF entry[3] THEN i.imm ELSE cast(y)
<1>3. Compared(entry, x, y, i.imm, so) = compare(p, q, so) BY DEF Compared
<1>4. compare(p, q, so) \in CRField /\ FieldBits(compare(p, q, so)) = Guest!Flags(p, q, so)
  BY ComparisonIs
<1>5. GuestCompared(i, x, y, so) = Guest!Flags(p, q, so)
  <2> DEFINE width == IF guest[1] = "d" THEN 2 * W ELSE W
             of(z) == IF guest[2] = "s" THEN Guest!Signed(width, z) ELSE Guest!Low(width, z)
  <2>1. /\ width = entry[1] /\ (guest[2] = "s" <=> entry[2]) /\ (guest[3] = "i" <=> entry[3])
        /\ entry[1] \in {W, 2 * W} /\ entry[2] \in BOOLEAN /\ entry[3] \in BOOLEAN
        /\ entry[3] => i.m \in {"cmpdi", "cmpwi", "cmpldi", "cmplwi"}
        /\ i.m \in {"cmpdi", "cmpwi"} => entry[2]
        /\ i.m \in {"cmpldi", "cmplwi"} => ~entry[2]
    <3>1. i.m = "cmpd" => /\ entry[1] = 2 * W /\ entry[2] = TRUE /\ entry[3] = FALSE
                        /\ guest[1] = "d" /\ guest[2] = "s" /\ guest[3] = "r"
      BY DEF Compares, Guest!Comparisons
    <3>2. i.m = "cmpdi" => /\ entry[1] = 2 * W /\ entry[2] = TRUE /\ entry[3] = TRUE
                        /\ guest[1] = "d" /\ guest[2] = "s" /\ guest[3] = "i"
      BY DEF Compares, Guest!Comparisons
    <3>3. i.m = "cmpld" => /\ entry[1] = 2 * W /\ entry[2] = FALSE /\ entry[3] = FALSE
                        /\ guest[1] = "d" /\ guest[2] = "u" /\ guest[3] = "r"
      BY DEF Compares, Guest!Comparisons
    <3>4. i.m = "cmpldi" => /\ entry[1] = 2 * W /\ entry[2] = FALSE /\ entry[3] = TRUE
                        /\ guest[1] = "d" /\ guest[2] = "u" /\ guest[3] = "i"
      BY DEF Compares, Guest!Comparisons
    <3>5. i.m = "cmplw" => /\ entry[1] = W /\ entry[2] = FALSE /\ entry[3] = FALSE
                        /\ guest[1] = "w" /\ guest[2] = "u" /\ guest[3] = "r"
      BY DEF Compares, Guest!Comparisons
    <3>6. i.m = "cmplwi" => /\ entry[1] = W /\ entry[2] = FALSE /\ entry[3] = TRUE
                        /\ guest[1] = "w" /\ guest[2] = "u" /\ guest[3] = "i"
      BY DEF Compares, Guest!Comparisons
    <3>7. i.m = "cmpw" => /\ entry[1] = W /\ entry[2] = TRUE /\ entry[3] = FALSE
                        /\ guest[1] = "w" /\ guest[2] = "s" /\ guest[3] = "r"
      BY DEF Compares, Guest!Comparisons
    <3>8. i.m = "cmpwi" => /\ entry[1] = W /\ entry[2] = TRUE /\ entry[3] = TRUE
                        /\ guest[1] = "w" /\ guest[2] = "s" /\ guest[3] = "i"
      BY DEF Compares, Guest!Comparisons
    <3> HIDE DEF entry, guest
    <3>. QED BY <1>1, <3>1, <3>2, <3>3, <3>4, <3>5, <3>6, <3>7, <3>8
  <2>2. GuestCompared(i, x, y, so) = Guest!Flags(of(x), of(IF guest[3] = "i" THEN i.imm ELSE y), so)
    BY DEF GuestCompared
  <2> HIDE DEF entry, guest
  <2>3. \A z : of(z) = cast(z) BY <2>1, GuestWords
  <2>4. entry[3] => cast(i.imm) = i.imm
    <3>1. CASE i.m \in {"cmpdi", "cmpwi"}
      <4>1. cast(i.imm) = Signed(entry[1], i.imm) /\ i.imm \in SignedImmediates
        BY <2>1, <3>1 DEF CompareField
      <4>. QED BY <2>1, <4>1, ImmediatesAre
    <3>2. CASE i.m \in {"cmpldi", "cmplwi"}
      <4>1. cast(i.imm) = Low(entry[1], i.imm) /\ i.imm \in 0 .. Word - 1
        BY <2>1, <3>2 DEF CompareField
      <4>. QED BY <2>1, <4>1, ImmediatesAre
    <3>. QED BY <2>1, <3>1, <3>2
  <2>5. of(IF guest[3] = "i" THEN i.imm ELSE y) = q
    <3>1. CASE entry[3]
      <4>1. (IF guest[3] = "i" THEN i.imm ELSE y) = i.imm /\ q = i.imm
        BY <2>1, <3>1
      <4> HIDE DEF of, cast, q
      <4>. QED BY <2>3, <2>4, <3>1, <4>1
    <3>2. CASE ~entry[3]
      <4>1. (IF guest[3] = "i" THEN i.imm ELSE y) = y /\ q = cast(y)
        BY <2>1, <3>2
      <4> HIDE DEF of, cast, q
      <4>. QED BY <2>3, <4>1
    <3>. QED BY <2>1, <3>1, <3>2
  <2>6. of(x) = p BY <2>3
  <2> HIDE DEF of, cast, p, q
  <2>. QED BY <2>2, <2>5, <2>6
<1>. QED BY <1>2, <1>3, <1>4, <1>5

\* A comparison as a step.
LEMMA CompareAgrees ==
  ASSUME NEW t \in Threads, Registered, Compare(t), held' = held, CompareField(Current(t))
  PROVE  Guest!Compare(t) /\ Registered'
<1> DEFINE i == Current(t)
           a == r[t][i.a]
           b == r[t][i.b]
           so == xer[t].so
           F == Compared(Compares[i.m], a, b, i.imm, so)
<1>1. /\ i.m \in DOMAIN Compares /\ CompareField(i) /\ i.d \in 0 .. (W \div 4) - 1
      /\ cr' = [cr EXCEPT ![t][i.d] = F]
      /\ UNCHANGED <<r, xer, trapped, buffer, mem>> /\ pc' = [pc EXCEPT ![t] = @ + 1] /\ prog' = prog
  BY DEF Compare, Advance, memory, CompareField
<1>2. so \in {0, 1} BY RegistersAre
<1>3. i.m \in DOMAIN Guest!Comparisons /\ F \in CRField /\ FieldBits(F) = GuestCompared(i, a, b, so)
  BY <1>1, <1>2, ComparisonsAgree
<1> DEFINE g == GuestCompared(i, a, b, so)
<1>4. /\ cr' \in [Threads -> [0 .. (W \div 4) - 1 -> CRField]]
      /\ GuestCR(cr') = [GuestCR(cr) EXCEPT ![t] = Guest!WithField(@, i.d, g)]
  <2> HIDE DEF F, g, i
  <2>1. GuestCR(cr') = [GuestCR(cr) EXCEPT ![t] = Guest!WithField(@, i.d, FieldBits(F))]
        /\ cr' \in [Threads -> [0 .. (W \div 4) - 1 -> CRField]]
    BY <1>1, <1>3, FieldBecomes
  <2>2. FieldBits(F) = g BY <1>3 DEF g
  <2>. QED BY <2>1, <2>2
<1>5. Seen' = Seen BY <1>1, SeenKept
<1>6. Registered' BY <1>1, <1>4 DEF Registered
<1>7. GuestCA' = GuestCA /\ GuestSO' = GuestSO /\ GuestSO[t] = so
  BY <1>1 DEF GuestCA, GuestSO
<1>8. Guest!Compare(t)
  <2>1. Guest!Current(t) = i /\ Guest!Advance(t)
    BY <1>1 DEF Guest!Current, Current, Guest!Advance
  <2>2. GuestCompared(i, a, b, GuestSO[t]) = g BY <1>7
  <2>3. SUFFICES /\ i.m \in DOMAIN Guest!Comparisons
                 /\ GuestCR(cr') = [GuestCR(cr) EXCEPT ![t] =
                                      Guest!WithField(@, i.d, GuestCompared(i, a, b, GuestSO[t]))]
                 /\ r' = r /\ GuestCA' = GuestCA /\ GuestSO' = GuestSO
                 /\ held' = held /\ trapped' = trapped /\ Seen' = Seen
                 /\ Guest!Advance(t)
    BY <2>1 DEF Guest!Compare, GuestCA, GuestSO, GuestCR, GuestCompared
  <2> HIDE DEF g, i, a, b
  <2>. QED BY <1>1, <1>3, <1>4, <1>5, <1>7, <2>1, <2>2
<1>. QED BY <1>6, <1>8

\* Numbers that are equal by their low bits are equal as signed ones.
LEMMA SameSigned ==
  ASSUME NEW n \in Nat \ {0}, NEW x \in Int, NEW y \in Int
  PROVE  /\ Signed(n, x) \in Int /\ Low(n, x) \in Int
         /\ Signed(n, x) = Signed(n, y) <=> Low(n, x) = Low(n, y)
<1> DEFINE H == 2 ^ (n - 1)
           M == 2 ^ n
<1>1. H \in Nat \ {0} /\ M = 2 * H BY SignedRange
<1>2. /\ Signed(n, x) = IF Low(n, x) < H THEN Low(n, x) ELSE Low(n, x) - M
      /\ Signed(n, y) = IF Low(n, y) < H THEN Low(n, y) ELSE Low(n, y) - M
  BY DEF Signed
<1>3. Low(n, x) \in 0 .. M - 1 /\ Low(n, y) \in 0 .. M - 1
  <2>1. Low(n, x) = x % M /\ Low(n, y) = y % M BY DEF Low
  <2> HIDE DEF M
  <2>. QED BY <1>1, <2>1
<1> HIDE DEF H, M
<1>. QED BY <1>1, <1>2, <1>3

\* The immediate of a trap, and a register.
TrapField(i) ==
  /\ i.imm.n \in SignedImmediates
  /\ i.m = "twi" => i.imm.to \in 0 .. 31
  /\ i.m = "trap" => /\ i.imm.bits \in {W, 2 * W} /\ i.imm.name \in DOMAIN TrapNames
                     /\ i.imm.immediate \in BOOLEAN
                     /\ i.imm.immediate /\ ~TrapNames[i.imm.name][1] => i.imm.n >= 0

Hits(i, a, b) == IF i.m = "twi" THEN Twi(i.imm.to, a, i.imm.n)
                 ELSE NamedTrap(i.imm.bits, i.imm.name, i.imm.immediate, a, b, i.imm.n)
GuestHits(i, a, b) ==
  LET width == IF i.m = "twi" THEN W ELSE i.imm.bits
      other == IF i.m = "twi" \/ i.imm.immediate THEN i.imm.n ELSE b
      named == IF i.m = "twi" THEN {c \in {16, 8, 4, 2, 1} : (i.imm.to \div c) % 2 = 1}
               ELSE Guest!TO[i.imm.name]
  IN  named \cap Guest!Conditions(width, a, other) # {}

\* What the conditions of a trap are.
LEMMA ConditionsAre ==
  ASSUME NEW n, NEW x, NEW y
  PROVE  LET S == Guest!Conditions(n, x, y)
         IN  /\ 16 \in S <=> Signed(n, x) < Signed(n, y)
             /\ 8 \in S <=> Signed(n, x) > Signed(n, y)
             /\ 4 \in S <=> Low(n, x) = Low(n, y)
             /\ 2 \in S <=> Low(n, x) < Low(n, y)
             /\ 1 \in S <=> Low(n, x) > Low(n, y)
<1> DEFINE S == Guest!Conditions(n, x, y)
           A == Signed(n, x) < Signed(n, y)
           B == Signed(n, x) > Signed(n, y)
           C == Low(n, x) = Low(n, y)
           D == Low(n, x) < Low(n, y)
           E == Low(n, x) > Low(n, y)
<1>1. S = (IF A THEN {16} ELSE {}) \cup (IF B THEN {8} ELSE {}) \cup (IF C THEN {4} ELSE {})
          \cup (IF D THEN {2} ELSE {}) \cup (IF E THEN {1} ELSE {})
  BY GuestWords DEF Guest!Conditions
<1> HIDE DEF S, A, B, C, D, E
<1>2. (16 \in S <=> A) /\ (8 \in S <=> B) /\ (4 \in S <=> C) /\ (2 \in S <=> D) /\ (1 \in S <=> E)
  BY <1>1
<1>. QED BY <1>2 DEF S, A, B, C, D, E

\* twi and the named traps: the host traps when the console does.
LEMMA TrapsAgree ==
  ASSUME NEW i, i.m \in {"twi", "trap"}, TrapField(i), NEW a \in Int, NEW b \in Int
  PROVE  Hits(i, a, b) <=> GuestHits(i, a, b)
<1> DEFINE width == IF i.m = "twi" THEN W ELSE i.imm.bits
           n == i.imm.n
           other == IF i.m = "twi" \/ i.imm.immediate THEN n ELSE b
           S == Guest!Conditions(width, a, other)
<1>1. width \in {W, 2 * W} /\ n \in SignedImmediates BY DEF TrapField
<1>2. /\ width \in Nat \ {0} /\ n \in Int /\ Signed(width, n) = n
      /\ n >= 0 => n \in 0 .. Word - 1 /\ Low(width, n) = n
  <2> HIDE DEF width, n
  <2>. QED BY <1>1, ImmediatesAre
<1>3. other \in Int BY <1>2
<1> DEFINE X == Signed(width, a)
           Y == Signed(width, other)
           x == Low(width, a)
           y == Low(width, other)
<1>4. /\ X \in Int /\ Y \in Int /\ x \in Int /\ y \in Int
      /\ X = Y <=> x = y
  <2> HIDE DEF width, other
  <2>. QED BY <1>2, <1>3, SameSigned
<1>5. /\ 16 \in S <=> X < Y
      /\ 8 \in S <=> X > Y
      /\ 4 \in S <=> x = y
      /\ 2 \in S <=> x < y
      /\ 1 \in S <=> x > y
  <2> HIDE DEF width, other
  <2>. QED BY ConditionsAre
<1>6. CASE i.m = "twi"
  <2> DEFINE to == i.imm.to
             on(c) == (to \div c) % 2 = 1
             named == {c \in {16, 8, 4, 2, 1} : on(c)}
  <2>1. GuestHits(i, a, b) <=> named \cap S # {} BY <1>6 DEF GuestHits
  <2>2. /\ width = W /\ other = n BY <1>6
  <2>3. Hits(i, a, b) <=> \/ on(16) /\ X < n
                          \/ on(8) /\ X > n
                          \/ on(4) /\ x = y
                          \/ on(2) /\ x < y
                          \/ to % 2 = 1 /\ x > y
    BY <1>6, <2>2 DEF Hits, Twi, s32, u32
  <2>4. to \div 1 = to
    <3>1. to \in 0 .. 31 BY <1>6 DEF TrapField
    <3> HIDE DEF to
    <3>. QED BY <3>1
  <2>5. Y = n
    <3> HIDE DEF width
    <3>. QED BY <1>2, <2>2
  <2>6. on(1) <=> to % 2 = 1 BY <2>4
  <2> HIDE DEF S, X, Y, x, y, n, on, to
  <2>7. named \cap S # {} <=> \/ on(16) /\ 16 \in S
                              \/ on(8) /\ 8 \in S
                              \/ on(4) /\ 4 \in S
                              \/ on(2) /\ 2 \in S
                              \/ on(1) /\ 1 \in S
    OBVIOUS
  <2> HIDE DEF named
  <2>. QED BY <1>5, <2>1, <2>3, <2>5, <2>6, <2>7
<1>7. CASE i.m = "trap"
  <2> DEFINE name == i.imm.name
             sign == TrapNames[name][1]
             rel == TrapNames[name][2]
             named == Guest!TO[name]
             immediate == i.imm.immediate
  <2>1. /\ width = i.imm.bits /\ other = (IF immediate THEN n ELSE b)
        /\ name \in {"eq", "ne", "ge", "gt", "le", "lt", "lge", "lgt", "lle", "llt"}
        /\ immediate \in BOOLEAN /\ (immediate /\ ~sign => n >= 0)
    BY <1>7 DEF TrapField, TrapNames
  <2>2. GuestHits(i, a, b) <=> named \cap S # {} BY <1>7 DEF GuestHits
  <2>3. Hits(i, a, b) <=>
          Relation(rel, IF sign THEN X ELSE x,
                   IF immediate THEN IF sign THEN n ELSE u32(n) ELSE IF sign THEN Signed(width, b) ELSE Low(width, b))
    BY <1>7, <2>1 DEF Hits, NamedTrap
  <2>4. immediate /\ sign => Y = n
    <3> HIDE DEF width, n, sign
    <3>. QED BY <1>2, <2>1
  <2>5. immediate /\ ~sign => y = n /\ u32(n) = n
    <3>1. W \in {W, 2 * W} OBVIOUS
    <3>2. \A z \in 0 .. Word - 1 : Low(W, z) = z BY <3>1, ImmediatesAre
    <3> HIDE DEF width, n, sign
    <3>. QED BY <1>2, <2>1, <3>2 DEF u32
  <2>6. ~immediate => other = b BY <2>1
  <2>7. Hits(i, a, b) <=> Relation(rel, IF sign THEN X ELSE x, IF sign THEN Y ELSE y)
    <3>1. CASE immediate /\ sign
      <4> HIDE DEF width, n, X, x, Y, y, rel, sign, immediate
      <4>. QED BY <2>3, <2>4, <3>1
    <3>2. CASE immediate /\ ~sign
      <4> HIDE DEF width, n, X, x, Y, y, rel, sign, immediate
      <4>. QED BY <2>3, <2>5, <3>2
    <3>3. CASE ~immediate
      <4>1. Y = Signed(width, b) /\ y = Low(width, b)
        <5> HIDE DEF width
        <5>. QED BY <2>6, <3>3
      <4> HIDE DEF width, n, X, x, Y, y, rel, sign, immediate
      <4>. QED BY <2>3, <3>3, <4>1
    <3>. QED BY <2>1, <3>1, <3>2, <3>3
  <2>8. name = "eq" => sign = FALSE /\ rel = "=" /\ named = {4}
    BY DEF TrapNames, Guest!TO
  <2>9. name = "ne" => sign = FALSE /\ rel = "#" /\ named = {16, 8}
    BY DEF TrapNames, Guest!TO
  <2>10. name = "ge" => sign = TRUE /\ rel = ">=" /\ named = {8, 4}
    BY DEF TrapNames, Guest!TO
  <2>11. name = "gt" => sign = TRUE /\ rel = ">" /\ named = {8}
    BY DEF TrapNames, Guest!TO
  <2>12. name = "le" => sign = TRUE /\ rel = "<=" /\ named = {16, 4}
    BY DEF TrapNames, Guest!TO
  <2>13. name = "lt" => sign = TRUE /\ rel = "<" /\ named = {16}
    BY DEF TrapNames, Guest!TO
  <2>14. name = "lge" => sign = FALSE /\ rel = ">=" /\ named = {4, 1}
    BY DEF TrapNames, Guest!TO
  <2>15. name = "lgt" => sign = FALSE /\ rel = ">" /\ named = {1}
    BY DEF TrapNames, Guest!TO
  <2>16. name = "lle" => sign = FALSE /\ rel = "<=" /\ named = {4, 2}
    BY DEF TrapNames, Guest!TO
  <2>17. name = "llt" => sign = FALSE /\ rel = "<" /\ named = {2}
    BY DEF TrapNames, Guest!TO
  <2> HIDE DEF S, X, Y, x, y, n, width, rel, sign, named, name
  <2>18. CASE name = "eq"
    <3>1. Relation(rel, IF sign THEN X ELSE x, IF sign THEN Y ELSE y) <=> x = y
      BY <2>8, <2>18 DEF Relation
    <3>2. named \cap S # {} <=> 4 \in S BY <2>8, <2>18
    <3>. QED BY <1>4, <1>5, <2>2, <2>7, <3>1, <3>2
  <2>19. CASE name = "ne"
    <3>1. Relation(rel, IF sign THEN X ELSE x, IF sign THEN Y ELSE y) <=> x # y
      BY <2>9, <2>19 DEF Relation
    <3>2. named \cap S # {} <=> 16 \in S \/ 8 \in S BY <2>9, <2>19
    <3>. QED BY <1>4, <1>5, <2>2, <2>7, <3>1, <3>2
  <2>20. CASE name = "ge"
    <3>1. Relation(rel, IF sign THEN X ELSE x, IF sign THEN Y ELSE y) <=> X >= Y
      BY <2>10, <2>20 DEF Relation
    <3>2. named \cap S # {} <=> 8 \in S \/ 4 \in S BY <2>10, <2>20
    <3>. QED BY <1>4, <1>5, <2>2, <2>7, <3>1, <3>2
  <2>21. CASE name = "gt"
    <3>1. Relation(rel, IF sign THEN X ELSE x, IF sign THEN Y ELSE y) <=> X > Y
      BY <2>11, <2>21 DEF Relation
    <3>2. named \cap S # {} <=> 8 \in S BY <2>11, <2>21
    <3>. QED BY <1>4, <1>5, <2>2, <2>7, <3>1, <3>2
  <2>22. CASE name = "le"
    <3>1. Relation(rel, IF sign THEN X ELSE x, IF sign THEN Y ELSE y) <=> X <= Y
      BY <2>12, <2>22 DEF Relation
    <3>2. named \cap S # {} <=> 16 \in S \/ 4 \in S BY <2>12, <2>22
    <3>. QED BY <1>4, <1>5, <2>2, <2>7, <3>1, <3>2
  <2>23. CASE name = "lt"
    <3>1. Relation(rel, IF sign THEN X ELSE x, IF sign THEN Y ELSE y) <=> X < Y
      BY <2>13, <2>23 DEF Relation
    <3>2. named \cap S # {} <=> 16 \in S BY <2>13, <2>23
    <3>. QED BY <1>4, <1>5, <2>2, <2>7, <3>1, <3>2
  <2>24. CASE name = "lge"
    <3>1. Relation(rel, IF sign THEN X ELSE x, IF sign THEN Y ELSE y) <=> x >= y
      BY <2>14, <2>24 DEF Relation
    <3>2. named \cap S # {} <=> 4 \in S \/ 1 \in S BY <2>14, <2>24
    <3>. QED BY <1>4, <1>5, <2>2, <2>7, <3>1, <3>2
  <2>25. CASE name = "lgt"
    <3>1. Relation(rel, IF sign THEN X ELSE x, IF sign THEN Y ELSE y) <=> x > y
      BY <2>15, <2>25 DEF Relation
    <3>2. named \cap S # {} <=> 1 \in S BY <2>15, <2>25
    <3>. QED BY <1>4, <1>5, <2>2, <2>7, <3>1, <3>2
  <2>26. CASE name = "lle"
    <3>1. Relation(rel, IF sign THEN X ELSE x, IF sign THEN Y ELSE y) <=> x <= y
      BY <2>16, <2>26 DEF Relation
    <3>2. named \cap S # {} <=> 4 \in S \/ 2 \in S BY <2>16, <2>26
    <3>. QED BY <1>4, <1>5, <2>2, <2>7, <3>1, <3>2
  <2>27. CASE name = "llt"
    <3>1. Relation(rel, IF sign THEN X ELSE x, IF sign THEN Y ELSE y) <=> x < y
      BY <2>17, <2>27 DEF Relation
    <3>2. named \cap S # {} <=> 2 \in S BY <2>17, <2>27
    <3>. QED BY <1>4, <1>5, <2>2, <2>7, <3>1, <3>2
  <2>. QED
    BY <2>1, <2>18, <2>19, <2>20, <2>21, <2>22, <2>23, <2>24, <2>25, <2>26, <2>27 DEF name
<1>. QED BY <1>6, <1>7

\* A trap as a step.
LEMMA TrapAgrees ==
  ASSUME NEW t \in Threads, Registered, Trap(t), held' = held,
         {Current(t).a, Current(t).b} \subseteq DOMAIN r[t], TrapField(Current(t))
  PROVE  Guest!Trap(t) /\ Registered'
<1> DEFINE i == Current(t)
           a == r[t][i.a]
           b == r[t][i.b]
<1>1. /\ i.m \in {"twi", "trap"}
      /\ trapped' = [trapped EXCEPT ![t] = @ \/ Hits(i, a, b)]
      /\ UNCHANGED <<r, xer, cr, buffer, mem>> /\ pc' = [pc EXCEPT ![t] = @ + 1] /\ prog' = prog
  BY DEF Trap, Advance, memory, Hits
<1>2. a \in Int /\ b \in Int
  <2>1. a \in Register /\ b \in Register BY RegistersAre
  <2> HIDE DEF a, b
  <2>. QED BY <2>1, Width DEF Register
<1>3. Hits(i, a, b) <=> GuestHits(i, a, b)
  <2> HIDE DEF a, b
  <2>. QED BY <1>1, <1>2, TrapsAgree
<1>4. Seen' = Seen BY <1>1, SeenKept
<1>5. GuestCA' = GuestCA /\ GuestSO' = GuestSO /\ GuestCR(cr)' = GuestCR(cr)
  BY <1>1 DEF GuestCA, GuestSO, GuestCR
<1>6. Guest!Trap(t)
  <2>1. Guest!Current(t) = i /\ Guest!Advance(t)
    BY <1>1 DEF Guest!Current, Current, Guest!Advance
  <2>2. trapped' = [trapped EXCEPT ![t] = @ \/ GuestHits(i, a, b)]
    <3> DEFINE p == Hits(i, a, b)
               q == GuestHits(i, a, b)
    <3>1. (trapped[t] \/ p) = (trapped[t] \/ q)
      <4> HIDE DEF p, q
      <4>. QED BY <1>3 DEF p, q
    <3> HIDE DEF p, q
    <3>. QED BY <1>1, <3>1 DEF p, q
  <2>3. SUFFICES /\ i.m \in {"twi", "trap"}
                 /\ trapped' = [trapped EXCEPT ![t] = @ \/ GuestHits(i, a, b)]
                 /\ r' = r /\ GuestCA' = GuestCA /\ GuestSO' = GuestSO /\ GuestCR(cr)' = GuestCR(cr)
                 /\ held' = held /\ Seen' = Seen
                 /\ Guest!Advance(t)
    BY <2>1 DEF Guest!Trap, GuestCA, GuestSO, GuestCR, GuestHits
  <2> HIDE DEF i, a, b
  <2>. QED BY <1>1, <1>4, <1>5, <2>1, <2>2
<1>7. Registered' BY <1>1 DEF Registered
<1>. QED BY <1>6, <1>7

-----------------------------------------------------------------------------
(* The condition register and xer as numbers, and single flags.             *)

\* Flags are zeros and ones.
LEMMA FlagBit ==
  ASSUME NEW c \in [0 .. (W \div 4) - 1 -> CRField], NEW n \in 0 .. W - 1
  PROVE  Flag(c, n) \in {0, 1}
<1>1. n \div 4 \in 0 .. (W \div 4) - 1 /\ n % 4 \in 0 .. 3 BY FlagPlaces
<1>2. c[n \div 4] \in CRField BY <1>1
<1> DEFINE F == c[n \div 4]
           q == n % 4
<1>3. F.lt \in {0, 1} /\ F.gt \in {0, 1} /\ F.eq \in {0, 1} /\ F.so \in {0, 1}
  BY <1>2 DEF CRField
<1>4. /\ q = 0 => Flag(c, n) = F.lt
      /\ q = 1 => Flag(c, n) = F.gt
      /\ q = 2 => Flag(c, n) = F.eq
      /\ q = 3 => Flag(c, n) = F.so
  BY FlagIs
<1>5. q = 0 \/ q = 1 \/ q = 2 \/ q = 3
  <2> HIDE DEF q
  <2>. QED BY <1>1 DEF q
<1> HIDE DEF F, q
<1>. QED BY <1>3, <1>4, <1>5

\* mfcr puts the flags where the console has them.
LEMMA FlagsToRegister ==
  ASSUME NEW t \in Threads, Registered, mfcr(t), held' = held, Current(t).d \in DOMAIN r[t]
  PROVE  Guest!mfcr(t) /\ Registered'
<1> DEFINE i == Current(t)
           On1 == {n \in 0 .. W - 1 : Flag(cr[t], n) = 1}
           x == NumberOf[{W - 1 - n : n \in On1}]
<1>1. /\ i.m = "mfcr" /\ r' = [r EXCEPT ![t][i.d] = x]
      /\ UNCHANGED <<xer, cr, trapped, buffer, mem>> /\ pc' = [pc EXCEPT ![t] = @ + 1] /\ prog' = prog
  BY DEF mfcr, Advance, memory
<1>2. GuestCR(cr)[t] = [n \in 0 .. W - 1 |-> Flag(cr[t], n)] BY DEF GuestCR
<1>3. {k \in DOMAIN GuestCR(cr)[t] : GuestCR(cr)[t][k] = 1} = On1 BY <1>2
<1>4. W \in Nat \ {0} /\ Top = 2 * W - 1 BY WAssumption DEF Top
<1>5. {Top - p : p \in {W + n : n \in On1}} = {W - 1 - n : n \in On1}
  <2>1. \A n \in On1 : n \in Int /\ Top - (W + n) = W - 1 - n BY <1>4
  <2> HIDE DEF On1
  <2>. QED BY <2>1
<1>6. {W - 1 - n : n \in On1} \in SUBSET (0 .. Top)
  <2>1. \A n \in On1 : W - 1 - n \in 0 .. Top BY <1>4
  <2> HIDE DEF On1
  <2>. QED BY <2>1
<1>7. x \in Register
  <2> HIDE DEF On1
  <2>. QED BY <1>6, Numbers
<1>8. Guest!Of({W + n : n \in On1}) = x
  <2> HIDE DEF On1
  <2>. QED BY <1>5, GuestWords DEF Guest!Of
<1>9. r' \in [Threads -> UNION {[N -> Register] : N \in SUBSET Int}]
  <2> HIDE DEF x
  <2>. QED BY <1>1, <1>7, SetRegister
<1>10. Seen' = Seen BY <1>1, SeenKept
<1>11. GuestCA' = GuestCA /\ GuestSO' = GuestSO /\ GuestCR(cr)' = GuestCR(cr)
  BY <1>1 DEF GuestCA, GuestSO, GuestCR
<1>12. Guest!mfcr(t)
  <2>1. Guest!Current(t) = i /\ Guest!Advance(t)
    BY <1>1 DEF Guest!Current, Current, Guest!Advance
  <2>2. r' = [r EXCEPT ![t][i.d] = Guest!Of({W + n : n \in {k \in DOMAIN GuestCR(cr)[t] : GuestCR(cr)[t][k] = 1}})]
    <3> HIDE DEF i, x, On1
    <3>. QED BY <1>1, <1>3, <1>8
  <2>3. SUFFICES /\ i.m = "mfcr"
                 /\ r' = [r EXCEPT ![t][i.d] =
                            Guest!Of({W + n : n \in {k \in DOMAIN GuestCR(cr)[t] : GuestCR(cr)[t][k] = 1}})]
                 /\ GuestCA' = GuestCA /\ GuestSO' = GuestSO /\ GuestCR(cr)' = GuestCR(cr)
                 /\ held' = held /\ trapped' = trapped /\ Seen' = Seen
                 /\ Guest!Advance(t)
    BY <2>1 DEF Guest!mfcr, GuestCA, GuestSO, GuestCR
  <2>. QED BY <1>1, <1>10, <1>11, <2>1, <2>2
<1>13. Registered' BY <1>1, <1>9 DEF Registered
<1>. QED BY <1>12, <1>13

\* mtcr takes them from there.
LEMMA RegisterToFlags ==
  ASSUME NEW t \in Threads, Registered, mtcr(t), held' = held, Current(t).a \in DOMAIN r[t]
  PROVE  Guest!mtcr(t) /\ Registered'
<1> DEFINE i == Current(t)
           x == r[t][i.a]
           R0 == 0 .. (W \div 4) - 1
           on(f, k) == Bit(W - 1 - (4 * f + k) \in BitsOf[u32(x)])
           new == [f \in R0 |-> [lt |-> on(f, 0), gt |-> on(f, 1), eq |-> on(f, 2), so |-> on(f, 3)]]
           guest == [n \in 0 .. W - 1 |-> Guest!Bit(W + n \in Guest!Has(x))]
<1>1. /\ i.m = "mtcr" /\ cr \in [Threads -> [R0 -> CRField]]
      /\ cr' = [cr EXCEPT ![t] = [f \in DOMAIN cr[t] |->
                 LET o(k) == Bit(W - 1 - (4 * f + k) \in BitsOf[u32(x)])
                 IN  [lt |-> o(0), gt |-> o(1), eq |-> o(2), so |-> o(3)]]]
      /\ UNCHANGED <<r, xer, trapped, buffer, mem>> /\ pc' = [pc EXCEPT ![t] = @ + 1] /\ prog' = prog
  BY DEF mtcr, Advance, memory, Registered
<1>2. DOMAIN cr[t] = R0 BY <1>1
<1>3. cr' = [cr EXCEPT ![t] = new] BY <1>1, <1>2
<1>4. new \in [R0 -> CRField]
  <2>1. \A f \in R0 : \A k \in 0 .. 3 : on(f, k) \in {0, 1} BY DEF Bit
  <2> HIDE DEF on, R0
  <2>2. \A f \in R0 : [lt |-> on(f, 0), gt |-> on(f, 1), eq |-> on(f, 2), so |-> on(f, 3)] \in CRField
    BY <2>1 DEF CRField
  <2>. QED BY <2>2
<1>5. cr' \in [Threads -> [R0 -> CRField]] /\ cr'[t] = new /\ \A u \in Threads \ {t} : cr'[u] = cr[u]
  <2> HIDE DEF R0, new
  <2>. QED BY <1>1, <1>3, <1>4
<1>6. x \in Register BY RegistersAre
<1>7. ASSUME NEW n \in 0 .. W - 1
      PROVE  Flag(new, n) = guest[n]
  <2> DEFINE f == n \div 4
             k == n % 4
  <2>1. f \in R0 /\ k \in 0 .. 3 /\ n = 4 * f + k /\ W \in Nat
    BY FlagPlaces, WAssumption
  <2>2. /\ new[f].lt = on(f, 0) /\ new[f].gt = on(f, 1) /\ new[f].eq = on(f, 2) /\ new[f].so = on(f, 3)
    <3> HIDE DEF on, f, R0
    <3>. QED BY <2>1
  <2>3. /\ k = 0 => Flag(new, n) = new[f].lt
        /\ k = 1 => Flag(new, n) = new[f].gt
        /\ k = 2 => Flag(new, n) = new[f].eq
        /\ k = 3 => Flag(new, n) = new[f].so
    BY FlagIs
  <2>4. Flag(new, n) = on(f, k)
    <3> HIDE DEF on, f, k, new
    <3>1. k = 0 \/ k = 1 \/ k = 2 \/ k = 3 BY <2>1
    <3>. QED BY <2>2, <2>3, <3>1
  <2>5. on(f, k) = Bit(W - 1 - n \in BitsOf[u32(x)])
    <3>1. 4 * f + k = n BY <2>1
    <3> HIDE DEF f, k
    <3>. QED BY <3>1
  <2>6. W + n \in Guest!Has(x) <=> W - 1 - n \in BitsOf[u32(x)]
    <3>1. /\ W + n \in 0 .. Top /\ Top - (W + n) = W - 1 - n /\ W - 1 - n \in 0 .. Top
          /\ W - 1 - n \in Nat /\ W - 1 - n < W
      <4>1. W \in Nat /\ n \in 0 .. W - 1 BY <2>1
      <4> HIDE DEF f, k
      <4>. QED BY <4>1 DEF Top
    <3>2. W + n \in Guest!Has(x) <=> On(x, W - 1 - n) BY <1>6, <3>1, HasIs
    <3>3. x \in Int /\ u32(x) = x % 2 ^ W /\ u32(x) \in Register
      <4>1. x \in Int
        <5> HIDE DEF x
        <5>. QED BY <1>6, Width DEF Register
      <4>2. u32(x) = x % 2 ^ W BY DEF u32, Low
      <4>3. u32(x) \in Register
        <5>1. W \in Nat /\ W <= 2 * W BY WAssumption
        <5>2. Low(W, x) \in Register BY <4>1, <5>1, LowIsRegister
        <5>. QED BY <5>2 DEF u32
      <4>. QED BY <4>1, <4>2, <4>3
    <3>4. On(x % 2 ^ W, W - 1 - n) <=> W - 1 - n < W /\ On(x, W - 1 - n)
      BY <2>1, <3>1, <3>3, OnLow
    <3>5. W - 1 - n \in BitsOf[u32(x)] <=> On(u32(x), W - 1 - n)
      BY <3>1, <3>3, BitsAre
    <3>. QED BY <3>1, <3>2, <3>3, <3>4, <3>5
  <2>7. Guest!Bit(W + n \in Guest!Has(x)) = Bit(W - 1 - n \in BitsOf[u32(x)])
    BY <2>6 DEF Guest!Bit, Bit
  <2>. QED BY <2>4, <2>5, <2>7
<1>8. GuestCR(cr') = [GuestCR(cr) EXCEPT ![t] = guest]
  <2>1. [n \in 0 .. W - 1 |-> Flag(new, n)] = guest
    <3> HIDE DEF new
    <3>. QED BY <1>7
  <2>2. GuestCR(cr') = [u \in Threads |-> IF u = t THEN guest ELSE GuestCR(cr)[u]]
    <3> HIDE DEF new, guest
    <3>. QED BY <1>5, <2>1 DEF GuestCR
  <2>3. [GuestCR(cr) EXCEPT ![t] = guest] = [u \in Threads |-> IF u = t THEN guest ELSE GuestCR(cr)[u]]
    BY DEF GuestCR
  <2>. QED BY <2>2, <2>3
<1>9. GuestCR(cr') = [GuestCR(cr) EXCEPT ![t] = [n \in DOMAIN @ |-> Guest!Bit(W + n \in Guest!Has(x))]]
  <2>1. DOMAIN GuestCR(cr)[t] = 0 .. W - 1 BY DEF GuestCR
  <2>. QED BY <1>8, <2>1
<1>10. Seen' = Seen BY <1>1, SeenKept
<1>11. GuestCA' = GuestCA /\ GuestSO' = GuestSO BY <1>1 DEF GuestCA, GuestSO
<1>12. Guest!mtcr(t)
  <2>1. Guest!Current(t) = i /\ Guest!Advance(t)
    BY <1>1 DEF Guest!Current, Current, Guest!Advance
  <2>2. SUFFICES /\ i.m = "mtcr"
                 /\ GuestCR(cr') = [GuestCR(cr) EXCEPT ![t] = [n \in DOMAIN @ |-> Guest!Bit(W + n \in Guest!Has(x))]]
                 /\ r' = r /\ GuestCA' = GuestCA /\ GuestSO' = GuestSO
                 /\ held' = held /\ trapped' = trapped /\ Seen' = Seen
                 /\ Guest!Advance(t)
    BY <2>1 DEF Guest!mtcr, GuestCA, GuestSO, GuestCR
  <2> HIDE DEF i
  <2>. QED BY <1>1, <1>9, <1>10, <1>11, <2>1
<1>13. Registered' BY <1>1, <1>5 DEF Registered
<1>. QED BY <1>12, <1>13

\* mtxer sets carry and summary overflow as the console does.
LEMMA RegisterToXer ==
  ASSUME NEW t \in Threads, Registered, mtxer(t), held' = held, Current(t).a \in DOMAIN r[t]
  PROVE  Guest!mtxer(t) /\ Registered'
<1> DEFINE i == Current(t)
           x == r[t][i.a]
           so == Bit(W - 1 \in BitsOf[x])
           ca == Bit(W - 3 \in BitsOf[x])
<1>1. /\ i.m = "mtxer"
      /\ xer' = [xer EXCEPT ![t] = [so |-> so, ca |-> ca]]
      /\ UNCHANGED <<r, cr, trapped, buffer, mem>> /\ pc' = [pc EXCEPT ![t] = @ + 1] /\ prog' = prog
  BY DEF mtxer, Advance, memory
<1>2. x \in Register BY RegistersAre
<1>3. so = Guest!Bit(W \in Guest!Has(x)) /\ ca = Guest!Bit(W + 2 \in Guest!Has(x))
  <2>1. W \in Nat /\ W >= 4 /\ Top = 2 * W - 1 BY Width DEF Top
  <2>2. /\ W \in 0 .. Top /\ Top - W = W - 1 /\ W - 1 \in 0 .. Top
        /\ W + 2 \in 0 .. Top /\ Top - (W + 2) = W - 3 /\ W - 3 \in 0 .. Top
    BY <2>1
  <2>3. W \in Guest!Has(x) <=> W - 1 \in BitsOf[x]
    <3>1. W \in Guest!Has(x) <=> On(x, Top - W) BY <1>2, <2>2, HasIs
    <3>. QED BY <1>2, <2>2, <3>1, BitsAre
  <2>4. W + 2 \in Guest!Has(x) <=> W - 3 \in BitsOf[x]
    <3>1. W + 2 \in Guest!Has(x) <=> On(x, Top - (W + 2)) BY <1>2, <2>2, HasIs
    <3>. QED BY <1>2, <2>2, <3>1, BitsAre
  <2>. QED BY <2>3, <2>4 DEF Bit, Guest!Bit
<1>4. so \in {0, 1} /\ ca \in {0, 1} BY DEF Bit
<1> HIDE DEF so, ca
<1>5. xer \in [Threads -> [so : {0, 1}, ca : {0, 1}]] BY DEF Registered
<1>6. xer' \in [Threads -> [so : {0, 1}, ca : {0, 1}]] BY <1>1, <1>4, <1>5
<1>7. GuestCA' = [GuestCA EXCEPT ![t] = ca] /\ GuestSO' = [GuestSO EXCEPT ![t] = so]
  <2>1. \A u \in Threads : /\ xer'[u].ca = (IF u = t THEN ca ELSE xer[u].ca)
                           /\ xer'[u].so = (IF u = t THEN so ELSE xer[u].so)
    BY <1>1, <1>5
  <2>2. GuestCA' = [u \in Threads |-> IF u = t THEN ca ELSE xer[u].ca]
    BY <2>1 DEF GuestCA
  <2>3. GuestSO' = [u \in Threads |-> IF u = t THEN so ELSE xer[u].so]
    BY <2>1 DEF GuestSO
  <2>4. [GuestCA EXCEPT ![t] = ca] = [u \in Threads |-> IF u = t THEN ca ELSE xer[u].ca]
    BY DEF GuestCA
  <2>5. [GuestSO EXCEPT ![t] = so] = [u \in Threads |-> IF u = t THEN so ELSE xer[u].so]
    BY DEF GuestSO
  <2>. QED BY <2>2, <2>3, <2>4, <2>5
<1>8. Seen' = Seen BY <1>1, SeenKept
<1>9. GuestCR(cr)' = GuestCR(cr) BY <1>1 DEF GuestCR
<1>10. Guest!mtxer(t)
  <2>1. Guest!Current(t) = i /\ Guest!Advance(t)
    BY <1>1 DEF Guest!Current, Current, Guest!Advance
  <2>2. SUFFICES /\ i.m = "mtxer"
                 /\ GuestSO' = [GuestSO EXCEPT ![t] = Guest!Bit(W \in Guest!Has(x))]
                 /\ GuestCA' = [GuestCA EXCEPT ![t] = Guest!Bit(W + 2 \in Guest!Has(x))]
                 /\ r' = r /\ GuestCR(cr)' = GuestCR(cr)
                 /\ held' = held /\ trapped' = trapped /\ Seen' = Seen
                 /\ Guest!Advance(t)
    BY <2>1 DEF Guest!mtxer, GuestCA, GuestSO, GuestCR
  <2> HIDE DEF i, x
  <2>. QED BY <1>1, <1>3, <1>7, <1>8, <1>9, <2>1
<1>11. Registered' BY <1>1, <1>6 DEF Registered
<1>. QED BY <1>10, <1>11

\* One flag becomes x.
LEMMA WithFlagIs ==
  ASSUME NEW c \in [0 .. (W \div 4) - 1 -> CRField], NEW n \in 0 .. W - 1, NEW x \in {0, 1}
  PROVE  /\ WithFlag(c, n, x) \in [0 .. (W \div 4) - 1 -> CRField]
         /\ \A k \in 0 .. W - 1 : Flag(WithFlag(c, n, x), k) = IF k = n THEN x ELSE Flag(c, k)
<1> DEFINE R0 == 0 .. (W \div 4) - 1
           f == n \div 4
           names == {"lt", "gt", "eq", "so"}
           at(k) == FieldNames[(k % 4) + 1]
           d == WithFlag(c, n, x)
           G == [c[f] EXCEPT ![at(n)] = x]
<1>1. f \in R0 BY FlagPlaces
<1>2. d = [c EXCEPT ![f] = G] BY DEF WithFlag
<1>3. \A k \in 0 .. W - 1 : at(k) \in names
  <2> SUFFICES ASSUME NEW k \in 0 .. W - 1
               PROVE  at(k) \in names
    OBVIOUS
  <2> DEFINE q == k % 4
  <2>1. q \in 0 .. 3 BY FlagPlaces
  <2> HIDE DEF q
  <2>2. FieldNames[q + 1] \in names BY <2>1 DEF FieldNames
  <2>. QED BY <2>2 DEF q
<1>4. \A k \in 0 .. W - 1 : at(k) = at(n) => k % 4 = n % 4
  <2> SUFFICES ASSUME NEW k \in 0 .. W - 1, at(k) = at(n)
               PROVE  k % 4 = n % 4
    OBVIOUS
  <2> DEFINE q == k % 4
             p == n % 4
  <2>1. q \in 0 .. 3 /\ p \in 0 .. 3 BY FlagPlaces
  <2> HIDE DEF q, p
  <2>2. FieldNames[q + 1] = FieldNames[p + 1] => q = p BY <2>1 DEF FieldNames
  <2>. QED BY <2>2 DEF q, p
<1>5. c[f] \in CRField BY <1>1
<1> HIDE DEF at, f, d
<1>6. \A k \in 0 .. W - 1 : G[at(k)] = IF at(k) = at(n) THEN x ELSE c[f][at(k)]
  <2>1. DOMAIN c[f] = names BY <1>5 DEF CRField
  <2>. QED BY <1>3, <2>1
<1>7. G \in CRField
  <2>1. at(n) \in names BY <1>3
  <2> DEFINE nm == at(n)
  <2> HIDE DEF nm
  <2>2. nm \in {"lt", "gt", "eq", "so"} BY <2>1 DEF nm
  <2>3. [c[f] EXCEPT ![nm] = x] \in CRField BY <1>5, <2>2 DEF CRField
  <2>. QED BY <2>3 DEF nm
<1> HIDE DEF G
<1>8. d \in [R0 -> CRField] /\ d[f] = G /\ \A j \in R0 : j # f => d[j] = c[j]
  <2> HIDE DEF R0
  <2>. QED BY <1>1, <1>2, <1>7 DEF R0
<1>9. ASSUME NEW k \in 0 .. W - 1
      PROVE  Flag(d, k) = IF k = n THEN x ELSE Flag(c, k)
  <2> DEFINE e == k \div 4
  <2>1. Flag(d, k) = d[e][at(k)] /\ Flag(c, k) = c[e][at(k)] BY DEF Flag, at
  <2>2. e \in R0 BY FlagPlaces
  <2>3. e = f /\ at(k) = at(n) => k = n
    <3>1. k = 4 * e + (k % 4) /\ n = 4 * f + (n % 4) BY FlagPlaces DEF f
    <3> DEFINE q == k % 4
               p == n % 4
    <3>2. at(k) = at(n) => q = p BY <1>4
    <3> HIDE DEF e, q, p
    <3>. QED BY <3>1, <3>2 DEF q, p
  <2>4. k = n => e = f BY DEF f
  <2> HIDE DEF e
  <2>. QED BY <1>6, <1>8, <2>1, <2>2, <2>3, <2>4
<1>. QED BY <1>8, <1>9 DEF d

\* cror and crorc.
LEMMA FlagsCombine ==
  ASSUME NEW t \in Threads, Registered, CombineFlags(t), held' = held,
         {Current(t).d, Current(t).a, Current(t).b} \subseteq 0 .. W - 1
  PROVE  Guest!CombineFlags(t) /\ Registered'
<1> DEFINE i == Current(t)
           c == cr[t]
           op == IF i.m = "cror" THEN "or" ELSE "orc"
           x == IF Flag(c, i.a) = 1 \/ Flag(c, i.b) = (IF i.m = "cror" THEN 1 ELSE 0) THEN 1 ELSE 0
           y == Guest!Bit(Guest!Makes(op, Flag(c, i.a) = 1, Flag(c, i.b) = 1))
           R0 == 0 .. (W \div 4) - 1
<1>1. /\ i.m \in {"cror", "crorc"} /\ cr \in [Threads -> [R0 -> CRField]] /\ c \in [R0 -> CRField]
      /\ cr' = [cr EXCEPT ![t] = WithFlag(@, i.d, x)]
      /\ UNCHANGED <<r, xer, trapped, buffer, mem>> /\ pc' = [pc EXCEPT ![t] = @ + 1] /\ prog' = prog
  BY DEF CombineFlags, Advance, memory, Registered
<1>2. x = y
  <2>1. Flag(c, i.b) \in {0, 1}
    <3> HIDE DEF c, i
    <3>. QED BY <1>1, FlagBit DEF i
  <2>2. CASE i.m = "cror"
    <3>1. Guest!Makes(op, Flag(c, i.a) = 1, Flag(c, i.b) = 1) <=> Flag(c, i.a) = 1 \/ Flag(c, i.b) = 1
      BY <2>2 DEF Guest!Makes
    <3> HIDE DEF c, i
    <3>. QED BY <2>2, <3>1 DEF Guest!Bit
  <2>3. CASE i.m = "crorc"
    <3>1. Guest!Makes(op, Flag(c, i.a) = 1, Flag(c, i.b) = 1) <=> Flag(c, i.a) = 1 \/ ~(Flag(c, i.b) = 1)
      BY <2>3 DEF Guest!Makes
    <3> HIDE DEF c, i
    <3>. QED BY <2>1, <2>3, <3>1 DEF Guest!Bit
  <2>. QED BY <1>1, <2>2, <2>3
<1>3. x \in {0, 1} OBVIOUS
<1> DEFINE d == WithFlag(c, i.d, x)
<1> HIDE DEF x, y
<1>4. d \in [R0 -> CRField] /\ \A k \in 0 .. W - 1 : Flag(d, k) = IF k = i.d THEN x ELSE Flag(c, k)
  <2> HIDE DEF c, i
  <2>. QED BY <1>1, <1>3, WithFlagIs DEF i
<1> HIDE DEF d
<1>5. cr' = [cr EXCEPT ![t] = d] BY <1>1 DEF d
<1>6. cr' \in [Threads -> [R0 -> CRField]] /\ cr'[t] = d /\ \A u \in Threads \ {t} : cr'[u] = cr[u]
  <2> HIDE DEF R0
  <2>. QED BY <1>1, <1>4, <1>5
<1>7. GuestCR(cr') = [GuestCR(cr) EXCEPT ![t][i.d] = y]
  <2> DEFINE old == [k \in 0 .. W - 1 |-> Flag(c, k)]
             new == [k \in 0 .. W - 1 |-> Flag(d, k)]
  <2>1. new = [old EXCEPT ![i.d] = y]
    <3> HIDE DEF c, i
    <3>. QED BY <1>2, <1>4
  <2>2. GuestCR(cr)[t] = old BY DEF GuestCR
  <2>3. GuestCR(cr') = [u \in Threads |-> IF u = t THEN new ELSE GuestCR(cr)[u]]
    BY <1>6 DEF GuestCR
  <2> HIDE DEF new, old
  <2>4. [GuestCR(cr) EXCEPT ![t] = new] = [u \in Threads |-> IF u = t THEN new ELSE GuestCR(cr)[u]]
    BY DEF GuestCR
  <2>. QED BY <2>1, <2>2, <2>3, <2>4
<1>8. GuestCR(cr)[t][i.a] = Flag(c, i.a) /\ GuestCR(cr)[t][i.b] = Flag(c, i.b)
  BY DEF GuestCR
<1>9. Seen' = Seen BY <1>1, SeenKept
<1>10. GuestCA' = GuestCA /\ GuestSO' = GuestSO BY <1>1 DEF GuestCA, GuestSO
<1>11. Guest!CombineFlags(t)
  <2>1. Guest!Current(t) = i /\ Guest!Advance(t)
    BY <1>1 DEF Guest!Current, Current, Guest!Advance
  <2>2. SUFFICES /\ i.m \in {"cror", "crorc"}
                 /\ GuestCR(cr') = [GuestCR(cr) EXCEPT ![t][i.d] =
                       Guest!Bit(Guest!Makes(op, GuestCR(cr)[t][i.a] = 1, GuestCR(cr)[t][i.b] = 1))]
                 /\ r' = r /\ GuestCA' = GuestCA /\ GuestSO' = GuestSO
                 /\ held' = held /\ trapped' = trapped /\ Seen' = Seen
                 /\ Guest!Advance(t)
    BY <2>1 DEF Guest!CombineFlags, GuestCA, GuestSO, GuestCR
  <2>3. Guest!Bit(Guest!Makes(op, GuestCR(cr)[t][i.a] = 1, GuestCR(cr)[t][i.b] = 1)) = y
    BY <1>8 DEF y
  <2> HIDE DEF i, op
  <2>. QED BY <1>1, <1>7, <1>9, <1>10, <2>1, <2>3
<1>12. Registered' BY <1>1, <1>6 DEF Registered
<1>. QED BY <1>11, <1>12

-----------------------------------------------------------------------------
(* Instructions that do nothing but go on, or go back.                      *)

\* Barriers are printed as nothing, which is right for a thread of its own.
LEMMA BarrierAgrees ==
  ASSUME NEW t \in Threads, Registered, Barrier(t), held' = held
  PROVE  Guest!Barrier(t) /\ Registered'
<1>1. /\ Current(t).m \in {"sync", "lwsync", "eieio", "nop"}
      /\ UNCHANGED <<r, xer, cr, trapped, buffer, mem>> /\ pc' = [pc EXCEPT ![t] = @ + 1] /\ prog' = prog
  BY DEF Barrier, Advance, memory, state
<1>2. Seen' = Seen BY <1>1, SeenKept
<1>3. Guest!Current(t) = Current(t) BY DEF Guest!Current, Current
<1>. QED
  BY <1>1, <1>2, <1>3 DEF Guest!Barrier, Guest!Advance, Guest!gstate, Registered

\* The branch back of a loop.
LEMMA BranchAgrees ==
  ASSUME NEW t \in Threads, Registered, BranchBack(t), held' = held
  PROVE  Guest!BranchBack(t) /\ Registered'
<1>1. /\ Current(t).m = "bne"
      /\ UNCHANGED <<r, xer, cr, trapped, buffer, mem>> /\ prog' = prog
      /\ pc' = [pc EXCEPT ![t] = IF cr[t][0].eq = 0 THEN Current(t).imm ELSE @ + 1]
  BY DEF BranchBack, memory, state
<1>2. Seen' = Seen BY <1>1, SeenKept
<1>3. GuestCR(cr)[t][2] = cr[t][0].eq
  <2>1. 2 \in 0 .. W - 1 /\ 2 \div 4 = 0 /\ 2 % 4 = 2 BY Width
  <2>2. Flag(cr[t], 2) = cr[t][0].eq BY <2>1, FlagIs
  <2>. QED BY <2>1, <2>2 DEF GuestCR
<1>4. Guest!Current(t) = Current(t) BY DEF Guest!Current, Current
<1>. QED
  BY <1>1, <1>2, <1>3, <1>4 DEF Guest!BranchBack, Guest!gstate, Registered, GuestCR
-----------------------------------------------------------------------------
(* Loads and stores: what the tables say of an instruction, and its address. *)

Fits(m, e) ==
  /\ e.n = Guest!Size(m) /\ e.n \in {1, 2, 4, 8}
  /\ e.signed <=> m \in Guest!Algebraic
  /\ e.indexed <=> m \in Guest!Indexed
  /\ e.update <=> m \in Guest!WithUpdate
  /\ e.reversed <=> m \in {"lwbrx", "stwbrx", "sthbrx"}

LEMMA OverFits ==
  ASSUME NEW f, NEW g, \A m \in DOMAIN f : Fits(m, f[m]), \A m \in DOMAIN g : Fits(m, g[m])
  PROVE  \A m \in DOMAIN Over(f, g) : Fits(m, Over(f, g)[m])
BY DEF Over

LEMMA ByteLoadsFit == \A m \in DOMAIN ByteLoads : Fits(m, ByteLoads[m])
<1>1. DOMAIN ByteLoads = {"lbz", "lbzx", "lbzu"} BY DEF ByteLoads
<1> USE DEF Fits, Guest!Size, Guest!Algebraic, Guest!Indexed, Guest!WithUpdate
<1> USE DEF ByteLoads, Plain, Updating, Reversing, Access
<1>2. Fits("lbz", ByteLoads["lbz"]) OBVIOUS
<1>3. Fits("lbzx", ByteLoads["lbzx"]) OBVIOUS
<1>4. Fits("lbzu", ByteLoads["lbzu"]) OBVIOUS
<1> HIDE DEF ByteLoads, Fits
<1>. QED BY <1>1, <1>2, <1>3, <1>4

LEMMA DoubleLoadsFit == \A m \in DOMAIN DoubleLoads : Fits(m, DoubleLoads[m])
<1>1. DOMAIN DoubleLoads = {"ld", "ldx", "ldu"} BY DEF DoubleLoads
<1> USE DEF Fits, Guest!Size, Guest!Algebraic, Guest!Indexed, Guest!WithUpdate
<1> USE DEF DoubleLoads, Plain, Updating, Reversing, Access
<1>2. Fits("ld", DoubleLoads["ld"]) OBVIOUS
<1>3. Fits("ldx", DoubleLoads["ldx"]) OBVIOUS
<1>4. Fits("ldu", DoubleLoads["ldu"]) OBVIOUS
<1> HIDE DEF DoubleLoads, Fits
<1>. QED BY <1>1, <1>2, <1>3, <1>4

LEMMA HalfLoadsFit == \A m \in DOMAIN HalfLoads : Fits(m, HalfLoads[m])
<1>1. DOMAIN HalfLoads = {"lha", "lhax", "lhz", "lhzx"} BY DEF HalfLoads
<1> USE DEF Fits, Guest!Size, Guest!Algebraic, Guest!Indexed, Guest!WithUpdate
<1> USE DEF HalfLoads, Plain, Updating, Reversing, Access
<1>2. Fits("lha", HalfLoads["lha"]) OBVIOUS
<1>3. Fits("lhax", HalfLoads["lhax"]) OBVIOUS
<1>4. Fits("lhz", HalfLoads["lhz"]) OBVIOUS
<1>5. Fits("lhzx", HalfLoads["lhzx"]) OBVIOUS
<1> HIDE DEF HalfLoads, Fits
<1>. QED BY <1>1, <1>2, <1>3, <1>4, <1>5

LEMMA WordLoadsFit == \A m \in DOMAIN WordLoads : Fits(m, WordLoads[m])
<1>1. DOMAIN WordLoads = {"lwa", "lwax", "lwbrx", "lwz", "lwzx", "lwzu"} BY DEF WordLoads
<1> USE DEF Fits, Guest!Size, Guest!Algebraic, Guest!Indexed, Guest!WithUpdate
<1> USE DEF WordLoads, Plain, Updating, Reversing, Access
<1>2. Fits("lwa", WordLoads["lwa"]) OBVIOUS
<1>3. Fits("lwax", WordLoads["lwax"]) OBVIOUS
<1>4. Fits("lwbrx", WordLoads["lwbrx"]) OBVIOUS
<1>5. Fits("lwz", WordLoads["lwz"]) OBVIOUS
<1>6. Fits("lwzx", WordLoads["lwzx"]) OBVIOUS
<1>7. Fits("lwzu", WordLoads["lwzu"]) OBVIOUS
<1> HIDE DEF WordLoads, Fits
<1>. QED BY <1>1, <1>2, <1>3, <1>4, <1>5, <1>6, <1>7

LEMMA LateLoadsFit == \A m \in DOMAIN LateLoads : Fits(m, LateLoads[m])
<1>1. DOMAIN LateLoads = {"lbzux", "ldux", "lhau", "lhzu", "lhzux", "lwzux"} BY DEF LateLoads
<1> USE DEF Fits, Guest!Size, Guest!Algebraic, Guest!Indexed, Guest!WithUpdate
<1> USE DEF LateLoads, Plain, Updating, Reversing, Access
<1>2. Fits("lbzux", LateLoads["lbzux"]) OBVIOUS
<1>3. Fits("ldux", LateLoads["ldux"]) OBVIOUS
<1>4. Fits("lhau", LateLoads["lhau"]) OBVIOUS
<1>5. Fits("lhzu", LateLoads["lhzu"]) OBVIOUS
<1>6. Fits("lhzux", LateLoads["lhzux"]) OBVIOUS
<1>7. Fits("lwzux", LateLoads["lwzux"]) OBVIOUS
<1> HIDE DEF LateLoads, Fits
<1>. QED BY <1>1, <1>2, <1>3, <1>4, <1>5, <1>6, <1>7

LEMMA ByteStoresFit == \A m \in DOMAIN ByteStores : Fits(m, ByteStores[m])
<1>1. DOMAIN ByteStores = {"stb", "stbx", "stbu"} BY DEF ByteStores
<1> USE DEF Fits, Guest!Size, Guest!Algebraic, Guest!Indexed, Guest!WithUpdate
<1> USE DEF ByteStores, Plain, Updating, Reversing, Access
<1>2. Fits("stb", ByteStores["stb"]) OBVIOUS
<1>3. Fits("stbx", ByteStores["stbx"]) OBVIOUS
<1>4. Fits("stbu", ByteStores["stbu"]) OBVIOUS
<1> HIDE DEF ByteStores, Fits
<1>. QED BY <1>1, <1>2, <1>3, <1>4

LEMMA DoubleStoresFit == \A m \in DOMAIN DoubleStores : Fits(m, DoubleStores[m])
<1>1. DOMAIN DoubleStores = {"std", "stdx", "stdu"} BY DEF DoubleStores
<1> USE DEF Fits, Guest!Size, Guest!Algebraic, Guest!Indexed, Guest!WithUpdate
<1> USE DEF DoubleStores, Plain, Updating, Reversing, Access
<1>2. Fits("std", DoubleStores["std"]) OBVIOUS
<1>3. Fits("stdx", DoubleStores["stdx"]) OBVIOUS
<1>4. Fits("stdu", DoubleStores["stdu"]) OBVIOUS
<1> HIDE DEF DoubleStores, Fits
<1>. QED BY <1>1, <1>2, <1>3, <1>4

LEMMA HalfStoresFit == \A m \in DOMAIN HalfStores : Fits(m, HalfStores[m])
<1>1. DOMAIN HalfStores = {"sth", "sthx", "sthbrx"} BY DEF HalfStores
<1> USE DEF Fits, Guest!Size, Guest!Algebraic, Guest!Indexed, Guest!WithUpdate
<1> USE DEF HalfStores, Plain, Updating, Reversing, Access
<1>2. Fits("sth", HalfStores["sth"]) OBVIOUS
<1>3. Fits("sthx", HalfStores["sthx"]) OBVIOUS
<1>4. Fits("sthbrx", HalfStores["sthbrx"]) OBVIOUS
<1> HIDE DEF HalfStores, Fits
<1>. QED BY <1>1, <1>2, <1>3, <1>4

LEMMA WordStoresFit == \A m \in DOMAIN WordStores : Fits(m, WordStores[m])
<1>1. DOMAIN WordStores = {"stw", "stwx", "stwbrx", "stwu", "stwux"} BY DEF WordStores
<1> USE DEF Fits, Guest!Size, Guest!Algebraic, Guest!Indexed, Guest!WithUpdate
<1> USE DEF WordStores, Plain, Updating, Reversing, Access
<1>2. Fits("stw", WordStores["stw"]) OBVIOUS
<1>3. Fits("stwx", WordStores["stwx"]) OBVIOUS
<1>4. Fits("stwbrx", WordStores["stwbrx"]) OBVIOUS
<1>5. Fits("stwu", WordStores["stwu"]) OBVIOUS
<1>6. Fits("stwux", WordStores["stwux"]) OBVIOUS
<1> HIDE DEF WordStores, Fits
<1>. QED BY <1>1, <1>2, <1>3, <1>4, <1>5, <1>6

LEMMA LateStoresFit == \A m \in DOMAIN LateStores : Fits(m, LateStores[m])
<1>1. DOMAIN LateStores = {"stbux", "stdux", "sthu", "sthux"} BY DEF LateStores
<1> USE DEF Fits, Guest!Size, Guest!Algebraic, Guest!Indexed, Guest!WithUpdate
<1> USE DEF LateStores, Plain, Updating, Reversing, Access
<1>2. Fits("stbux", LateStores["stbux"]) OBVIOUS
<1>3. Fits("stdux", LateStores["stdux"]) OBVIOUS
<1>4. Fits("sthu", LateStores["sthu"]) OBVIOUS
<1>5. Fits("sthux", LateStores["sthux"]) OBVIOUS
<1> HIDE DEF LateStores, Fits
<1>. QED BY <1>1, <1>2, <1>3, <1>4, <1>5

\* Every load of the translator's table is the console's of that name.
LEMMA LoadsFit == \A m \in DOMAIN Loads : Fits(m, Loads[m])
<1>1. \A m \in DOMAIN Over(WordLoads, LateLoads) : Fits(m, Over(WordLoads, LateLoads)[m])
  BY WordLoadsFit, LateLoadsFit, OverFits
<1> DEFINE late == Over(WordLoads, LateLoads)
           half == Over(HalfLoads, late)
           double == Over(DoubleLoads, half)
<1>2. Loads = Over(ByteLoads, double) BY DEF Loads
<1> HIDE DEF late
<1>3. \A m \in DOMAIN half : Fits(m, half[m])
  BY <1>1, HalfLoadsFit, OverFits DEF late
<1> HIDE DEF half
<1>4. \A m \in DOMAIN double : Fits(m, double[m])
  BY <1>3, DoubleLoadsFit, OverFits
<1> HIDE DEF double
<1>. QED BY <1>2, <1>4, ByteLoadsFit, OverFits

\* Every store likewise.
LEMMA StoresFit == \A m \in DOMAIN Stores : Fits(m, Stores[m])
<1>1. \A m \in DOMAIN Over(WordStores, LateStores) : Fits(m, Over(WordStores, LateStores)[m])
  BY WordStoresFit, LateStoresFit, OverFits
<1> DEFINE late == Over(WordStores, LateStores)
           half == Over(HalfStores, late)
           double == Over(DoubleStores, half)
<1>2. Stores = Over(ByteStores, double) BY DEF Stores
<1> HIDE DEF late
<1>3. \A m \in DOMAIN half : Fits(m, half[m])
  BY <1>1, HalfStoresFit, OverFits DEF late
<1> HIDE DEF half
<1>4. \A m \in DOMAIN double : Fits(m, double[m])
  BY <1>3, DoubleStoresFit, OverFits
<1> HIDE DEF double
<1>. QED BY <1>2, <1>4, ByteStoresFit, OverFits

LEMMA SumCut ==
  ASSUME NEW M \in Nat \ {0}, NEW x \in Int, NEW y \in Int
  PROVE  ((x % M) + y) % M = (x + y) % M /\ ((x % M) + (y % M)) % M = (x + y) % M
<1>1. ASSUME NEW p \in Int, NEW s \in Int
      PROVE  ((p % M) + s) % M = (p + s) % M
  <2> DEFINE q == p \div M
             e == p % M
  <2>1. q \in Int /\ e \in 0 .. M - 1 /\ p = q * M + e BY Remainder
  <2>2. e \in Int
    <3> HIDE DEF e
    <3>. QED BY <2>1
  <2>3. ((e + s) + q * M) % M = (e + s) % M
    <3>1. \A z, k \in Int : (z + k * M) % M = z % M BY Congruent
    <3>2. e + s \in Int
      <4> HIDE DEF e
      <4>. QED BY <2>2
    <3> HIDE DEF e, q
    <3>. QED BY <2>1, <3>1, <3>2
  <2>4. (e + s) + q * M = p + s
    <3> DEFINE z == q * M
    <3>1. z \in Int
      <4> HIDE DEF q
      <4>. QED BY <2>1
    <3>2. p = z + e BY <2>1
    <3> HIDE DEF z, e, q
    <3>3. (e + s) + z = p + s BY <2>2, <3>1, <3>2
    <3>. QED BY <3>3 DEF z
  <2> HIDE DEF q
  <2>. QED BY <2>3, <2>4
<1>2. x % M \in Int /\ y % M \in Int BY Remainder
<1> DEFINE u == x % M
           v == y % M
<1>3. (u + y) % M = (x + y) % M BY <1>1
<1>4. (v + u) % M = (y + u) % M BY <1>1, <1>2
<1>5. u \in Int /\ v \in Int /\ u + v = v + u /\ y + u = u + y
  <2> HIDE DEF u, v
  <2>. QED BY <1>2 DEF u, v
<1> HIDE DEF u, v
<1>6. (u + v) % M = (x + y) % M BY <1>3, <1>4, <1>5
<1>. QED BY <1>3, <1>6 DEF u, v

\* What an instruction that accesses memory may have.
AccessField(t, i, access) ==
  /\ ~(i.a = 0 /\ ~access.update) => i.a \in DOMAIN r[t]
  /\ IF access.indexed THEN i.b \in DOMAIN r[t] ELSE i.imm \in Int

\* The address printed is the console's, cut to a word.
LEMMA AddressAgrees ==
  ASSUME NEW t \in Threads, Registered, NEW i, NEW access, Fits(i.m, access), AccessField(t, i, access)
  PROVE  /\ Address(access, i, r[t]) = Guest!EA(t, i)
         /\ Address(access, i, r[t]) \in 0 .. Word - 1
<1> DEFINE none == i.a = 0 /\ ~access.update
           A == IF none THEN 0 ELSE r[t][i.a]
           O == IF access.indexed THEN r[t][i.b] ELSE i.imm
           o == IF access.indexed THEN u32(r[t][i.b]) ELSE i.imm
           base == IF none THEN 0 ELSE u32(r[t][i.a])
<1>1. Word \in Nat \ {0} BY Widths
<1>2. Address(access, i, r[t]) = u32(base + o) BY DEF Address
<1>3. Guest!EA(t, i) = Low(W, A + O) BY GuestWords DEF Guest!EA, Fits
<1>4. \A x : u32(x) = x % Word /\ Low(W, x) = x % Word BY DEF u32, Low, Word
<1>5. \A k \in DOMAIN r[t] : r[t][k] \in Int
  <2>1. Register \subseteq Int BY Width DEF Register
  <2>. QED BY <2>1, RegistersAre
<1>6. A \in Int /\ O \in Int BY <1>5 DEF AccessField
<1>7. base = A % Word
  <2>1. 0 % Word = 0 BY <1>1
  <2>. QED BY <1>4, <2>1
<1>8. o = O \/ o = O % Word BY <1>4
<1>9. (base + o) % Word = (A + O) % Word
  <2> HIDE DEF A, O, o, base
  <2>1. ((A % Word) + O) % Word = (A + O) % Word /\ ((A % Word) + (O % Word)) % Word = (A + O) % Word
    BY <1>1, <1>6, SumCut
  <2>. QED BY <1>7, <1>8, <2>1
<1>10. (A + O) % Word \in 0 .. Word - 1
  <2> HIDE DEF A, O
  <2>1. A + O \in Int BY <1>6
  <2>. QED BY <1>1, <2>1, Remainder
<1> HIDE DEF A, O, o, base
<1>. QED BY <1>2, <1>3, <1>4, <1>9, <1>10

\* The atomic instructions and dcbz do not wrap addresses.
LEMMA AtomicAddressAgrees ==
  ASSUME NEW t \in Threads, Registered, NEW i, i.m \in {"lwarx", "ldarx", "dcbz"},
         i.a # 0 => i.a \in DOMAIN r[t], i.b \in DOMAIN r[t]
  PROVE  /\ AtomicAddress(i, r[t]) \in Nat
         /\ u32(AtomicAddress(i, r[t])) = Guest!EA(t, i)
         /\ AtomicAddress(i, r[t]) \in 0 .. Word - 1 => AtomicAddress(i, r[t]) = Guest!EA(t, i)
<1> DEFINE A == IF i.a = 0 THEN 0 ELSE r[t][i.a]
           B == r[t][i.b]
           base == IF i.a = 0 THEN 0 ELSE u32(r[t][i.a])
           o == u32(B)
<1>1. Word \in Nat \ {0} BY Widths
<1>2. AtomicAddress(i, r[t]) = base + o BY DEF AtomicAddress
<1>3. Guest!EA(t, i) = Low(W, A + B)
  <2>1. i.m \notin Guest!WithUpdate /\ i.m \in Guest!Indexed
    BY DEF Guest!WithUpdate, Guest!Indexed
  <2>. QED BY <2>1, GuestWords DEF Guest!EA
<1>4. \A x : u32(x) = x % Word /\ Low(W, x) = x % Word BY DEF u32, Low, Word
<1>5. \A k \in DOMAIN r[t] : r[t][k] \in Int
  <2>1. Register \subseteq Int BY Width DEF Register
  <2>. QED BY <2>1, RegistersAre
<1>6. A \in Int /\ B \in Int BY <1>5
<1>7. base = A % Word /\ o = B % Word
  <2>1. 0 % Word = 0 BY <1>1
  <2>. QED BY <1>4, <2>1
<1> HIDE DEF A, B, o, base
<1>8. base \in 0 .. Word - 1 /\ o \in 0 .. Word - 1
  BY <1>1, <1>6, <1>7, Remainder
<1>9. (base + o) % Word = (A + B) % Word BY <1>1, <1>6, <1>7, SumCut
<1>10. base + o \in Nat /\ (base + o \in 0 .. Word - 1 => (base + o) % Word = base + o)
  BY <1>1, <1>8
<1>. QED BY <1>2, <1>3, <1>4, <1>9, <1>10

-----------------------------------------------------------------------------
(* Memory as a thread with stores under way sees it.                        *)

Patch(D) == UNION {[S -> 0 .. Byte - 1] : S \in SUBSET D}

LEMMA PatchIs ==
  ASSUME NEW D, NEW f \in Patch(D)
  PROVE  DOMAIN f \subseteq D /\ \A a \in DOMAIN f : f[a] \in 0 .. Byte - 1
BY DEF Patch

ViewOf(b, m) ==
  LET stored(a) == {k \in DOMAIN b : a \in DOMAIN b[k]}
  IN  [a \in DOMAIN m |-> IF stored(a) = {} THEN m[a] ELSE b[Max(stored(a))][a]]

\* No store is of the byte at a; k is the last store of it.
Untouched(b, a) == \A k \in 1 .. Len(b) : a \notin DOMAIN b[k]
LastOf(b, a, k) ==
  /\ k \in 1 .. Len(b) /\ a \in DOMAIN b[k]
  /\ \A j \in 1 .. Len(b) : a \in DOMAIN b[j] => j <= k

\* A set of numbers below a bound has a greatest.
LEMMA Latest ==
  ASSUME NEW n \in Nat, NEW S \in SUBSET (1 .. n), S # {}
  PROVE  \E k \in S : \A j \in S : j <= k
<1> DEFINE P == {m \in Nat : \A T \in SUBSET (1 .. m) : T # {} => \E k \in T : \A j \in T : j <= k}
<1>1. 0 \in P
  <2> SUFFICES ASSUME NEW T \in SUBSET (1 .. 0), T # {}
               PROVE  FALSE
    OBVIOUS
  <2>1. PICK j : j \in T OBVIOUS
  <2>. QED BY <2>1
<1>2. \A m \in Nat : m \in P => m + 1 \in P
  <2> SUFFICES ASSUME NEW m \in Nat, m \in P, NEW T \in SUBSET (1 .. m + 1), T # {}
               PROVE  \E k \in T : \A j \in T : j <= k
    OBVIOUS
  <2>1. \A j \in T : j \in Int /\ j <= m + 1 OBVIOUS
  <2>2. CASE m + 1 \in T BY <2>1, <2>2
  <2>3. CASE m + 1 \notin T
    <3>1. T \in SUBSET (1 .. m) BY <2>1, <2>3
    <3>. QED BY <3>1
  <2>. QED BY <2>2, <2>3
<1> HIDE DEF P
<1>3. n \in P BY <1>1, <1>2, Induction
<1>. QED BY <1>3 DEF P

LEMMA ViewAt ==
  ASSUME NEW D, NEW b \in Seq(Patch(D)), NEW m \in [D -> 0 .. Byte - 1], NEW a \in D
  PROVE  /\ Untouched(b, a) => ViewOf(b, m)[a] = m[a]
         /\ \A k : LastOf(b, a, k) => ViewOf(b, m)[a] = b[k][a]
         /\ ~Untouched(b, a) => \E k : LastOf(b, a, k)
         /\ ViewOf(b, m)[a] \in 0 .. Byte - 1
<1> DEFINE S == {k \in DOMAIN b : a \in DOMAIN b[k]}
<1>1. DOMAIN b = 1 .. Len(b) /\ Len(b) \in Nat OBVIOUS
<1>2. ViewOf(b, m)[a] = IF S = {} THEN m[a] ELSE b[Max(S)][a] BY DEF ViewOf
<1>3. ASSUME NEW k, LastOf(b, a, k)
      PROVE  ViewOf(b, m)[a] = b[k][a] /\ b[k][a] \in 0 .. Byte - 1
  <2>1. k \in S /\ \A j \in S : k >= j BY <1>1, <1>3 DEF LastOf
  <2>2. \A j \in S : j \in Int BY <1>1
  <2>3. Max(S) = k
    <3>1. Max(S) \in S /\ \A j \in S : Max(S) >= j BY <2>1 DEF Max
    <3> HIDE DEF S
    <3>2. Max(S) >= k /\ k >= Max(S) /\ Max(S) \in Int /\ k \in Int
      BY <2>1, <2>2, <3>1
    <3>. QED BY <3>2
  <2>4. b[k] \in Patch(D) /\ a \in DOMAIN b[k] BY <1>3 DEF LastOf
  <2>5. b[k][a] \in 0 .. Byte - 1 BY <2>4, PatchIs
  <2>. QED BY <1>2, <2>1, <2>3, <2>5
<1>4. ASSUME NEW k \in 1 .. Len(b), a \in DOMAIN b[k]
      PROVE  \E n : LastOf(b, a, n)
  <2>1. S # {} /\ S \in SUBSET (1 .. Len(b)) /\ Len(b) \in Nat BY <1>1, <1>4
  <2>2. PICK n \in S : \A j \in S : j <= n
    <3> HIDE DEF S
    <3>. QED BY <2>1, Latest
  <2>3. LastOf(b, a, n) BY <1>1, <2>2 DEF LastOf
  <2>. QED BY <2>3
<1>5. ASSUME Untouched(b, a)
      PROVE  ViewOf(b, m)[a] = m[a]
  <2>1. S = {} BY <1>1, <1>5 DEF Untouched
  <2>. QED BY <1>2, <2>1
<1>7. ~Untouched(b, a) => \E k : LastOf(b, a, k) BY <1>4 DEF Untouched
<1>6. ViewOf(b, m)[a] \in 0 .. Byte - 1
  <2>1. m[a] \in 0 .. Byte - 1 OBVIOUS
  <2> HIDE DEF S
  <2>. QED BY <1>3, <1>7, <1>5, <2>1
<1>. QED BY <1>3, <1>7, <1>5, <1>6

\* What a thread sees has the addresses of memory, and bytes.
LEMMA ViewIsFunction ==
  ASSUME NEW D, NEW b \in Seq(Patch(D)), NEW m \in [D -> 0 .. Byte - 1]
  PROVE  ViewOf(b, m) \in [D -> 0 .. Byte - 1] /\ (b = <<>> => ViewOf(b, m) = m)
<1> DEFINE V == ViewOf(b, m)
<1>1. V = [a \in D |-> V[a]] BY DEF ViewOf
<1>2. \A a \in D : V[a] \in 0 .. Byte - 1 BY ViewAt
<1>3. V \in [D -> 0 .. Byte - 1]
  <2> HIDE DEF V
  <2>. QED BY <1>1, <1>2
<1>4. ASSUME b = <<>>
      PROVE  V = m
  <2>1. \A a : Untouched(b, a) BY <1>4 DEF Untouched
  <2>2. \A a \in D : V[a] = m[a] BY <2>1, ViewAt
  <2> HIDE DEF V
  <2>. QED BY <1>3, <2>2
<1>. QED BY <1>3, <1>4

\* A store is seen at once.
LEMMA ViewAppended ==
  ASSUME NEW D, NEW b \in Seq(Patch(D)), NEW m \in [D -> 0 .. Byte - 1], NEW p \in Patch(D)
  PROVE  /\ Append(b, p) \in Seq(Patch(D))
         /\ ViewOf(Append(b, p), m) = Over(p, ViewOf(b, m))
<1> DEFINE c == Append(b, p)
           n == Len(b)
           V == ViewOf(b, m)
           U == ViewOf(c, m)
<1>1. /\ c \in Seq(Patch(D)) /\ Len(c) = n + 1 /\ n \in Nat
      /\ c[n + 1] = p /\ \A k \in 1 .. n : c[k] = b[k]
  OBVIOUS
<1>2. DOMAIN p \subseteq D BY PatchIs
<1>3. V \in [D -> 0 .. Byte - 1] /\ U \in [D -> 0 .. Byte - 1]
  BY <1>1, ViewIsFunction
<1> HIDE DEF c
<1>4. ASSUME NEW a \in D
      PROVE  U[a] = IF a \in DOMAIN p THEN p[a] ELSE V[a]
  <2>1. CASE a \in DOMAIN p
    <3>1. LastOf(c, a, n + 1) BY <1>1, <2>1 DEF LastOf
    <3>2. U[a] = c[n + 1][a] BY <1>1, <3>1, ViewAt
    <3>. QED BY <1>1, <2>1, <3>2
  <2>2. CASE a \notin DOMAIN p
    <3>1. CASE Untouched(b, a)
      <4>1. Untouched(c, a)
        <5> SUFFICES ASSUME NEW k \in 1 .. Len(c)
                     PROVE  a \notin DOMAIN c[k]
          BY DEF Untouched
        <5>1. CASE k = n + 1 BY <1>1, <2>2, <5>1
        <5>2. CASE k # n + 1
          <6>1. k \in 1 .. Len(b) /\ c[k] = b[k] BY <1>1, <5>2
          <6>. QED BY <3>1, <6>1 DEF Untouched
        <5>. QED BY <5>1, <5>2
      <4>2. U[a] = m[a] /\ V[a] = m[a] BY <1>1, <3>1, <4>1, ViewAt
      <4>. QED BY <2>2, <4>2
    <3>2. CASE ~Untouched(b, a)
      <4>1. PICK k : LastOf(b, a, k) BY <3>2, ViewAt
      <4>2. V[a] = b[k][a] BY <4>1, ViewAt
      <4>3. LastOf(c, a, k)
        <5>1. k \in 1 .. n /\ a \in DOMAIN b[k] /\ \A j \in 1 .. n : a \in DOMAIN b[j] => j <= k
          BY <4>1 DEF LastOf
        <5>2. ASSUME NEW j \in 1 .. Len(c), a \in DOMAIN c[j]
              PROVE  j <= k
          <6> HIDE DEF n
          <6>1. j # n + 1 BY <1>1, <2>2, <5>2
          <6>2. j \in 1 .. n BY <1>1, <6>1
          <6>. QED BY <1>1, <5>1, <5>2, <6>2
        <5>3. k \in 1 .. Len(c) /\ c[k] = b[k]
          <6> HIDE DEF n
          <6>. QED BY <1>1, <5>1
        <5>. QED BY <5>1, <5>2, <5>3 DEF LastOf
      <4>4. U[a] = c[k][a] BY <1>1, <4>3, ViewAt
      <4>5. c[k] = b[k] BY <1>1, <4>1 DEF LastOf
      <4>. QED BY <2>2, <4>2, <4>4, <4>5
    <3>. QED BY <3>1, <3>2
  <2>. QED BY <2>1, <2>2
<1>5. Over(p, V) = [a \in D |-> IF a \in DOMAIN p THEN p[a] ELSE V[a]]
  <2>1. DOMAIN p \cup DOMAIN V = D BY <1>2, <1>3
  <2> HIDE DEF V
  <2>. QED BY <2>1 DEF Over
<1> HIDE DEF U, V
<1>6. U = Over(p, V) BY <1>3, <1>4, <1>5
<1>. QED BY <1>1, <1>6 DEF U, V, c

\* The oldest store reaches the memory, and nothing is seen of it.
LEMMA ViewDrained ==
  ASSUME NEW D, NEW b \in Seq(Patch(D)), b # <<>>, NEW m \in [D -> 0 .. Byte - 1]
  PROVE  /\ Tail(b) \in Seq(Patch(D)) /\ Over(Head(b), m) \in [D -> 0 .. Byte - 1]
         /\ ViewOf(Tail(b), Over(Head(b), m)) = ViewOf(b, m)
<1> DEFINE c == Tail(b)
           h == Head(b)
           n == Len(b)
           w == Over(h, m)
           V == ViewOf(b, m)
           U == ViewOf(c, w)
<1>1. /\ c \in Seq(Patch(D)) /\ n \in Nat \ {0} /\ Len(c) = n - 1 /\ h \in Patch(D) /\ h = b[1]
      /\ \A k \in 1 .. n - 1 : c[k] = b[k + 1]
  OBVIOUS
<1>2. DOMAIN h \subseteq D /\ \A a \in DOMAIN h : h[a] \in 0 .. Byte - 1
  BY <1>1, PatchIs
<1> HIDE DEF c, h, n
<1>3. w = [a \in D |-> IF a \in DOMAIN h THEN h[a] ELSE m[a]] /\ w \in [D -> 0 .. Byte - 1]
  <2>1. DOMAIN h \cup DOMAIN m = D BY <1>2
  <2>2. w = [a \in D |-> IF a \in DOMAIN h THEN h[a] ELSE m[a]] BY <2>1 DEF Over
  <2> HIDE DEF w
  <2>. QED BY <1>2, <2>2
<1> HIDE DEF w
<1>4. V \in [D -> 0 .. Byte - 1] /\ U \in [D -> 0 .. Byte - 1]
  BY <1>1, <1>3, ViewIsFunction
<1>5. ASSUME NEW a \in D
      PROVE  U[a] = V[a]
  <2>1. CASE ~Untouched(c, a)
    <3>1. PICK k : LastOf(c, a, k) BY <1>1, <2>1, ViewAt
    <3>2. U[a] = c[k][a]
      <4>1. c \in Seq(Patch(D)) /\ w \in [D -> 0 .. Byte - 1] BY <1>1, <1>3
      <4>2. \A j : LastOf(c, a, j) => ViewOf(c, w)[a] = c[j][a] BY <4>1, ViewAt
      <4>. QED BY <3>1, <4>2
    <3>3. k \in 1 .. n - 1 /\ c[k] = b[k + 1] BY <1>1, <3>1 DEF LastOf
    <3>4. LastOf(b, a, k + 1)
      <4>1. ASSUME NEW j \in 1 .. n, a \in DOMAIN b[j]
            PROVE  j <= k + 1
        <5>1. CASE j = 1 BY <3>3, <5>1
        <5>2. CASE j # 1
          <6>1. j - 1 \in 1 .. n - 1 /\ (j - 1) + 1 = j BY <1>1, <5>2
          <6>2. a \in DOMAIN c[j - 1] BY <1>1, <4>1, <6>1
          <6>3. j - 1 <= k BY <1>1, <3>1, <6>1, <6>2 DEF LastOf
          <6>. QED BY <3>3, <6>1, <6>3
        <5>. QED BY <5>1, <5>2
      <4>2. k + 1 \in 1 .. n /\ a \in DOMAIN b[k + 1]
        BY <1>1, <3>1, <3>3 DEF LastOf
      <4>. QED BY <4>1, <4>2 DEF LastOf, n
    <3>5. V[a] = b[k + 1][a] BY <3>4, ViewAt
    <3>. QED BY <3>2, <3>3, <3>5
  <2>2. CASE Untouched(c, a)
    <3>1. U[a] = w[a] BY <1>1, <1>3, <2>2, ViewAt
    <3>2. \A j \in 1 .. n : j # 1 => a \notin DOMAIN b[j]
      <4> SUFFICES ASSUME NEW j \in 1 .. n, j # 1
                   PROVE  a \notin DOMAIN b[j]
        OBVIOUS
      <4>1. j - 1 \in 1 .. n - 1 /\ (j - 1) + 1 = j BY <1>1
      <4>2. c[j - 1] = b[j] BY <1>1, <4>1
      <4>. QED BY <1>1, <2>2, <4>1, <4>2 DEF Untouched
    <3>3. CASE a \in DOMAIN h
      <4>1. LastOf(b, a, 1)
        <5>1. \A j \in 1 .. n : a \in DOMAIN b[j] => j <= 1 BY <3>2
        <5>. QED BY <1>1, <3>3, <5>1 DEF LastOf, n
      <4>2. V[a] = b[1][a] BY <4>1, ViewAt
      <4>. QED BY <1>1, <1>3, <3>1, <3>3, <4>2
    <3>4. CASE a \notin DOMAIN h
      <4>1. Untouched(b, a)
        <5>1. \A j \in 1 .. n : a \notin DOMAIN b[j] BY <1>1, <3>2, <3>4
        <5>. QED BY <5>1 DEF Untouched, n
      <4>2. V[a] = m[a] BY <4>1, ViewAt
      <4>. QED BY <1>3, <3>1, <3>4, <4>2
    <3>. QED BY <3>3, <3>4
  <2>. QED BY <2>1, <2>2
<1> HIDE DEF U, V
<1>6. U = V BY <1>4, <1>5
<1>. QED BY <1>1, <1>3, <1>6 DEF U, V, c, h, w

-----------------------------------------------------------------------------
(* The memory of a thread that runs alone: what is read and written of it.  *)

\* Memory is bytes at addresses, and only t has stores under way.
Remembered(t) ==
  /\ mem \in [DOMAIN mem -> 0 .. Byte - 1] /\ DOMAIN mem \subseteq 0 .. Word - 1
  /\ buffer \in [Threads -> Seq(Patch(DOMAIN mem))]
  /\ \A u \in Threads \ {t} : buffer[u] = <<>>

\* Seen, of any buffers and memory.
SeenIn(b, m) ==
  IF \A u \in Threads : b[u] = <<>> THEN m ELSE ViewOf(b[CHOOSE u \in Threads : b[u] # <<>>], m)

LEMMA SeenAlone ==
  ASSUME NEW D, NEW t \in Threads, NEW b \in [Threads -> Seq(Patch(D))], NEW m \in [D -> 0 .. Byte - 1],
         \A u \in Threads \ {t} : b[u] = <<>>
  PROVE  SeenIn(b, m) = ViewOf(b[t], m)
<1>1. b[t] \in Seq(Patch(D)) OBVIOUS
<1>2. CASE b[t] = <<>>
  <2>1. \A u \in Threads : b[u] = <<>> BY <1>2
  <2>2. ViewOf(b[t], m) = m BY <1>1, <1>2, ViewIsFunction
  <2>. QED BY <2>1, <2>2 DEF SeenIn
<1>3. CASE b[t] # <<>>
  <2>1. (CHOOSE u \in Threads : b[u] # <<>>) = t BY <1>3
  <2>. QED BY <1>3, <2>1 DEF SeenIn
<1>. QED BY <1>2, <1>3

\* A thread that runs alone sees what Seen is.
LEMMA SeenIs ==
  ASSUME NEW t \in Threads, Remembered(t)
  PROVE  /\ Seen = ViewOf(buffer[t], mem) /\ View(t) = Seen
         /\ Seen \in [DOMAIN mem -> 0 .. Byte - 1] /\ buffer[t] \in Seq(Patch(DOMAIN mem))
<1>1. Seen = SeenIn(buffer, mem) BY DEF Seen, View, SeenIn, ViewOf
<1> DEFINE D == DOMAIN mem
<1>2. /\ mem \in [D -> 0 .. Byte - 1] /\ buffer \in [Threads -> Seq(Patch(D))]
      /\ \A u \in Threads \ {t} : buffer[u] = <<>>
  BY DEF Remembered
<1>3. View(t) = ViewOf(buffer[t], mem) BY DEF View, ViewOf
<1>4. buffer[t] \in Seq(Patch(D)) BY <1>2
<1> HIDE DEF D
<1>5. SeenIn(buffer, mem) = ViewOf(buffer[t], mem) BY <1>2, SeenAlone
<1>6. ViewOf(buffer[t], mem) \in [D -> 0 .. Byte - 1]
  BY <1>2, <1>4, ViewIsFunction
<1>. QED BY <1>1, <1>3, <1>4, <1>5, <1>6 DEF D

\* And still does after its step.
LEMMA SeenNext ==
  ASSUME NEW t \in Threads, NEW D, buffer' \in [Threads -> Seq(Patch(D))], mem' \in [D -> 0 .. Byte - 1],
         \A u \in Threads \ {t} : buffer'[u] = <<>>
  PROVE  Seen' = ViewOf(buffer'[t], mem')
<1>1. Seen' = SeenIn(buffer', mem') BY DEF Seen, View, SeenIn, ViewOf
<1>. QED BY <1>1, SeenAlone

\* The bytes of an access by its name.
LEMMA Sizes ==
  /\ \A n \in {1, 2, 4, 8} : n \in Nat /\ Place(n) \in Nat \ {0} /\ Place(n) <= DWord
  /\ \A n \in {1, 2, 4, 8} : \A x \in 0 .. Place(n) - 1 : x \in Register /\ x \in Int
  /\ Register \subseteq Int
<1>1. ASSUME NEW n \in {1, 2, 4, 8}
      PROVE  n \in Nat /\ Place(n) \in Nat \ {0} /\ Place(n) <= DWord
  <2> DEFINE Q == W \div 4
  <2>1. Q \in Nat \ {0} /\ W = 4 * Q BY Places
  <2> HIDE DEF Q
  <2>2. n * Q \in Nat /\ 2 * W \in Nat /\ n * Q <= 2 * W BY <2>1
  <2>3. 2 ^ (n * Q) <= 2 ^ (2 * W) BY <2>2, PowerMonotone
  <2>4. n \in Nat /\ Place(n) \in Nat \ {0} BY Places
  <2>. QED BY <2>3, <2>4 DEF Place, DWord, Q
<1>2. DWord \in Nat BY Width
<1>. QED BY <1>1, <1>2 DEF Register

\* Reading n bytes from a on.
LEMMA ReadAgrees ==
  ASSUME NEW D, NEW m \in [D -> 0 .. Byte - 1], NEW n \in Nat, NEW a \in Nat, a .. a + n - 1 \subseteq D
  PROVE  /\ bswap(n, Raw(m, a, n)) = FromBytes(n, [k \in 0 .. n - 1 |-> m[a + n - 1 - k]])
         /\ bswap(n, bswap(n, Raw(m, a, n))) = FromBytes(n, [k \in 0 .. n - 1 |-> m[a + k]])
         /\ bswap(n, Raw(m, a, n)) \in 0 .. Place(n) - 1
         /\ bswap(n, bswap(n, Raw(m, a, n))) \in 0 .. Place(n) - 1
<1> DEFINE b == [k \in 0 .. n - 1 |-> m[a + k]]
           x == Raw(m, a, n)
<1>1. b \in [0 .. n - 1 -> 0 .. Byte - 1]
  <2>1. \A k \in 0 .. n - 1 : a + k \in D OBVIOUS
  <2>. QED BY <2>1
<1>2. x = FromBytes(n, b) BY DEF Raw
<1>3. \A k \in 0 .. n - 1 : b[k] = m[a + k] OBVIOUS
<1> HIDE DEF b, x
<1>4. x \in 0 .. Place(n) - 1 /\ \A k \in 0 .. n - 1 : ByteOf(x, k) = b[k]
  BY <1>1, <1>2, BytesOfNumber
<1>5. Place(n) \in Nat \ {0} BY Places
<1>6. x \in Int /\ x % Place(n) = x BY <1>4, <1>5
<1>7. bswap(n, x) \in 0 .. Place(n) - 1 /\ bswap(n, bswap(n, x)) = x
  BY <1>6, Swapped
<1>8. [k \in 0 .. n - 1 |-> ByteOf(x, n - 1 - k)] = [k \in 0 .. n - 1 |-> m[a + n - 1 - k]]
  <2>1. ASSUME NEW k \in 0 .. n - 1
        PROVE  ByteOf(x, n - 1 - k) = m[a + n - 1 - k]
    <3>1. n - 1 - k \in 0 .. n - 1 /\ a + (n - 1 - k) = a + n - 1 - k OBVIOUS
    <3>. QED BY <1>3, <1>4, <3>1
  <2>. QED BY <2>1
<1>9. bswap(n, x) = FromBytes(n, [k \in 0 .. n - 1 |-> m[a + n - 1 - k]])
  BY <1>8 DEF bswap
<1>. QED BY <1>2, <1>4, <1>7, <1>9 DEF b, x

\* Writing n bytes from a on.
LEMMA WriteAgrees ==
  ASSUME NEW n \in Nat, NEW a \in Nat, NEW x \in Int
  PROVE  /\ RawBytes(a, n, bswap(n, x)) = Guest!Written(a, n, x)
         /\ RawBytes(a, n, bswap(n, bswap(n, x))) = Guest!WrittenReversed(a, n, x)
         /\ \A y \in Int : RawBytes(a, n, y) \in [a .. a + n - 1 -> 0 .. Byte - 1]
         /\ bswap(n, x) \in Int /\ bswap(n, bswap(n, x)) \in Int
<1> DEFINE y == bswap(n, x)
           z == bswap(n, y)
<1>1. Place(n) \in Nat \ {0} BY Places
<1>2. y \in 0 .. Place(n) - 1 /\ \A k \in 0 .. n - 1 : ByteOf(y, n - 1 - k) = ByteOf(x, k)
  BY Swapped
<1>3. y \in Int
  <2> HIDE DEF y
  <2>. QED BY <1>1, <1>2
<1>4. z \in 0 .. Place(n) - 1 /\ \A k \in 0 .. n - 1 : ByteOf(z, n - 1 - k) = ByteOf(y, k)
  <2> HIDE DEF y
  <2>. QED BY <1>3, Swapped
<1> HIDE DEF y, z
<1>5. \A k \in 0 .. n - 1 : n - 1 - k \in 0 .. n - 1 /\ n - 1 - (n - 1 - k) = k
  OBVIOUS
<1>6. \A k \in 0 .. n - 1 : ByteOf(y, k) = ByteOf(x, n - 1 - k) BY <1>2, <1>5
<1>7. \A k \in 0 .. n - 1 : ByteOf(z, k) = ByteOf(x, k)
  <2> SUFFICES ASSUME NEW k \in 0 .. n - 1
               PROVE  ByteOf(z, k) = ByteOf(x, k)
    OBVIOUS
  <2>1. n - 1 - k \in 0 .. n - 1 /\ n - 1 - (n - 1 - k) = k BY <1>5
  <2>2. ByteOf(z, n - 1 - (n - 1 - k)) = ByteOf(y, n - 1 - k) BY <1>4, <2>1
  <2>3. ByteOf(y, n - 1 - k) = ByteOf(x, k) BY <1>2
  <2>. QED BY <2>1, <2>2, <2>3
<1>8. \A c \in a .. a + n - 1 : c - a \in 0 .. n - 1 /\ n - 1 - (c - a) = a + n - 1 - c
  OBVIOUS
<1>9. RawBytes(a, n, y) = Guest!Written(a, n, x)
  <2>1. ASSUME NEW c \in a .. a + n - 1
        PROVE  ByteOf(y, c - a) = Guest!ByteOf(x, a + n - 1 - c)
    BY <1>6, <1>8, GuestWords
  <2>. QED BY <2>1 DEF RawBytes, Guest!Written
<1>10. RawBytes(a, n, z) = Guest!WrittenReversed(a, n, x)
  <2>1. ASSUME NEW c \in a .. a + n - 1
        PROVE  ByteOf(z, c - a) = Guest!ByteOf(x, c - a)
    BY <1>7, <1>8, GuestWords
  <2>. QED BY <2>1 DEF RawBytes, Guest!WrittenReversed
<1>11. ASSUME NEW v \in Int
       PROVE  RawBytes(a, n, v) \in [a .. a + n - 1 -> 0 .. Byte - 1]
  <2>1. \A c \in a .. a + n - 1 : c - a \in Nat OBVIOUS
  <2>2. \A c \in a .. a + n - 1 : ByteOf(v, c - a) \in 0 .. Byte - 1
    BY <2>1, ByteType
  <2>. QED BY <2>2 DEF RawBytes
<1>12. z \in Int BY <1>1, <1>4
<1>. QED BY <1>3, <1>9, <1>10, <1>11, <1>12 DEF y, z

-----------------------------------------------------------------------------
(* Loads and stores of a thread that runs alone.                            *)

\* Register d becomes x and then the low word of register a the address.
WithBase(t, d, x, a, ea) == [[r EXCEPT ![t][d] = x] EXCEPT ![t][a] = @ - u32(@) + ea]
BaseHolds(t, d, x, a, ea) ==
  LET p == WithBase(t, d, x, a, ea)
  IN  /\ p \in [Threads -> UNION {[N -> Register] : N \in SUBSET Int}]
      /\ u32(p[t][a]) = ea /\ p = [[r EXCEPT ![t][d] = x] EXCEPT ![t][a] = p[t][a]]

\* An update form changes the low word of its base register only.
LEMMA SetBase ==
  ASSUME Registered, NEW t \in Threads, NEW d \in DOMAIN r[t], NEW x \in Register,
         NEW a \in DOMAIN r[t], NEW ea \in 0 .. Word - 1
  PROVE  BaseHolds(t, d, x, a, ea)
<1> DEFINE q == [r EXCEPT ![t][d] = x]
           old == q[t][a]
           v == old - u32(old) + ea
           p == [q EXCEPT ![t][a] = v]
           All == UNION {[N -> Register] : N \in SUBSET Int}
<1>1. /\ q[t][d] = x /\ q \in [Threads -> All]
      /\ \A k \in DOMAIN r[t] : k # d => q[t][k] = r[t][k]
  BY SetRegister
<1>2. old \in Register BY <1>1, RegistersAre
<1>3. q[t] \in All
  <2> HIDE DEF All, q
  <2>. QED BY <1>1
<1>4. DOMAIN q[t] = DOMAIN r[t] BY DEF Registered
<1> HIDE DEF q
<1>5. PICK D \in SUBSET Int : q[t] \in [D -> Register] BY <1>3
<1>6. a \in D BY <1>4, <1>5
<1>7. v \in Register /\ u32(v) = ea
  <2> HIDE DEF old
  <2>. QED BY <1>2, LowReplaced
<1> HIDE DEF v
<1>8. p[t] = [q[t] EXCEPT ![a] = v] /\ p \in [Threads -> All]
  <2>1. [q[t] EXCEPT ![a] = v] \in [D -> Register] BY <1>5, <1>7
  <2>2. [q[t] EXCEPT ![a] = v] \in All BY <1>5, <2>1
  <2> HIDE DEF All
  <2>. QED BY <1>1, <2>2
<1>9. p[t][a] = v BY <1>5, <1>6, <1>8
<1>10. WithBase(t, d, x, a, ea) = p BY DEF WithBase, v, q
<1> HIDE DEF p
<1>11. /\ p \in [Threads -> UNION {[N -> Register] : N \in SUBSET Int}]
       /\ u32(p[t][a]) = ea /\ p = [q EXCEPT ![t][a] = p[t][a]]
  BY <1>7, <1>8, <1>9 DEF p
<1>. QED BY <1>10, <1>11 DEF BaseHolds, q

\* Memory and registers that a load or a store may use.
Accessible(t, i, access) ==
  /\ AccessField(t, i, access) /\ i.d \in DOMAIN r[t]
  /\ LET ea == Address(access, i, r[t])
     IN  ea .. ea + access.n - 1 \subseteq DOMAIN mem

\* Loads: bytes swapped, sign extended, base updated.
LEMMA LoadAgrees ==
  ASSUME NEW t \in Threads, Registered, Remembered(t), Load(t), held' = held,
         Accessible(t, Current(t), Loads[Current(t).m])
  PROVE  Guest!Load(t) /\ Registered' /\ Remembered(t)'
<1> DEFINE i == Current(t)
           access == Loads[i.m]
           n == access.n
           ea == Address(access, i, r[t])
           read == bswap(n, Raw(View(t), ea, n))
           x == IF access.reversed THEN bswap(n, read) ELSE read
           value == IF access.signed THEN u64(Signed(n * (W \div 4), x)) ELSE x
           loaded == [r EXCEPT ![t][i.d] = value]
<1>1. /\ i.m \in DOMAIN Loads
      /\ r' = IF access.update THEN [loaded EXCEPT ![t][i.a] = @ - u32(@) + ea] ELSE loaded
      /\ UNCHANGED <<xer, cr, trapped, buffer, mem>> /\ pc' = [pc EXCEPT ![t] = @ + 1] /\ prog' = prog
  BY DEF Load, Advance, memory
<1>2. Fits(i.m, access) BY <1>1, LoadsFit
<1>3. i.m \in Guest!Loads BY <1>1, LoadTable DEF LoadNames, Guest!Loads
<1>4. ea = Guest!EA(t, i) /\ ea \in 0 .. Word - 1
  <2>1. AccessField(t, i, access) BY DEF Accessible
  <2> HIDE DEF i, access
  <2>. QED BY <1>2, <2>1, AddressAgrees
<1>5. n \in {1, 2, 4, 8} /\ n = Guest!Size(i.m) BY <1>2 DEF Fits
<1>6. i.d \in DOMAIN r[t] /\ ea .. ea + n - 1 \subseteq DOMAIN mem
  BY DEF Accessible
<1>7. View(t) = Seen /\ Seen \in [DOMAIN mem -> 0 .. Byte - 1] BY SeenIs
<1>8. n \in Nat /\ ea \in Nat
  <2> HIDE DEF ea, n
  <2>. QED BY <1>4, <1>5, Sizes
<1>9. /\ bswap(n, Raw(Seen, ea, n)) = Guest!BigEndian(ea, n)
      /\ bswap(n, bswap(n, Raw(Seen, ea, n))) = Guest!LittleEndian(ea, n)
      /\ bswap(n, Raw(Seen, ea, n)) \in 0 .. Place(n) - 1
      /\ bswap(n, bswap(n, Raw(Seen, ea, n))) \in 0 .. Place(n) - 1
  <2> HIDE DEF ea, n
  <2>1. /\ Guest!BigEndian(ea, n) = FromBytes(n, [k \in 0 .. n - 1 |-> Seen[ea + n - 1 - k]])
        /\ Guest!LittleEndian(ea, n) = FromBytes(n, [k \in 0 .. n - 1 |-> Seen[ea + k]])
    BY GuestWords DEF Guest!BigEndian, Guest!LittleEndian
  <2> DEFINE D == DOMAIN mem
             S == Seen
  <2>2. S \in [D -> 0 .. Byte - 1] /\ ea .. ea + n - 1 \subseteq D BY <1>6, <1>7
  <2> HIDE DEF D, S
  <2>3. /\ bswap(n, Raw(S, ea, n)) = FromBytes(n, [k \in 0 .. n - 1 |-> S[ea + n - 1 - k]])
        /\ bswap(n, bswap(n, Raw(S, ea, n))) = FromBytes(n, [k \in 0 .. n - 1 |-> S[ea + k]])
        /\ bswap(n, Raw(S, ea, n)) \in 0 .. Place(n) - 1
        /\ bswap(n, bswap(n, Raw(S, ea, n))) \in 0 .. Place(n) - 1
    BY <1>8, <2>2, ReadAgrees
  <2>. QED BY <2>1, <2>3 DEF S
<1>10. x \in Register /\ x \in Int /\ x = IF access.reversed THEN Guest!LittleEndian(ea, n) ELSE Guest!BigEndian(ea, n)
  <2>1. x \in 0 .. Place(n) - 1 BY <1>7, <1>9
  <2>2. x = IF access.reversed THEN Guest!LittleEndian(ea, n) ELSE Guest!BigEndian(ea, n)
    BY <1>7, <1>9
  <2> HIDE DEF x, n, ea
  <2>. QED BY <1>5, <2>1, <2>2, Sizes
<1>11. value \in Register /\ value = Guest!Loaded(i, ea)
  <2>1. u64(Signed(n * (W \div 4), x)) \in Register
    <3>1. n * (W \div 4) \in Nat \ {0}
      <4>1. W \div 4 \in Nat \ {0} BY Places
      <4> HIDE DEF n
      <4>. QED BY <1>5, <4>1
    <3> HIDE DEF n, x
    <3>2. Signed(n * (W \div 4), x) \in Int BY <1>10, <3>1, SameSigned
    <3> DEFINE y == Signed(n * (W \div 4), x)
    <3> HIDE DEF y
    <3>3. y % DWord \in 0 .. DWord - 1 BY <3>2, Width, Remainder DEF y
    <3>. QED BY <3>3 DEF y, u64, Low, DWord, Register
  <2>2. /\ access.signed <=> i.m \in Guest!Algebraic
        /\ access.reversed <=> i.m \in {"lwbrx", "stwbrx", "sthbrx"}
    BY <1>2 DEF Fits
  <2>3. i.m \notin {"stwbrx", "sthbrx"} /\ (i.m = "lwbrx" => i.m \notin Guest!Algebraic /\ n = 4)
    <3>1. i.m \notin {"stwbrx", "sthbrx"} /\ (i.m = "lwbrx" => i.m \notin Guest!Algebraic)
      BY <1>3 DEF Guest!Loads, Guest!Algebraic
    <3>2. i.m = "lwbrx" => Guest!Size(i.m) = 4 BY DEF Guest!Size
    <3>. QED BY <1>5, <3>1, <3>2
  <2>4. Guest!Loaded(i, ea) = IF i.m = "lwbrx" THEN Guest!LittleEndian(ea, 4)
                              ELSE IF i.m \in Guest!Algebraic
                              THEN u64(Signed(n * (W \div 4), Guest!BigEndian(ea, n)))
                              ELSE Guest!BigEndian(ea, n)
    <3> HIDE DEF i, ea, access
    <3>. QED BY <1>5, GuestWords DEF Guest!Loaded, u64
  <2> HIDE DEF x, n, ea, i, access
  <2>. QED BY <1>10, <2>1, <2>2, <2>3, <2>4
<1> HIDE DEF x, value
<1>12. /\ r' \in [Threads -> UNION {[N -> Register] : N \in SUBSET Int}]
       /\ IF i.m \in Guest!WithUpdate
          THEN Low(W, r'[t][i.a]) = ea /\ r' = [loaded EXCEPT ![t][i.a] = r'[t][i.a]]
          ELSE r' = loaded
  <2>1. access.update <=> i.m \in Guest!WithUpdate BY <1>2 DEF Fits
  <2>2. CASE access.update
    <3>1. i.a \in DOMAIN r[t] BY <2>2 DEF Accessible, AccessField
    <3>2. r' = [loaded EXCEPT ![t][i.a] = @ - u32(@) + ea] BY <1>1, <2>2
    <3> HIDE DEF i, ea, access
    <3>3. BaseHolds(t, i.d, value, i.a, ea) BY <1>4, <1>6, <1>11, <3>1, SetBase
    <3>4. r' = WithBase(t, i.d, value, i.a, ea) BY <3>2 DEF WithBase
    <3>. QED BY <2>1, <2>2, <3>3, <3>4 DEF u32, BaseHolds
  <2>3. CASE ~access.update
    <3> HIDE DEF i, access, ea
    <3>1. r' = loaded BY <1>1, <2>3
    <3>2. loaded \in [Threads -> UNION {[N -> Register] : N \in SUBSET Int}]
      BY <1>6, <1>11, SetRegister
    <3>. QED BY <2>1, <2>3, <3>1, <3>2
  <2>. QED BY <2>2, <2>3
<1>13. Registered' /\ Remembered(t)'
  <2>1. Registered' BY <1>1, <1>12 DEF Registered
  <2>. QED BY <1>1, <2>1 DEF Remembered
<1>14. Seen' = Seen BY <1>1, SeenKept
<1>15. GuestCA' = GuestCA /\ GuestSO' = GuestSO /\ GuestCR(cr') = GuestCR(cr)
  BY <1>1 DEF GuestCA, GuestSO
<1>16. Guest!Load(t)
  <2>1. Guest!Current(t) = i BY DEF Guest!Current, Current
  <2>2. Guest!Advance(t) BY <1>1 DEF Guest!Advance
  <2> HIDE DEF i, access, ea
  <2>3. SUFFICES /\ i.m \in Guest!Loads
                 /\ Guest!Updates(t, i, ea, [r EXCEPT ![t][i.d] = Guest!Loaded(i, ea)])
                 /\ GuestCA' = GuestCA /\ GuestSO' = GuestSO /\ GuestCR(cr') = GuestCR(cr)
                 /\ held' = held /\ trapped' = trapped /\ Seen' = Seen
                 /\ Guest!Advance(t)
    BY <1>4, <2>1 DEF Guest!Load, GuestCA, GuestSO, GuestCR
  <2>4. Guest!Updates(t, i, ea, [r EXCEPT ![t][i.d] = Guest!Loaded(i, ea)])
    BY <1>11, <1>12, GuestWords DEF Guest!Updates
  <2>. QED BY <1>1, <1>3, <1>14, <1>15, <2>2, <2>4
<1>. QED BY <1>13, <1>16

\* Only t has a reservation.
Unreserved(t) == held = [u \in Threads |-> held[u]] /\ \A u \in Threads \ {t} : held[u] = {}

\* Other threads have no reservation to lose.
LEMMA NothingToLose ==
  ASSUME NEW t \in Threads, Unreserved(t), held' = held
  PROVE  \A A : Guest!Lose(t, A)
<1> SUFFICES ASSUME NEW A
             PROVE  held' = [u \in DOMAIN held |-> IF u # t /\ held[u] \cap A # {} THEN {} ELSE held[u]]
  BY DEF Guest!Lose
<1>1. held = [u \in Threads |-> held[u]] /\ \A u \in Threads \ {t} : held[u] = {}
  BY DEF Unreserved
<1>2. DOMAIN held = Threads BY <1>1
<1>3. \A u \in Threads : (IF u # t /\ held[u] \cap A # {} THEN {} ELSE held[u]) = held[u]
  BY <1>1
<1>. QED BY <1>1, <1>2, <1>3

\* A store that enters the buffer is seen at once.
LEMMA AppendSeen ==
  ASSUME NEW t \in Threads, Remembered(t), NEW p, p \in Patch(DOMAIN mem),
         buffer' = [buffer EXCEPT ![t] = Append(@, p)], mem' = mem
  PROVE  Seen' = Over(p, Seen) /\ Remembered(t)'
<1> DEFINE D == DOMAIN mem
           B == buffer[t]
           M == mem
<1>1. /\ M \in [D -> 0 .. Byte - 1] /\ buffer \in [Threads -> Seq(Patch(D))]
      /\ \A u \in Threads \ {t} : buffer[u] = <<>>
      /\ D \subseteq 0 .. Word - 1
  BY DEF Remembered
<1>2. B \in Seq(Patch(D)) /\ p \in Patch(D) BY <1>1
<1>3. buffer'[t] = Append(B, p) /\ \A u \in Threads \ {t} : buffer'[u] = <<>>
  BY <1>1
<1>4. D' = D OBVIOUS
<1> HIDE DEF D
<1>5. Append(B, p) \in Seq(Patch(D)) /\ ViewOf(Append(B, p), M) = Over(p, ViewOf(B, M))
  <2> HIDE DEF B, M
  <2>. QED BY <1>1, <1>2, ViewAppended, ZenonT(30)
<1>6. buffer' \in [Threads -> Seq(Patch(D))] BY <1>1, <1>5
<1>7. mem' \in [D -> 0 .. Byte - 1] BY <1>1
<1>8. Seen' = ViewOf(buffer'[t], mem') BY <1>3, <1>6, <1>7, SeenNext
<1>9. Seen = ViewOf(B, M) BY SeenIs
<1>10. Remembered(t)' BY <1>1, <1>3, <1>4, <1>6, <1>7 DEF Remembered, D
<1>. QED BY <1>3, <1>5, <1>8, <1>9, <1>10

LEMMA SameRegister ==
  ASSUME Registered, NEW t \in Threads, NEW d \in DOMAIN r[t]
  PROVE  [r EXCEPT ![t][d] = r[t][d]] = r
<1>1. [r[t] EXCEPT ![d] = r[t][d]] = r[t] BY RegistersAre
<1>. QED BY <1>1 DEF Registered

\* Stores, with and without an update of the base.
LEMMA StoreAgrees ==
  ASSUME NEW t \in Threads, Registered, Remembered(t), Unreserved(t), Store(t), held' = held,
         Accessible(t, Current(t), Stores[Current(t).m])
  PROVE  Guest!Store(t) /\ Registered' /\ Remembered(t)'
<1> DEFINE i == Current(t)
           access == Stores[i.m]
           n == access.n
           ea == Address(access, i, r[t])
           x == r[t][i.d]
           written == IF access.reversed THEN bswap(n, x) ELSE x
           p == RawBytes(ea, n, bswap(n, written))
<1>1. /\ i.m \in DOMAIN Stores
      /\ buffer' = [buffer EXCEPT ![t] = Append(@, p)]
      /\ r' = IF access.update THEN [r EXCEPT ![t][i.a] = @ - u32(@) + ea] ELSE r
      /\ UNCHANGED <<xer, cr, trapped, mem>> /\ pc' = [pc EXCEPT ![t] = @ + 1] /\ prog' = prog
  BY DEF Store, Advance
<1>2. Fits(i.m, access) BY <1>1, StoresFit
<1>3. i.m \in Guest!Stores BY <1>1, StoreTable DEF StoreNames, Guest!Stores
<1>4. ea = Guest!EA(t, i) /\ ea \in 0 .. Word - 1
  <2>1. AccessField(t, i, access) BY DEF Accessible
  <2> HIDE DEF i, access
  <2>. QED BY <1>2, <2>1, AddressAgrees
<1>5. n \in {1, 2, 4, 8} /\ n = Guest!Size(i.m) BY <1>2 DEF Fits
<1>6. i.d \in DOMAIN r[t] /\ ea .. ea + n - 1 \subseteq DOMAIN mem
  BY DEF Accessible
<1>7. x \in Register /\ x \in Int
  <2>1. x \in Register BY <1>6, RegistersAre
  <2> HIDE DEF x
  <2>. QED BY <2>1, Sizes
<1>8. n \in Nat /\ ea \in Nat
  <2> HIDE DEF ea, n
  <2>. QED BY <1>4, <1>5, Sizes
<1> DEFINE w == IF i.m \in {"stwbrx", "sthbrx"} THEN Guest!WrittenReversed(ea, n, x)
                ELSE Guest!Written(ea, n, x)
<1>9. p = w /\ p \in [ea .. ea + n - 1 -> 0 .. Byte - 1]
  <2> DEFINE v == bswap(n, written)
  <2>1. access.reversed <=> i.m \in {"lwbrx", "stwbrx", "sthbrx"}
    BY <1>2 DEF Fits
  <2>2. i.m # "lwbrx" BY <1>3 DEF Guest!Stores
  <2> HIDE DEF x, n, ea, i, access
  <2>3. /\ RawBytes(ea, n, bswap(n, x)) = Guest!Written(ea, n, x)
        /\ RawBytes(ea, n, bswap(n, bswap(n, x))) = Guest!WrittenReversed(ea, n, x)
        /\ bswap(n, x) \in Int /\ bswap(n, bswap(n, x)) \in Int
    BY <1>7, <1>8, WriteAgrees
  <2>4. v \in Int BY <2>3
  <2>5. p = w BY <2>1, <2>2, <2>3
  <2> HIDE DEF v
  <2>6. RawBytes(ea, n, v) \in [ea .. ea + n - 1 -> 0 .. Byte - 1]
    BY <1>7, <1>8, <2>4, WriteAgrees
  <2>. QED BY <2>5, <2>6 DEF v
<1> HIDE DEF p, w
<1>10. p \in Patch(DOMAIN mem)
  <2> HIDE DEF ea, n
  <2>. QED BY <1>6, <1>9 DEF Patch
<1>11. Seen' = Over(p, Seen) /\ Remembered(t)' BY <1>1, <1>10, AppendSeen
<1>12. /\ r' \in [Threads -> UNION {[N -> Register] : N \in SUBSET Int}]
       /\ IF i.m \in Guest!WithUpdate
          THEN Low(W, r'[t][i.a]) = ea /\ r' = [r EXCEPT ![t][i.a] = r'[t][i.a]]
          ELSE r' = r
  <2>1. access.update <=> i.m \in Guest!WithUpdate BY <1>2 DEF Fits
  <2>2. CASE access.update
    <3>1. i.a \in DOMAIN r[t] BY <2>2 DEF Accessible, AccessField
    <3>2. r' = [r EXCEPT ![t][i.a] = @ - u32(@) + ea] BY <1>1, <2>2
    <3>3. [r EXCEPT ![t][i.d] = x] = r BY <1>6, SameRegister
    <3> HIDE DEF i, ea, access, x
    <3>4. BaseHolds(t, i.d, x, i.a, ea) BY <1>4, <1>6, <1>7, <3>1, SetBase
    <3>5. r' = WithBase(t, i.d, x, i.a, ea) BY <3>2, <3>3 DEF WithBase
    <3>. QED BY <2>1, <2>2, <3>3, <3>4, <3>5 DEF u32, BaseHolds
  <2>3. CASE ~access.update BY <1>1, <2>1, <2>3 DEF Registered
  <2>. QED BY <2>2, <2>3
<1>13. Registered' BY <1>1, <1>12 DEF Registered
<1>14. GuestCA' = GuestCA /\ GuestSO' = GuestSO /\ GuestCR(cr') = GuestCR(cr)
  BY <1>1 DEF GuestCA, GuestSO
<1>15. Guest!Lose(t, ea .. ea + n - 1) BY NothingToLose
<1>16. Guest!Store(t)
  <2>1. Guest!Current(t) = i BY DEF Guest!Current, Current
  <2>2. Guest!Advance(t) BY <1>1 DEF Guest!Advance
  <2>3. Seen' = Guest!Over(w, Seen) BY <1>9, <1>11, GuestWords
  <2>4. Guest!Updates(t, i, ea, r)
    <3> HIDE DEF i, access, ea
    <3>. QED BY <1>12, GuestWords DEF Guest!Updates
  <2>5. SUFFICES /\ i.m \in Guest!Stores
                 /\ Seen' = Guest!Over(w, Seen)
                 /\ Guest!Updates(t, i, ea, r)
                 /\ Guest!Lose(t, ea .. ea + n - 1)
                 /\ GuestCA' = GuestCA /\ GuestSO' = GuestSO /\ GuestCR(cr') = GuestCR(cr)
                 /\ trapped' = trapped
                 /\ Guest!Advance(t)
    <3>1. w = IF i.m \in {"stwbrx", "sthbrx"} THEN Guest!WrittenReversed(ea, n, r[t][i.d])
              ELSE Guest!Written(ea, n, r[t][i.d])
      BY DEF w
    <3> HIDE DEF i, access, ea, n
    <3>. QED
      BY <1>4, <1>5, <2>1, <3>1 DEF Guest!Store, GuestCA, GuestSO, GuestCR
  <2> HIDE DEF i, access, ea, n
  <2>. QED BY <1>1, <1>3, <1>14, <1>15, <2>2, <2>3, <2>4
<1>. QED BY <1>11, <1>13, <1>16

\* dcbz and the atomic loads: base, index and memory they use.
AtomicAccessible(t, i, addresses) ==
  /\ i.a # 0 => i.a \in DOMAIN r[t]
  /\ i.b \in DOMAIN r[t] /\ addresses \subseteq DOMAIN mem
LineAt(a) == a - (a % Line) .. a - (a % Line) + Line - 1

\* The addresses of a cache line.
LEMMA LineIs ==
  ASSUME NEW a \in Nat, NEW c \in Nat
  PROVE  c \div W = a \div W <=> c \in LineAt(a)
<1>1. W \in Nat \ {0} BY Width
<1> DEFINE q == a \div W
           e == a % W
           p == c \div W
           d == c % W
<1>2. /\ q \in Int /\ e \in 0 .. W - 1 /\ a = q * W + e
      /\ p \in Int /\ d \in 0 .. W - 1 /\ c = p * W + d
  BY <1>1, Remainder
<1>3. LineAt(a) = a - e .. a - e + W - 1 BY DEF LineAt, Line
<1> HIDE DEF q, e, p, d
<1>4. ASSUME p = q PROVE c \in LineAt(a)
  <2> DEFINE z == q * W
  <2>1. z \in Int /\ a = z + e /\ c = z + d BY <1>1, <1>2, <1>4
  <2> HIDE DEF z
  <2>. QED BY <1>1, <1>2, <1>3, <2>1
<1>5. ASSUME c \in LineAt(a) PROVE p = q
  <2> DEFINE z == q * W
             f == c - z
  <2>1. z \in Int /\ a = z + e BY <1>1, <1>2
  <2> HIDE DEF z
  <2>2. f \in 0 .. W - 1 /\ c = z + f BY <1>1, <1>2, <1>3, <1>5, <2>1
  <2>3. (q * W + f) \div W = q
    <3> HIDE DEF f
    <3>. QED BY <1>1, <1>2, <2>2, Division
  <2>4. c \div W = q BY <2>2, <2>3 DEF z
  <2>. QED BY <2>4 DEF p
<1>. QED BY <1>4, <1>5 DEF p, q

\* dcbz clears the line of its address, all of it and nothing else.
LEMMA ClearAgrees ==
  ASSUME NEW t \in Threads, Registered, Remembered(t), Unreserved(t), dcbz(t), held' = held,
         AtomicAccessible(t, Current(t), LineAt(u32(AtomicAddress(Current(t), r[t]))))
  PROVE  Guest!dcbz(t) /\ Registered' /\ Remembered(t)'
<1> DEFINE i == Current(t)
           at == u32(AtomicAddress(i, r[t]))
           L == LineAt(at)
           p == [a \in L |-> 0]
<1>1. /\ i.m = "dcbz"
      /\ buffer' = [buffer EXCEPT ![t] = Append(@, p)]
      /\ UNCHANGED <<r, xer, cr, trapped, mem>> /\ pc' = [pc EXCEPT ![t] = @ + 1] /\ prog' = prog
  BY DEF dcbz, Advance, state, LineAt
<1>2. i.a # 0 => i.a \in DOMAIN r[t] BY DEF AtomicAccessible
<1>3. i.b \in DOMAIN r[t] /\ L \subseteq DOMAIN mem BY DEF AtomicAccessible
<1>4. at = Guest!EA(t, i) /\ at \in Nat
  <2> HIDE DEF i
  <2>1. i.m \in {"lwarx", "ldarx", "dcbz"} BY <1>1
  <2>2. AtomicAddress(i, r[t]) \in Nat /\ at = Guest!EA(t, i)
    BY <1>2, <1>3, <2>1, AtomicAddressAgrees
  <2>3. Word \in Nat \ {0} BY Widths
  <2> DEFINE y == AtomicAddress(i, r[t])
  <2> HIDE DEF y
  <2>4. y % Word \in Nat BY <2>2, <2>3 DEF y
  <2>. QED BY <2>2, <2>4 DEF y, u32, Low, Word
<1> HIDE DEF at
<1>5. p \in Patch(DOMAIN mem)
  <2>1. 0 \in 0 .. Byte - 1 BY Places
  <2> HIDE DEF L
  <2>. QED BY <1>3, <2>1 DEF Patch
<1>6. Seen' = Over(p, Seen) /\ Remembered(t)'
  <2> HIDE DEF p
  <2>. QED BY <1>1, <1>5, AppendSeen
<1>7. Seen \in [DOMAIN mem -> 0 .. Byte - 1] /\ DOMAIN mem \subseteq Nat
  <2>1. DOMAIN mem \subseteq 0 .. Word - 1 BY DEF Remembered
  <2>. QED BY <2>1, SeenIs
<1> DEFINE line == {a \in DOMAIN mem : a \div W = at \div W}
           w == [a \in DOMAIN mem |-> IF a \in line THEN 0 ELSE Seen[a]]
<1>8. line = L
  <2>1. \A a \in DOMAIN mem : a \div W = at \div W <=> a \in L
    BY <1>4, <1>7, LineIs
  <2> HIDE DEF L
  <2>. QED BY <1>3, <2>1
<1>9. Over(p, Seen) = w
  <2>1. DOMAIN p \cup DOMAIN Seen = DOMAIN mem BY <1>3, <1>7
  <2> HIDE DEF L, line
  <2>. QED BY <1>8, <2>1 DEF Over
<1>10. Registered' /\ GuestCA' = GuestCA /\ GuestSO' = GuestSO /\ GuestCR(cr') = GuestCR(cr)
  BY <1>1 DEF GuestCA, GuestSO, Registered
<1>11. Guest!Lose(t, line) BY NothingToLose
<1>12. DOMAIN Seen = DOMAIN mem BY <1>7
<1>13. Guest!dcbz(t)
  <2>1. Guest!Current(t) = i BY DEF Guest!Current, Current
  <2>2. Guest!Advance(t) BY <1>1 DEF Guest!Advance
  <2>3. Seen' = w BY <1>6, <1>9
  <2> HIDE DEF i
  <2>4. SUFFICES /\ i.m = "dcbz"
                 /\ Seen' = w
                 /\ Guest!Lose(t, line)
                 /\ r' = r /\ GuestCA' = GuestCA /\ GuestSO' = GuestSO /\ GuestCR(cr') = GuestCR(cr)
                 /\ trapped' = trapped
                 /\ Guest!Advance(t)
    BY <1>4, <1>12, <2>1 DEF Guest!dcbz, GuestCA, GuestSO, GuestCR
  <2> HIDE DEF w, line
  <2>. QED BY <1>1, <1>10, <1>11, <2>2, <2>3
<1>. QED BY <1>6, <1>10, <1>13

\* lwarx and ldarx load and reserve.
LEMMA ReserveAgrees ==
  ASSUME NEW t \in Threads, Registered, Remembered(t), LoadReserve(t),
         held' = [held EXCEPT ![t] = Reserve(t)], AtomicAccessible(t, Current(t), Reserve(t)),
         Current(t).d \in DOMAIN r[t]
  PROVE  Guest!LoadReserve(t) /\ Registered' /\ Remembered(t)'
<1> DEFINE i == Current(t)
           n == AtomicWidth[i.m]
           at == AtomicAddress(i, r[t])
           raw == Raw(View(t), at, n)
           x == bswap(n, raw)
<1>1. /\ i.m \in {"lwarx", "ldarx"}
      /\ r' = [r EXCEPT ![t][i.d] = x]
      /\ UNCHANGED <<xer, cr, trapped, buffer, mem>> /\ pc' = [pc EXCEPT ![t] = @ + 1] /\ prog' = prog
  BY DEF LoadReserve, Advance, memory
<1>2. i.a # 0 => i.a \in DOMAIN r[t] BY DEF AtomicAccessible
<1>3. i.b \in DOMAIN r[t] /\ i.d \in DOMAIN r[t] /\ Reserve(t) \subseteq DOMAIN mem
  BY DEF AtomicAccessible
<1>4. Reserve(t) = at .. at + n - 1 BY DEF Reserve
<1>5. n \in {4, 8} /\ n = Guest!Size(i.m)
  <2>1. AtomicWidth["lwarx"] = 4 /\ AtomicWidth["ldarx"] = 8 BY DEF AtomicWidth
  <2>2. Guest!Size("lwarx") = 4 /\ Guest!Size("ldarx") = 8 BY DEF Guest!Size
  <2>. QED BY <1>1, <2>1, <2>2
<1>6. at = Guest!EA(t, i) /\ at \in Nat
  <2> HIDE DEF i, n
  <2>1. i.m \in {"lwarx", "ldarx", "dcbz"} BY <1>1
  <2>2. at \in Nat /\ (at \in 0 .. Word - 1 => at = Guest!EA(t, i))
    BY <1>2, <1>3, <2>1, AtomicAddressAgrees
  <2> HIDE DEF at
  <2>3. at \in at .. at + n - 1 BY <1>5, <2>2
  <2>4. DOMAIN mem \subseteq 0 .. Word - 1 BY DEF Remembered
  <2>. QED BY <1>3, <1>4, <2>2, <2>3, <2>4
<1>7. View(t) = Seen /\ Seen \in [DOMAIN mem -> 0 .. Byte - 1] BY SeenIs
<1>8. x \in Register /\ x = Guest!BigEndian(at, n)
  <2> DEFINE D == DOMAIN mem
             S == Seen
  <2>1. S \in [D -> 0 .. Byte - 1] /\ at .. at + n - 1 \subseteq D
    BY <1>3, <1>4, <1>7
  <2>2. x = bswap(n, Raw(S, at, n)) BY <1>7
  <2> HIDE DEF at, n, x
  <2>3. Guest!BigEndian(at, n) = FromBytes(n, [k \in 0 .. n - 1 |-> S[at + n - 1 - k]])
    BY GuestWords DEF Guest!BigEndian
  <2> HIDE DEF D, S
  <2>4. n \in Nat /\ at \in Nat BY <1>5, <1>6
  <2>5. /\ bswap(n, Raw(S, at, n)) = FromBytes(n, [k \in 0 .. n - 1 |-> S[at + n - 1 - k]])
        /\ bswap(n, bswap(n, Raw(S, at, n))) = FromBytes(n, [k \in 0 .. n - 1 |-> S[at + k]])
        /\ bswap(n, Raw(S, at, n)) \in 0 .. Place(n) - 1
        /\ bswap(n, bswap(n, Raw(S, at, n))) \in 0 .. Place(n) - 1
    BY <2>1, <2>4, ReadAgrees
  <2>6. x \in 0 .. Place(n) - 1 /\ x = Guest!BigEndian(at, n)
    BY <2>2, <2>3, <2>5
  <2>. QED BY <1>5, <2>6, Sizes
<1> HIDE DEF x
<1>9. r' \in [Threads -> UNION {[N -> Register] : N \in SUBSET Int}]
  <2> HIDE DEF i
  <2>. QED BY <1>1, <1>3, <1>8, SetRegister
<1>10. /\ Registered' /\ Remembered(t)' /\ GuestCA' = GuestCA /\ GuestSO' = GuestSO
       /\ GuestCR(cr') = GuestCR(cr)
  <2>1. Registered' /\ GuestCA' = GuestCA /\ GuestSO' = GuestSO /\ GuestCR(cr') = GuestCR(cr)
    BY <1>1, <1>9 DEF GuestCA, GuestSO, Registered
  <2>. QED BY <1>1, <2>1 DEF Remembered
<1>11. Seen' = Seen BY <1>1, SeenKept
<1>12. Guest!LoadReserve(t)
  <2>1. Guest!Current(t) = i BY DEF Guest!Current, Current
  <2>2. Guest!Advance(t) BY <1>1 DEF Guest!Advance
  <2>3. held' = [held EXCEPT ![t] = at .. at + n - 1] BY <1>4
  <2> HIDE DEF i, at, n
  <2>4. SUFFICES /\ i.m \in {"lwarx", "ldarx"}
                 /\ r' = [r EXCEPT ![t][i.d] = Guest!BigEndian(at, n)]
                 /\ held' = [held EXCEPT ![t] = at .. at + n - 1]
                 /\ GuestCA' = GuestCA /\ GuestSO' = GuestSO /\ GuestCR(cr') = GuestCR(cr)
                 /\ trapped' = trapped /\ Seen' = Seen
                 /\ Guest!Advance(t)
    BY <1>5, <1>6, <2>1 DEF Guest!LoadReserve, GuestCA, GuestSO, GuestCR
  <2>. QED BY <1>1, <1>8, <1>10, <1>11, <2>2, <2>3
<1>. QED BY <1>10, <1>12

\* A store that leaves the buffer is not seen by the thread that made it.
LEMMA DrainUnseen ==
  ASSUME NEW t \in Threads, Remembered(t), Drain(t), held' = held
  PROVE  UNCHANGED Guest!vars /\ Remembered(t)' /\ (Registered => Registered')
<1> DEFINE D == DOMAIN mem
           B == buffer[t]
           M == mem
           w == Over(Head(B), M)
<1>1. /\ B # <<>> /\ mem' = w /\ buffer' = [buffer EXCEPT ![t] = Tail(@)]
      /\ UNCHANGED <<prog, pc, r, xer, cr, trapped>>
  BY DEF Drain, state
<1>2. /\ M \in [D -> 0 .. Byte - 1] /\ buffer \in [Threads -> Seq(Patch(D))]
      /\ \A u \in Threads \ {t} : buffer[u] = <<>>
      /\ D \subseteq 0 .. Word - 1
  BY DEF Remembered
<1>3. B \in Seq(Patch(D)) BY <1>2
<1>4. buffer'[t] = Tail(B) /\ \A u \in Threads \ {t} : buffer'[u] = <<>>
  BY <1>1, <1>2
<1> HIDE DEF D
<1>5. /\ Tail(B) \in Seq(Patch(D)) /\ w \in [D -> 0 .. Byte - 1]
      /\ ViewOf(Tail(B), w) = ViewOf(B, M)
  <2> HIDE DEF B, M
  <2>. QED BY <1>1, <1>2, <1>3, ViewDrained, ZenonT(30)
<1> HIDE DEF w
<1>6. buffer' \in [Threads -> Seq(Patch(D))] BY <1>1, <1>2, <1>5
<1>7. mem' \in [D -> 0 .. Byte - 1] BY <1>1, <1>5
<1>8. Seen' = ViewOf(buffer'[t], mem') BY <1>4, <1>6, <1>7, SeenNext
<1>9. Seen = ViewOf(B, M) BY SeenIs
<1>10. Seen' = Seen BY <1>1, <1>4, <1>5, <1>8, <1>9
<1>11. D' = D BY <1>7 DEF D
<1>12. Remembered(t)' BY <1>2, <1>4, <1>6, <1>7, <1>11 DEF Remembered, D
<1>13. GuestCA' = GuestCA /\ GuestSO' = GuestSO /\ GuestCR(cr') = GuestCR(cr)
  BY <1>1 DEF GuestCA, GuestSO
<1>14. UNCHANGED Guest!vars
  <2> SUFFICES /\ prog' = prog /\ pc' = pc /\ r' = r /\ GuestCA' = GuestCA /\ GuestSO' = GuestSO
               /\ GuestCR(cr') = GuestCR(cr) /\ held' = held /\ trapped' = trapped /\ Seen' = Seen
    BY DEF Guest!vars, Guest!gstate, GuestCA, GuestSO, GuestCR
  <2>. QED BY <1>1, <1>10, <1>13
<1>15. Registered => Registered' BY <1>1 DEF Registered
<1>. QED BY <1>12, <1>14, <1>15

-----------------------------------------------------------------------------
(* A thread that runs alone, and any program it can run but those with      *)
(* stwcx. and stdcx., of which LockExcludes and NothingLost speak.          *)

\* The operands of the next instruction are those the statements printed for it
\* are right for, and what it accesses is memory.
Admitted(t) ==
  LET i == Current(t)
  IN  Running(t) =>
        /\ i.m \in Computing => /\ {i.d, i.a, i.b} \subseteq DOMAIN r[t] /\ i.rc \in BOOLEAN
                                /\ Fields(i, r[t][i.a], r[t][i.b])
        /\ i.m \in DOMAIN Compares => CompareField(i)
        /\ i.m \in {"twi", "trap"} => {i.a, i.b} \subseteq DOMAIN r[t] /\ TrapField(i)
        /\ i.m = "mfcr" => i.d \in DOMAIN r[t]
        /\ i.m \in {"mtcr", "mtxer"} => i.a \in DOMAIN r[t]
        /\ i.m \in {"cror", "crorc"} => {i.d, i.a, i.b} \subseteq 0 .. W - 1
        /\ i.m \in DOMAIN Loads => Accessible(t, i, Loads[i.m])
        /\ i.m \in DOMAIN Stores => Accessible(t, i, Stores[i.m])
        /\ i.m = "dcbz" => AtomicAccessible(t, i, LineAt(u32(AtomicAddress(i, r[t]))))
        /\ i.m \in {"lwarx", "ldarx"} => i.d \in DOMAIN r[t] /\ AtomicAccessible(t, i, Reserve(t))
        /\ i.m \notin {"stwcx", "stdcx"}

\* Registers, flags and bytes to start with; other threads have no program.
LoneStart(t) ==
  /\ Registered
  /\ mem \in [DOMAIN mem -> 0 .. Byte - 1] /\ DOMAIN mem \subseteq 0 .. Word - 1
  /\ \A u \in Threads \ {t} : prog[u] = <<>>

\* The invariant: the rest is idle.
LoneInv(t) ==
  /\ Registered /\ Remembered(t) /\ Unreserved(t)
  /\ DOMAIN pc = Threads
  /\ \A u \in Threads \ {t} : prog[u] = <<>> /\ pc[u] = 1

\* No reservation is lost but the thread's own.
LEMMA HeldKept ==
  ASSUME NEW t \in Threads, Unreserved(t), NEW A,
         held' = [u \in Threads |-> IF u # t /\ held[u] \cap A # {} THEN {} ELSE held[u]]
  PROVE  held' = held
<1>1. held = [u \in Threads |-> held[u]] /\ \A u \in Threads \ {t} : held[u] = {}
  BY DEF Unreserved
<1>2. \A u \in Threads : (IF u # t /\ held[u] \cap A # {} THEN {} ELSE held[u]) = held[u]
  BY <1>1
<1>. QED BY <1>1, <1>2

\* The reservation of the only thread that runs.
LEMMA HoldAlone ==
  ASSUME NEW t \in Threads, Unreserved(t), Hold(t), Current(t).m \notin {"stwcx", "stdcx"}
  PROVE  /\ Current(t).m \notin {"lwarx", "ldarx"} => held' = held
         /\ Current(t).m \in {"lwarx", "ldarx"} => held' = [held EXCEPT ![t] = Reserve(t)]
<1> DEFINE A == Written
           m == Current(t).m
<1>1. held' = [u \in Threads |->
                 IF u = t /\ m \in {"lwarx", "ldarx"} THEN Reserve(t)
                 ELSE IF u = t /\ m \in {"stwcx", "stdcx"} THEN {}
                 ELSE IF u # t /\ held[u] \cap A # {} THEN {} ELSE held[u]]
  BY DEF Hold
<1>2. held = [u \in Threads |-> held[u]] /\ \A u \in Threads \ {t} : held[u] = {}
  BY DEF Unreserved
<1> HIDE DEF A, m
<1>3. CASE m \notin {"lwarx", "ldarx"}
  <2>1. held' = [u \in Threads |-> IF u # t /\ held[u] \cap A # {} THEN {} ELSE held[u]]
    BY <1>1, <1>3 DEF m
  <2>. QED BY <1>3, <2>1, HeldKept DEF m
<1>4. CASE m \in {"lwarx", "ldarx"}
  <2>1. held' = [u \in Threads |-> IF u = t THEN Reserve(t) ELSE held[u]]
    BY <1>1, <1>2, <1>4
  <2>2. [held EXCEPT ![t] = Reserve(t)] = [u \in Threads |-> IF u = t THEN Reserve(t) ELSE held[u]]
    BY <1>2
  <2>. QED BY <1>4, <2>1, <2>2 DEF m
<1>. QED BY <1>3, <1>4

\* What a step of t has to keep of it.
Keeps(t) == Registered' /\ Remembered(t)'

\* Instructions that leave memory alone.
LEMMA RegisterSteps ==
  ASSUME NEW t \in Threads, Registered, Remembered(t), Unreserved(t), Running(t), Admitted(t), Hold(t)
  PROVE  /\ Compute(t) => Guest!Compute(t) /\ Keeps(t)
         /\ Compare(t) => Guest!Compare(t) /\ Keeps(t)
         /\ Trap(t) => Guest!Trap(t) /\ Keeps(t)
         /\ mfcr(t) => Guest!mfcr(t) /\ Keeps(t)
         /\ mtcr(t) => Guest!mtcr(t) /\ Keeps(t)
         /\ mtxer(t) => Guest!mtxer(t) /\ Keeps(t)
         /\ CombineFlags(t) => Guest!CombineFlags(t) /\ Keeps(t)
         /\ Barrier(t) => Guest!Barrier(t) /\ Keeps(t)
         /\ BranchBack(t) => Guest!BranchBack(t) /\ Keeps(t)
<1> DEFINE m == Current(t).m
<1>1. m \notin {"stwcx", "stdcx"} BY DEF Admitted
<1>2. m \notin {"lwarx", "ldarx"} => held' = held BY <1>1, HoldAlone
<1>3. ASSUME UNCHANGED <<buffer, mem>>, Registered' PROVE Keeps(t)
  BY <1>3 DEF Keeps, Remembered
<1>4. ASSUME Compute(t) PROVE Guest!Compute(t) /\ Keeps(t)
  <2>1. m \in Computing /\ UNCHANGED <<buffer, mem>> BY <1>4 DEF Compute, memory
  <2>2. held' = held
    <3>1. m \notin OtherNames BY <2>1, Tables
    <3>. QED BY <1>2, <3>1 DEF OtherNames
  <2>3. LET i == Current(t)
        IN  /\ {i.d, i.a, i.b} \subseteq DOMAIN r[t] /\ i.rc \in BOOLEAN
            /\ Fields(i, r[t][i.a], r[t][i.b])
    BY <2>1 DEF Admitted
  <2>. QED BY <1>3, <1>4, <2>1, <2>2, <2>3, ComputeAgrees
<1>5. ASSUME Compare(t) PROVE Guest!Compare(t) /\ Keeps(t)
  <2>1. m \in DOMAIN Compares /\ UNCHANGED <<buffer, mem>>
    BY <1>5 DEF Compare, memory
  <2>2. held' = held
    <3>1. m \in OtherNames => m = "cmpwi" BY <2>1, Tables
    <3>. QED BY <1>2, <3>1 DEF OtherNames
  <2>3. CompareField(Current(t)) BY <2>1 DEF Admitted
  <2>. QED BY <1>3, <1>5, <2>1, <2>2, <2>3, CompareAgrees
<1>6. ASSUME Trap(t) PROVE Guest!Trap(t) /\ Keeps(t)
  <2>1. m \in {"twi", "trap"} /\ UNCHANGED <<buffer, mem>>
    BY <1>6 DEF Trap, memory
  <2>2. {Current(t).a, Current(t).b} \subseteq DOMAIN r[t] /\ TrapField(Current(t))
    BY <2>1 DEF Admitted
  <2>3. held' = held BY <1>2, <2>1
  <2>. QED BY <1>3, <1>6, <2>1, <2>2, <2>3, TrapAgrees
<1>7. ASSUME mfcr(t) PROVE Guest!mfcr(t) /\ Keeps(t)
  <2>1. m = "mfcr" /\ UNCHANGED <<buffer, mem>> BY <1>7 DEF mfcr, memory
  <2>2. Current(t).d \in DOMAIN r[t] /\ held' = held BY <1>2, <2>1 DEF Admitted
  <2>. QED BY <1>3, <1>7, <2>1, <2>2, FlagsToRegister
<1>8. ASSUME mtcr(t) PROVE Guest!mtcr(t) /\ Keeps(t)
  <2>1. m = "mtcr" /\ UNCHANGED <<buffer, mem>> BY <1>8 DEF mtcr, memory
  <2>2. Current(t).a \in DOMAIN r[t] /\ held' = held BY <1>2, <2>1 DEF Admitted
  <2>. QED BY <1>3, <1>8, <2>1, <2>2, RegisterToFlags
<1>9. ASSUME mtxer(t) PROVE Guest!mtxer(t) /\ Keeps(t)
  <2>1. m = "mtxer" /\ UNCHANGED <<buffer, mem>> BY <1>9 DEF mtxer, memory
  <2>2. Current(t).a \in DOMAIN r[t] /\ held' = held BY <1>2, <2>1 DEF Admitted
  <2>. QED BY <1>3, <1>9, <2>1, <2>2, RegisterToXer
<1>10. ASSUME CombineFlags(t) PROVE Guest!CombineFlags(t) /\ Keeps(t)
  <2>1. m \in {"cror", "crorc"} /\ UNCHANGED <<buffer, mem>>
    BY <1>10 DEF CombineFlags, memory
  <2>2. {Current(t).d, Current(t).a, Current(t).b} \subseteq 0 .. W - 1 /\ held' = held
    BY <1>2, <2>1 DEF Admitted
  <2>. QED BY <1>3, <1>10, <2>1, <2>2, FlagsCombine
<1>11. ASSUME Barrier(t) PROVE Guest!Barrier(t) /\ Keeps(t)
  <2>1. m \in {"sync", "lwsync", "eieio", "nop"} /\ UNCHANGED <<buffer, mem>>
    BY <1>11 DEF Barrier, memory
  <2>2. held' = held BY <1>2, <2>1
  <2>. QED BY <1>3, <1>11, <2>1, <2>2, BarrierAgrees
<1>12. ASSUME BranchBack(t) PROVE Guest!BranchBack(t) /\ Keeps(t)
  <2>1. m = "bne" /\ UNCHANGED <<buffer, mem>> BY <1>12 DEF BranchBack, memory
  <2>2. held' = held BY <1>2, <2>1
  <2>. QED BY <1>3, <1>12, <2>1, <2>2, BranchAgrees
<1>. QED BY <1>4, <1>5, <1>6, <1>7, <1>8, <1>9, <1>10, <1>11, <1>12

\* Instructions that access memory.
LEMMA MemorySteps ==
  ASSUME NEW t \in Threads, Registered, Remembered(t), Unreserved(t), Running(t), Admitted(t), Hold(t)
  PROVE  /\ Load(t) => Guest!Load(t) /\ Keeps(t)
         /\ Store(t) => Guest!Store(t) /\ Keeps(t)
         /\ dcbz(t) => Guest!dcbz(t) /\ Keeps(t)
         /\ LoadReserve(t) => Guest!LoadReserve(t) /\ Keeps(t)
         /\ ~StoreConditional(t)
<1> DEFINE m == Current(t).m
<1>1. m \notin {"stwcx", "stdcx"} BY DEF Admitted
<1>2. m \notin {"lwarx", "ldarx"} => held' = held BY <1>1, HoldAlone
<1>3. ASSUME Load(t) PROVE Guest!Load(t) /\ Keeps(t)
  <2>1. m \in DOMAIN Loads BY <1>3 DEF Load
  <2>2. held' = held
    <3>1. m \in OtherNames => m = "lwz" BY <2>1, Tables
    <3>. QED BY <1>2, <3>1 DEF OtherNames
  <2>3. Accessible(t, Current(t), Loads[Current(t).m]) BY <2>1 DEF Admitted
  <2>. QED BY <1>3, <2>2, <2>3, LoadAgrees DEF Keeps
<1>4. ASSUME Store(t) PROVE Guest!Store(t) /\ Keeps(t)
  <2>1. m \in DOMAIN Stores BY <1>4 DEF Store
  <2>2. held' = held
    <3>1. m \in OtherNames => m = "stw" BY <2>1, Tables
    <3>. QED BY <1>2, <3>1 DEF OtherNames
  <2>3. Accessible(t, Current(t), Stores[Current(t).m]) BY <2>1 DEF Admitted
  <2>. QED BY <1>4, <2>2, <2>3, StoreAgrees DEF Keeps
<1>5. ASSUME dcbz(t) PROVE Guest!dcbz(t) /\ Keeps(t)
  <2>1. m = "dcbz" BY <1>5 DEF dcbz
  <2>2. held' = held BY <1>2, <2>1
  <2>3. AtomicAccessible(t, Current(t), LineAt(u32(AtomicAddress(Current(t), r[t]))))
    BY <2>1 DEF Admitted
  <2>. QED BY <1>5, <2>2, <2>3, ClearAgrees DEF Keeps
<1>6. ASSUME LoadReserve(t) PROVE Guest!LoadReserve(t) /\ Keeps(t)
  <2>1. m \in {"lwarx", "ldarx"} BY <1>6 DEF LoadReserve
  <2>2. held' = [held EXCEPT ![t] = Reserve(t)] BY <1>1, <2>1, HoldAlone
  <2>3. Current(t).d \in DOMAIN r[t] /\ AtomicAccessible(t, Current(t), Reserve(t))
    BY <2>1 DEF Admitted
  <2>. QED BY <1>6, <2>2, <2>3, ReserveAgrees DEF Keeps
<1>7. ~StoreConditional(t) BY <1>1 DEF StoreConditional
<1>. QED BY <1>3, <1>4, <1>5, <1>6, <1>7

\* Threads without a program do nothing.
LEMMA OnlyOne ==
  ASSUME NEW t \in Threads, LoneInv(t), NEW u \in Threads, Step(u) \/ Drain(u)
  PROVE  u = t
<1> SUFFICES ASSUME u # t PROVE FALSE
  OBVIOUS
<1>1. prog[u] = <<>> /\ pc[u] = 1 /\ buffer[u] = <<>> BY DEF LoneInv, Remembered
<1>2. ~Drain(u) BY <1>1 DEF Drain
<1>3. Len(<<>>) = 0 OBVIOUS
<1>4. ~Running(u) BY <1>1, <1>3 DEF Running
<1>. QED BY <1>2, <1>4 DEF Step

\* A step of the thread is one of the console and keeps LoneInv.
LEMMA LoneStep ==
  ASSUME NEW t \in Threads, LoneInv(t), Admitted(t), Step(t), Hold(t)
  PROVE  Guest!Next /\ LoneInv(t)'
<1>1. /\ Registered /\ Remembered(t) /\ Unreserved(t) /\ DOMAIN pc = Threads
      /\ \A u \in Threads \ {t} : prog[u] = <<>> /\ pc[u] = 1
  BY DEF LoneInv
<1>2. Running(t) BY DEF Step
<1> DEFINE GuestStep == \/ Guest!Compute(t) \/ Guest!Compare(t) \/ Guest!Trap(t) \/ Guest!mfcr(t)
                        \/ Guest!mtcr(t) \/ Guest!mtxer(t) \/ Guest!CombineFlags(t)
                        \/ Guest!Load(t) \/ Guest!Store(t) \/ Guest!dcbz(t) \/ Guest!LoadReserve(t)
                        \/ Guest!StoreConditional(t) \/ Guest!Barrier(t) \/ Guest!BranchBack(t)
<1>3. GuestStep /\ Keeps(t)
  <2>1. \/ Compute(t) \/ Compare(t) \/ Trap(t)
        \/ mfcr(t) \/ mtcr(t) \/ mtxer(t) \/ CombineFlags(t)
        \/ Load(t) \/ Store(t) \/ dcbz(t)
        \/ LoadReserve(t) \/ StoreConditional(t) \/ Barrier(t)
        \/ BranchBack(t)
    BY DEF Step
  <2>. QED BY <1>1, <1>2, <2>1, RegisterSteps, MemorySteps
<1>4. /\ DOMAIN pc' = DOMAIN pc /\ prog' = prog
      /\ \A u \in Threads \ {t} : pc'[u] = pc[u]
  <2>1. \E k : pc' = [pc EXCEPT ![t] = k] /\ prog' = prog
    BY DEF Step, Compute, Compare, Trap, mfcr, mtcr, mtxer, CombineFlags, Load, Store, dcbz,
      LoadReserve, StoreConditional, Barrier, BranchBack, Advance
  <2>2. PICK k : pc' = [pc EXCEPT ![t] = k] /\ prog' = prog BY <2>1
  <2>. QED BY <1>1, <2>2
<1>5. Unreserved(t)'
  <2>1. Current(t).m \notin {"stwcx", "stdcx"} BY <1>2 DEF Admitted
  <2>2. held' = held \/ held' = [held EXCEPT ![t] = Reserve(t)]
    BY <1>1, <2>1, HoldAlone
  <2>3. held = [u \in Threads |-> held[u]] /\ \A u \in Threads \ {t} : held[u] = {}
    BY <1>1 DEF Unreserved
  <2>4. CASE held' = held BY <2>3, <2>4 DEF Unreserved
  <2>5. CASE held' = [held EXCEPT ![t] = Reserve(t)]
    <3> DEFINE A == Reserve(t)
    <3> HIDE DEF A
    <3>1. held' = [u \in Threads |-> IF u = t THEN A ELSE held[u]]
      BY <2>3, <2>5 DEF A
    <3>2. held' = [u \in Threads |-> held'[u]] /\ \A u \in Threads \ {t} : held'[u] = {}
      BY <2>3, <3>1
    <3>. QED BY <3>2 DEF Unreserved
  <2>. QED BY <2>2, <2>4, <2>5
<1>6. LoneInv(t)' BY <1>1, <1>3, <1>4, <1>5 DEF LoneInv, Keeps
<1>7. Guest!Running(t) /\ t \in DOMAIN pc
  BY <1>1, <1>2 DEF Guest!Running, Running
<1>8. Guest!Next BY <1>3, <1>7 DEF Guest!Next
<1>. QED BY <1>6, <1>8

\* A store that leaves the buffer is none.
LEMMA LoneDrain ==
  ASSUME NEW t \in Threads, LoneInv(t), Drain(t),
         held' = [u \in Threads |-> IF u # t /\ held[u] \cap Written # {} THEN {} ELSE held[u]]
  PROVE  UNCHANGED Guest!vars /\ LoneInv(t)'
<1>1. Registered /\ Remembered(t) /\ Unreserved(t) BY DEF LoneInv
<1> DEFINE A == Written
<1>2. held' = [u \in Threads |-> IF u # t /\ held[u] \cap A # {} THEN {} ELSE held[u]]
  OBVIOUS
<1> HIDE DEF A
<1>3. held' = held BY <1>1, <1>2, HeldKept
<1>4. UNCHANGED Guest!vars /\ Remembered(t)' /\ Registered'
  BY <1>1, <1>3, DrainUnseen
<1>5. UNCHANGED <<prog, pc>> BY DEF Drain
<1>6. LoneInv(t)' BY <1>3, <1>4, <1>5 DEF LoneInv, Unreserved
<1>. QED BY <1>4, <1>6

LEMMA LoneStutter ==
  ASSUME NEW t \in Threads, LoneInv(t), UNCHANGED <<vars, held>>
  PROVE  UNCHANGED Guest!vars /\ LoneInv(t)'
<1>1. UNCHANGED <<prog, pc, r, xer, cr, trapped, buffer, mem, held>>
  BY DEF vars, state, memory
<1>2. Seen' = Seen BY <1>1, SeenKept
<1>3. GuestCA' = GuestCA /\ GuestSO' = GuestSO /\ GuestCR(cr') = GuestCR(cr)
  BY <1>1 DEF GuestCA, GuestSO
<1>4. UNCHANGED Guest!vars
  <2> SUFFICES /\ prog' = prog /\ pc' = pc /\ r' = r /\ GuestCA' = GuestCA /\ GuestSO' = GuestSO
               /\ GuestCR(cr') = GuestCR(cr) /\ held' = held /\ trapped' = trapped /\ Seen' = Seen
    BY DEF Guest!vars, Guest!gstate, GuestCA, GuestSO, GuestCR
  <2>. QED BY <1>1, <1>2, <1>3
<1>5. LoneInv(t)' BY <1>1 DEF LoneInv, Registered, Remembered, Unreserved
<1>. QED BY <1>4, <1>5

\* So every step is one of the console, or none.
LEMMA LoneNext ==
  ASSUME NEW t \in Threads, LoneInv(t), Admitted(t), [MCNext]_<<vars, held>>
  PROVE  (Guest!Next \/ UNCHANGED Guest!vars) /\ LoneInv(t)'
<1>1. CASE UNCHANGED <<vars, held>> BY <1>1, LoneStutter
<1>2. CASE MCNext
  <2>1. PICK u \in Threads :
           \/ Step(u) /\ Hold(u)
           \/ Drain(u) /\ held' = [v \in Threads |-> IF v # u /\ held[v] \cap Written # {} THEN {} ELSE held[v]]
    BY <1>2 DEF MCNext
  <2>2. u = t BY <2>1, OnlyOne
  <2>. QED BY <2>1, <2>2, LoneStep, LoneDrain
<1>. QED BY <1>1, <1>2

\* A program that one thread runs alone does on the host what it does on the
\* console, instruction by instruction and for words of every width: registers,
\* carry, condition register, traps and the memory the thread sees are those
\* GuestIntegers allows, also while stores wait in the buffer of the host's
\* processor. Admitted says for which operands the statements printed are right:
\* fields an encoding has room for, no division the host faults on, no shift of
\* the most negative number by all its bits, addresses that are memory.
THEOREM LoneThreadAgrees ==
  ASSUME NEW t \in Threads
  PROVE  MCSpec /\ LoneStart(t) /\ []Admitted(t) => ImplementsGuest
<1>1. MCInit /\ LoneStart(t) => LoneInv(t)
  <2> SUFFICES ASSUME MCInit, LoneStart(t)
               PROVE  LoneInv(t)
    OBVIOUS
  <2>1. /\ pc = [u \in Threads |-> 1] /\ buffer = [u \in Threads |-> <<>>] /\ held = [u \in Threads |-> {}]
    BY DEF MCInit, Init
  <2>2. Remembered(t)
    <3>1. <<>> \in Seq(Patch(DOMAIN mem)) OBVIOUS
    <3>2. buffer \in [Threads -> Seq(Patch(DOMAIN mem))] /\ \A u \in Threads : buffer[u] = <<>>
      BY <2>1, <3>1
    <3>. QED BY <3>2 DEF LoneStart, Remembered
  <2>3. Unreserved(t) BY <2>1 DEF Unreserved
  <2>. QED BY <2>1, <2>2, <2>3 DEF LoneInv, LoneStart
<1>2. LoneInv(t) /\ Admitted(t) /\ [MCNext]_<<vars, held>> => LoneInv(t)'
  BY LoneNext
<1>3. LoneInv(t) /\ Admitted(t) /\ [MCNext]_<<vars, held>>
      => [prog[1] # Locked => Guest!Next \/ UNCHANGED Guest!vars]_<<vars, held>>
  BY LoneNext
<1>. QED BY <1>1, <1>2, <1>3, PTL DEF MCSpec, ImplementsGuest
=============================================================================
