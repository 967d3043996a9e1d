----------------------- MODULE FunctionAnalyzerProofs -----------------------
(***************************************************************************)
(* Theorems about FunctionAnalyzer, for every program, whatever its size   *)
(* and its branches: the loop's assertion holds, no block is pending       *)
(* twice, only words that control reaches from the entry are decoded, and  *)
(* the extent that is left after sorting and cutting is made of those, and *)
(* has all of them if control stays inside the function.                   *)
(***************************************************************************)
EXTENDS FunctionAnalyzer, WellFoundedInduction, TLAPS

\* A vector of blocks and a stack of indices as the loop keeps them.
Shaped(bs, st) ==
  /\ bs \in Seq(Block)
  /\ st \in Seq(DOMAIN bs)
  /\ \A i \in DOMAIN bs : bs[i].base >= MemoryStart
  /\ \A i, j \in DOMAIN st : i < j => st[i] < st[j]

\* All that was decoded lies in S, and so does what is to be decoded next.
Sound(bs, st, S) ==
  /\ \A i \in DOMAIN bs : Words(bs[i]) \subseteq S
  /\ \A k \in DOMAIN st : End(bs[st[k]]) \in Offsets => End(bs[st[k]]) \in S

ScanInv == pc = "scan" => Shaped(blocks, stack) /\ SanityCheck

EntryInv == pc # "scan" => stack = <<>>

CodeInv == code \in Programs

ReachInv ==
  pc = "scan" =>
    \A S \in SUBSET Offsets : ClosedUnderFlow(S) => Sound(blocks, stack, S)

Inv == TypeOK /\ EntryInv /\ CodeInv /\ ScanInv

-----------------------------------------------------------------------------
(* The operators.                                                          *)

LEMMA UnsignedType == ASSUME NEW x \in Int PROVE Unsigned(x) \in Nat
BY AnalyzerAssumption DEF Unsigned

LEMMA FreshType ==
  ASSUME NEW o \in Int, NEW p \in Nat \cup {NoProjection}
  PROVE  /\ Fresh(o, p) \in Block
         /\ Fresh(o, p).base = o
         /\ End(Fresh(o, p)) = o
         /\ Words(Fresh(o, p)) = {}
<1>1. Fresh(o, p) \in Block /\ Fresh(o, p).base = o /\ Fresh(o, p).size = 0
  BY DEF Fresh, Block
<1>2. End(Fresh(o, p)) = o
  BY <1>1 DEF End
<1>3. Words(Fresh(o, p)) = {}
  BY <1>1, <1>2 DEF Words
<1>. QED
  BY <1>1, <1>2, <1>3

LEMMA EndType ==
  ASSUME NEW b \in Block
  PROVE  End(b) \in Int /\ End(b) >= b.base
BY DEF End, Block

LEMMA PopType ==
  ASSUME NEW X, NEW s \in Seq(X), s # <<>>
  PROVE  /\ Len(s) \in Nat \ {0} /\ Len(s) \in DOMAIN s /\ Top(s) \in X
         /\ Pop(s) \in Seq(X)
         /\ DOMAIN Pop(s) = 1 .. Len(s) - 1
         /\ \A i \in DOMAIN Pop(s) : i \in DOMAIN s /\ i < Len(s) /\ Pop(s)[i] = s[i]
BY DEF Top, Pop

\* The vector and the stack after Visit: as they were, or each one longer by
\* the new block.
LEMMA VisitShaped ==
  ASSUME NEW bs, NEW st, Shaped(bs, st), NEW address,
         NEW offset \in Int, offset >= MemoryStart,
         NEW projection \in Nat \cup {NoProjection}
  PROVE  LET v == Visit([blocks |-> bs, stack |-> st], address, offset, projection)
         IN  v = [blocks |-> v.blocks, stack |-> v.stack] /\ Shaped(v.blocks, v.stack)
<1> DEFINE w == [blocks |-> bs, stack |-> st]
           b == Fresh(offset, projection)
           v == Visit(w, address, offset, projection)
           n == Len(bs) + 1
<1>1. CASE v = w
  BY <1>1
<1>2. CASE v = [blocks |-> Append(bs, b), stack |-> Append(st, n)]
  <2>1. b \in Block /\ b.base >= MemoryStart
    BY FreshType
  <2>2. bs \in Seq(Block) /\ st \in Seq(DOMAIN bs)
    BY DEF Shaped
  <2>3. /\ Append(bs, b) \in Seq(Block)
        /\ DOMAIN Append(bs, b) = 1 .. n
        /\ Append(bs, b)[n] = b
        /\ \A i \in DOMAIN bs : Append(bs, b)[i] = bs[i]
    BY <2>1, <2>2
  <2>4. DOMAIN bs = 1 .. n - 1 /\ n \in Nat
    BY <2>2
  <2>5. st \in Seq(1 .. n) /\ Append(st, n) \in Seq(1 .. n)
    BY <2>2, <2>4
  <2>6. \A i \in DOMAIN Append(bs, b) : Append(bs, b)[i].base >= MemoryStart
    BY <2>1, <2>3, <2>4 DEF Shaped
  <2>7. \A i, j \in DOMAIN Append(st, n) : i < j => Append(st, n)[i] < Append(st, n)[j]
    <3>1. \A i \in DOMAIN st : st[i] \in 1 .. n - 1
      BY <2>2, <2>4
    <3>. QED
      BY <2>2, <2>4, <3>1 DEF Shaped
  <2>8. Append(st, n) \in Seq(DOMAIN Append(bs, b))
    BY <2>3, <2>5
  <2>9. Shaped(Append(bs, b), Append(st, n))
    BY <2>3, <2>6, <2>7, <2>8 DEF Shaped
  <2>10. v.blocks = Append(bs, b) /\ v.stack = Append(st, n)
    BY <1>2
  <2>. QED
    BY <1>2, <2>9, <2>10
<1>. QED
  BY <1>1, <1>2 DEF Visit

LEMMA VisitSound ==
  ASSUME NEW bs, NEW st, Shaped(bs, st), NEW address, NEW offset \in Int,
         NEW projection \in Nat \cup {NoProjection},
         NEW S, Sound(bs, st, S), offset \in Offsets => offset \in S
  PROVE  LET v == Visit([blocks |-> bs, stack |-> st], address, offset, projection)
         IN  Sound(v.blocks, v.stack, S)
<1> DEFINE w == [blocks |-> bs, stack |-> st]
           b == Fresh(offset, projection)
           v == Visit(w, address, offset, projection)
           n == Len(bs) + 1
<1>1. CASE v = w
  BY <1>1
<1>2. CASE v = [blocks |-> Append(bs, b), stack |-> Append(st, n)]
  <2>1. Words(b) = {} /\ End(b) = offset
    BY FreshType
  <2>2. bs \in Seq(Block) /\ st \in Seq(DOMAIN bs)
    BY DEF Shaped
  <2>3. /\ DOMAIN bs = 1 .. n - 1 /\ n \in Nat
        /\ DOMAIN Append(bs, b) = 1 .. n
        /\ Append(bs, b)[n] = b
        /\ \A i \in DOMAIN bs : Append(bs, b)[i] = bs[i]
    BY <2>2
  <2>4. \A i \in DOMAIN Append(bs, b) : Words(Append(bs, b)[i]) \subseteq S
    BY <2>1, <2>3 DEF Sound
  <2>5. ASSUME NEW k \in DOMAIN Append(st, n)
        PROVE  LET e == End(Append(bs, b)[Append(st, n)[k]])
               IN  e \in Offsets => e \in S
    <3>1. CASE k = Len(st) + 1
      BY <2>1, <2>2, <2>3, <3>1
    <3>2. CASE k # Len(st) + 1
      <4>1. k \in DOMAIN st /\ Append(st, n)[k] = st[k] /\ st[k] \in DOMAIN bs
        BY <2>2, <2>3, <2>5, <3>2
      <4>. QED
        BY <2>3, <4>1 DEF Sound
    <3>. QED
      BY <3>1, <3>2
  <2>6. Sound(Append(bs, b), Append(st, n), S)
    BY <2>4, <2>5 DEF Sound
  <2>7. v.blocks = Append(bs, b) /\ v.stack = Append(st, n)
    BY <1>2
  <2>. QED
    BY <2>6, <2>7
<1>. QED
  BY <1>1, <1>2 DEF Visit

-----------------------------------------------------------------------------
(* The block on top of the stack.                                          *)

\* The ways the decoding actions leave the vector.
Decoded == {Grown, [Grown EXCEPT ![Top(stack)].projected = NoProjection]}

LEMMA CursorIsReadable ==
  ASSUME Inv, Looping
  PROVE  /\ cursor \in Offsets /\ cursor = End(Current)
         /\ stack \in Seq(DOMAIN blocks) /\ blocks \in Seq(Block)
         /\ Top(stack) \in DOMAIN blocks /\ Current \in Block
<1>1. /\ stack \in Seq(DOMAIN blocks) /\ blocks \in Seq(Block)
      /\ stack # <<>> /\ cursor <= CodeWords
      /\ \A i \in DOMAIN blocks : blocks[i].base >= MemoryStart
      /\ cursor = End(Current)
  BY DEF Inv, ScanInv, Shaped, Looping, SanityCheck
<1>2. Top(stack) \in DOMAIN blocks
  BY <1>1, PopType
<1>3. Current \in Block
  BY <1>1, <1>2 DEF Current
<1>4. cursor \in Int /\ cursor >= Current.base /\ Current.base \in Int
  BY <1>1, <1>3, EndType DEF Block
<1>5. Current.base >= MemoryStart
  BY <1>1, <1>2 DEF Current
<1>. QED
  BY <1>1, <1>2, <1>3, <1>4, <1>5, AnalyzerAssumption DEF Offsets

LEMMA DecodedBlocks ==
  ASSUME Inv, Looping, NEW bs \in Decoded
  PROVE  /\ bs \in Seq(Block) /\ DOMAIN bs = DOMAIN blocks
         /\ \A i \in DOMAIN blocks : i # Top(stack) => bs[i] = blocks[i]
         /\ bs[Top(stack)].base = Current.base
         /\ bs[Top(stack)].size = Current.size + 1
<1> DEFINE t == Top(stack)
           grown == [Current EXCEPT !.size = @ + 1]
           closed == [grown EXCEPT !.projected = NoProjection]
<1>1. blocks \in Seq(Block) /\ t \in DOMAIN blocks /\ Current \in Block
  BY CursorIsReadable
<1>2. /\ grown \in Block /\ grown.base = Current.base
      /\ grown.size = Current.size + 1
  <2>1. Current = [base |-> Current.base, size |-> Current.size,
                   projected |-> Current.projected]
    BY <1>1 DEF Block
  <2>2. grown = [base |-> Current.base, size |-> Current.size + 1,
                 projected |-> Current.projected]
    BY <2>1
  <2>. HIDE DEF grown
  <2>. QED
    BY <1>1, <2>2 DEF Block
<1>3. /\ closed \in Block /\ closed.base = Current.base
      /\ closed.size = Current.size + 1
  <2>. HIDE DEF grown
  <2>1. grown = [base |-> grown.base, size |-> grown.size,
                 projected |-> grown.projected]
    BY <1>2 DEF Block
  <2>2. closed = [base |-> Current.base, size |-> Current.size + 1,
                  projected |-> NoProjection]
    BY <1>2, <2>1
  <2>. HIDE DEF closed
  <2>. QED
    BY <1>1, <2>2 DEF Block
<1>4. Grown = [blocks EXCEPT ![t] = grown]
  BY DEF Grown, Current
<1>5. [Grown EXCEPT ![t].projected = NoProjection] = [blocks EXCEPT ![t] = closed]
  <2>1. DOMAIN Grown = DOMAIN blocks /\ Grown[t] = grown
    BY <1>1, <1>4
  <2>2. [Grown EXCEPT ![t].projected = NoProjection] = [Grown EXCEPT ![t] = closed]
    BY <2>1
  <2>. QED
    BY <1>1, <1>4, <2>2
<1>6. ASSUME NEW b \in Block, b.base = Current.base, b.size = Current.size + 1,
             bs = [blocks EXCEPT ![t] = b]
      PROVE  /\ bs \in Seq(Block) /\ DOMAIN bs = DOMAIN blocks
             /\ \A i \in DOMAIN blocks : i # t => bs[i] = blocks[i]
             /\ bs[t].base = Current.base
             /\ bs[t].size = Current.size + 1
  <2>1. DOMAIN bs = DOMAIN blocks /\ bs[t] = b
        /\ \A i \in DOMAIN blocks : i # t => bs[i] = blocks[i]
    BY <1>1, <1>6
  <2>2. blocks \in [1 .. Len(blocks) -> Block] /\ Len(blocks) \in Nat
    BY <1>1
  <2>3. bs \in [1 .. Len(blocks) -> Block]
    BY <1>6, <2>2
  <2>4. bs \in Seq(Block)
    BY <2>2, <2>3
  <2>. QED
    BY <1>6, <2>1, <2>4
<1>. HIDE DEF grown, closed
<1>. QED
  BY <1>2, <1>3, <1>4, <1>5, <1>6 DEF Decoded

LEMMA DecodedShaped ==
  ASSUME Inv, Looping, NEW bs \in Decoded
  PROVE  Shaped(bs, stack) /\ Shaped(bs, Pop(stack))
<1>1. /\ stack \in Seq(DOMAIN blocks) /\ stack # <<>> /\ Top(stack) \in DOMAIN blocks
      /\ \A i \in DOMAIN blocks : blocks[i].base >= MemoryStart
      /\ \A i, j \in DOMAIN stack : i < j => stack[i] < stack[j]
  BY CursorIsReadable DEF Inv, ScanInv, Shaped, Looping
<1>2. bs \in Seq(Block) /\ DOMAIN bs = DOMAIN blocks
  BY DecodedBlocks
<1>3. \A i \in DOMAIN bs : bs[i].base >= MemoryStart
  BY <1>1, <1>2, DecodedBlocks DEF Current
<1>4. Shaped(bs, stack)
  BY <1>1, <1>2, <1>3 DEF Shaped
<1>5. Pop(stack) \in Seq(DOMAIN bs)
  BY <1>1, <1>2, PopType
<1>6. \A i, j \in DOMAIN Pop(stack) : i < j => Pop(stack)[i] < Pop(stack)[j]
  BY <1>1, PopType
<1>. QED
  BY <1>2, <1>3, <1>4, <1>5, <1>6 DEF Shaped

LEMMA DecodedSound ==
  ASSUME Inv, ReachInv, Looping, NEW bs \in Decoded,
         NEW S \in SUBSET Offsets, ClosedUnderFlow(S)
  PROVE  /\ cursor \in S
         /\ Sound(bs, Pop(stack), S)
         /\ (cursor + 1 \in Offsets => cursor + 1 \in S) => Sound(bs, stack, S)
<1> DEFINE t == Top(stack)
<1>1. Sound(blocks, stack, S) /\ pc = "scan" /\ stack # <<>>
  BY DEF ReachInv, Looping
<1>2. /\ cursor \in Offsets /\ cursor = End(Current) /\ Current \in Block
      /\ stack \in Seq(DOMAIN blocks) /\ t \in DOMAIN blocks
  BY CursorIsReadable
<1>3. cursor \in S
  <2>1. Len(stack) \in DOMAIN stack
    BY <1>1, <1>2, PopType
  <2>. QED
    BY <1>1, <1>2, <2>1 DEF Sound, Current, Top
<1>4. DOMAIN bs = DOMAIN blocks /\ \A i \in DOMAIN blocks : i # t => bs[i] = blocks[i]
  BY DecodedBlocks
<1>5. bs[t].base = Current.base /\ bs[t].size = Current.size + 1
  BY DecodedBlocks
<1>6. Words(bs[t]) = Words(Current) \cup {cursor} /\ End(bs[t]) = cursor + 1
  BY <1>2, <1>5 DEF Words, End, Block
<1>7. \A i \in DOMAIN bs : Words(bs[i]) \subseteq S
  BY <1>1, <1>3, <1>4, <1>6, <1>2 DEF Sound, Current
<1>8. ASSUME NEW k \in DOMAIN stack, k < Len(stack)
      PROVE  stack[k] \in DOMAIN blocks /\ stack[k] # t
  <2>1. Len(stack) \in DOMAIN stack /\ Len(stack) \in Nat
    BY <1>1, <1>2, PopType
  <2>2. stack[k] < stack[Len(stack)] /\ stack[k] \in DOMAIN blocks
    BY <1>1, <1>2, <1>8, <2>1 DEF Inv, ScanInv, Shaped
  <2>3. DOMAIN blocks \subseteq Int
    BY CursorIsReadable
  <2>. QED
    BY <1>2, <2>2, <2>3 DEF Top
<1>9. ASSUME NEW k \in DOMAIN stack, k < Len(stack)
      PROVE  End(bs[stack[k]]) \in Offsets => End(bs[stack[k]]) \in S
  BY <1>1, <1>4, <1>8, <1>9 DEF Sound
<1>10. Sound(bs, Pop(stack), S)
  <2>1. \A k \in DOMAIN Pop(stack) :
          k \in DOMAIN stack /\ k < Len(stack) /\ Pop(stack)[k] = stack[k]
    BY <1>1, <1>2, PopType
  <2>. QED
    BY <1>7, <1>9, <2>1 DEF Sound
<1>11. ASSUME cursor + 1 \in Offsets => cursor + 1 \in S
       PROVE  Sound(bs, stack, S)
  <2>1. ASSUME NEW k \in DOMAIN stack
        PROVE  End(bs[stack[k]]) \in Offsets => End(bs[stack[k]]) \in S
    <3>1. k = Len(stack) \/ k < Len(stack)
      BY <1>2
    <3>2. CASE k = Len(stack)
      BY <1>6, <1>11, <3>2 DEF Top
    <3>. QED
      BY <1>9, <3>1, <3>2
  <2>. QED
    BY <1>7, <2>1 DEF Sound
<1>. QED
  BY <1>3, <1>10, <1>11

-----------------------------------------------------------------------------
(* The steps.                                                              *)

LEMMA InitInv == Init => Inv /\ ReachInv
BY AnalyzerAssumption
   DEF Init, Inv, TypeOK, EntryInv, CodeInv, ScanInv, ReachInv

\* A walk of the right shape is carried on.
LEMMA ContinueInv ==
  ASSUME Inv, Looping, NEW bs, NEW st, Shaped(bs, st),
         Continue([blocks |-> bs, stack |-> st])
  PROVE  Inv'
<1> DEFINE w == [blocks |-> bs, stack |-> st]
<1>1. /\ blocks' = bs /\ stack' = st /\ cursor' = Restore(w)
      /\ code' = code /\ pc' = pc /\ size' = size /\ pc = "scan"
  BY DEF Continue, Looping
<1>2. st = <<>> => cursor' = cursor + 1
  BY <1>1 DEF Restore
<1>3. st # <<>> => cursor' = End(bs[Top(st)])
  BY <1>1 DEF Restore
<1>4. st # <<>> => bs[Top(st)] \in Block
  BY PopType DEF Shaped
<1>5. cursor' \in Int
  BY <1>2, <1>3, <1>4, EndType DEF Inv, TypeOK
<1>6. TypeOK'
  BY <1>1, <1>5 DEF Inv, TypeOK, Shaped
<1>7. ScanInv'
  BY <1>1, <1>3 DEF ScanInv, SanityCheck, Current, Shaped
<1>8. EntryInv' /\ CodeInv'
  BY <1>1 DEF Inv, EntryInv, CodeInv
<1>. QED
  BY <1>6, <1>7, <1>8 DEF Inv

LEMMA ContinueReach ==
  ASSUME Looping, NEW bs, NEW st, Continue([blocks |-> bs, stack |-> st]),
         \A S \in SUBSET Offsets : ClosedUnderFlow(S) => Sound(bs, st, S)
  PROVE  ReachInv'
<1>1. blocks' = bs /\ stack' = st /\ code' = code
  BY DEF Continue
<1>2. \A S : ClosedUnderFlow(S)' <=> ClosedUnderFlow(S)
  BY <1>1 DEF ClosedUnderFlow, Successors
<1>3. \A S : Sound(blocks, stack, S)' <=> Sound(bs, st, S)
  BY <1>1 DEF Sound
<1>. QED
  BY <1>2, <1>3 DEF ReachInv

\* A branch's target is an offset, and one that is followed is readable.
LEMMA TargetType ==
  ASSUME Inv, Looping
  PROVE  /\ code[cursor] \in Instruction
         /\ code[cursor].target \in Int
         /\ code[cursor].op = "bc" => code[cursor].target >= MemoryStart
         /\ cursor \in Int /\ cursor + 1 >= MemoryStart
<1>1. cursor \in Offsets
  BY CursorIsReadable
<1>2. code \in [Offsets -> Instruction] /\ code \in Programs
  BY DEF Inv, TypeOK, CodeInv
<1>3. code[cursor] \in Instruction
  BY <1>1, <1>2
<1>. QED
  BY <1>1, <1>2, <1>3, AnalyzerAssumption DEF Instruction, Offsets

LEMMA FallThroughStep ==
  ASSUME Inv, FallThrough
  PROVE  Inv' /\ (ReachInv => ReachInv')
<1>1. /\ Looping /\ Continue([blocks |-> blocks, stack |-> Pop(stack)])
      /\ stack \in Seq(DOMAIN blocks) /\ stack # <<>> /\ pc = "scan"
      /\ Shaped(blocks, stack)
  BY DEF FallThrough, Looping, Inv, ScanInv, Shaped
<1>2. Shaped(blocks, Pop(stack))
  <2>1. \A i, j \in DOMAIN Pop(stack) : i < j => Pop(stack)[i] < Pop(stack)[j]
    BY <1>1, PopType DEF Shaped
  <2>2. Pop(stack) \in Seq(DOMAIN blocks)
    BY <1>1, PopType
  <2>. QED
    BY <1>1, <2>1, <2>2 DEF Shaped
<1>3. ASSUME ReachInv, NEW S \in SUBSET Offsets, ClosedUnderFlow(S)
      PROVE  Sound(blocks, Pop(stack), S)
  <2>1. \A k \in DOMAIN Pop(stack) : k \in DOMAIN stack /\ Pop(stack)[k] = stack[k]
    BY <1>1, PopType
  <2>. QED
    BY <1>1, <1>3, <2>1 DEF ReachInv, Sound
<1>. QED
  BY <1>1, <1>2, <1>3, ContinueInv, ContinueReach

LEMMA StraightStep ==
  ASSUME Inv, Straight
  PROVE  Inv' /\ (ReachInv => ReachInv')
<1>1. Looping /\ Grown \in Decoded /\ code[cursor].op = "straight"
      /\ Continue([blocks |-> Grown, stack |-> stack])
  BY DEF Straight, Decoding, Decoded
<1>2. ASSUME ReachInv, NEW S \in SUBSET Offsets, ClosedUnderFlow(S)
      PROVE  Sound(Grown, stack, S)
  <2>1. cursor \in S
    BY <1>1, <1>2, DecodedSound
  <2>2. cursor + 1 \in Offsets => cursor + 1 \in S
    BY <1>1, <1>2, <2>1 DEF ClosedUnderFlow, Successors
  <2>. QED
    BY <1>1, <1>2, <2>2, DecodedSound
<1>. QED
  BY <1>1, <1>2, DecodedShaped, ContinueInv, ContinueReach

LEMMA CloseStep ==
  ASSUME Inv, Looping, Continue([blocks |-> Grown, stack |-> Pop(stack)])
  PROVE  Inv' /\ (ReachInv => ReachInv')
<1>1. Grown \in Decoded
  BY DEF Decoded
<1>. QED
  BY <1>1, DecodedShaped, DecodedSound, ContinueInv, ContinueReach

\* One block is opened where control goes.
LEMMA OpenStep ==
  ASSUME Inv, Looping, NEW address, NEW offset \in Int, offset >= MemoryStart,
         NEW projection \in Nat \cup {NoProjection},
         offset \in Successors(cursor),
         Continue(Visit([blocks |-> Grown, stack |-> Pop(stack)],
                        address, offset, projection))
  PROVE  Inv' /\ (ReachInv => ReachInv')
<1> DEFINE v == Visit([blocks |-> Grown, stack |-> Pop(stack)],
                      address, offset, projection)
<1>1. Grown \in Decoded
  BY DEF Decoded
<1>2. Shaped(Grown, Pop(stack))
  BY <1>1, DecodedShaped
<1>3. v = [blocks |-> v.blocks, stack |-> v.stack] /\ Shaped(v.blocks, v.stack)
  BY <1>2, VisitShaped
<1>4. ASSUME ReachInv, NEW S \in SUBSET Offsets, ClosedUnderFlow(S)
      PROVE  Sound(v.blocks, v.stack, S)
  <2>1. cursor \in S /\ Sound(Grown, Pop(stack), S)
    BY <1>1, <1>4, DecodedSound
  <2>2. offset \in Offsets => offset \in S
    BY <1>4, <2>1 DEF ClosedUnderFlow
  <2>. QED
    BY <1>2, <2>1, <2>2, VisitSound
<1>5. Continue([blocks |-> v.blocks, stack |-> v.stack])
  BY <1>3
<1>. HIDE DEF v
<1>. QED
  BY <1>3, <1>4, <1>5, ContinueInv, ContinueReach

LEMMA BranchStep ==
  ASSUME Inv, Branch
  PROVE  Inv' /\ (ReachInv => ReachInv')
<1> DEFINE target == code[cursor].target
           ended == Grown[Top(stack)]
           carried == IF ended.projected # NoProjection /\ target = End(ended)
                      THEN Unsigned(ended.projected - ended.size)
                      ELSE NoProjection
           closed == [blocks |-> Grown, stack |-> Pop(stack)]
<1>1. /\ Looping /\ code[cursor].op = "b"
      /\ Continue(IF target < 0 THEN closed
                  ELSE Visit(closed, Base + target, target, carried))
  BY DEF Branch, Decoding
<1>2. Grown \in Decoded
  BY DEF Decoded
<1>3. ended \in Block
  BY <1>1, <1>2, DecodedBlocks, CursorIsReadable
<1>4. carried \in Nat \cup {NoProjection}
  BY <1>3, UnsignedType DEF Block
<1>5. target \in Int
  BY <1>1, TargetType
<1>6. CASE target < 0
  BY <1>1, <1>6, CloseStep
<1>7. CASE ~(target < 0)
  <2>1. target \in Successors(cursor)
    BY <1>1, <1>7 DEF Successors
  <2>2. target >= MemoryStart
    BY <1>5, <1>7, AnalyzerAssumption
  <2>3. Continue(Visit(closed, Base + target, target, carried))
    BY <1>1, <1>7
  <2>. HIDE DEF carried, target
  <2>. QED
    BY <1>1, <1>4, <1>5, <2>1, <2>2, <2>3, OpenStep
<1>. QED
  BY <1>6, <1>7

LEMMA CondReturnStep ==
  ASSUME Inv, CondReturn
  PROVE  Inv' /\ (ReachInv => ReachInv')
<1>1. /\ Looping /\ code[cursor].op = "condreturn"
      /\ Continue(Visit([blocks |-> Grown, stack |-> Pop(stack)],
                        cursor + 1, cursor + 1, NoProjection))
  BY DEF CondReturn, Decoding
<1>2. cursor + 1 \in Int /\ cursor + 1 >= MemoryStart
  BY <1>1, TargetType
<1>3. cursor + 1 \in Successors(cursor)
  BY <1>1 DEF Successors
<1>. QED
  BY <1>1, <1>2, <1>3, OpenStep

LEMMA CondBranchStep ==
  ASSUME Inv, CondBranch
  PROVE  Inv' /\ (ReachInv => ReachInv')
<1> DEFINE left == cursor + 1
           right == code[cursor].target
           bs == [Grown EXCEPT ![Top(stack)].projected = NoProjection]
           v == Visit([blocks |-> bs, stack |-> Pop(stack)],
                      Base + left, left, Unsigned(right - left))
           w == Visit([blocks |-> v.blocks, stack |-> v.stack],
                      Base + right, right, NoProjection)
<1>1. /\ Looping /\ code[cursor].op = "bc"
      /\ Continue(Visit(v, Base + right, right, NoProjection))
  BY DEF CondBranch, Decoding
<1>2. /\ left \in Int /\ left >= MemoryStart
      /\ right \in Int /\ right >= MemoryStart
  BY <1>1, TargetType
<1>3. /\ Unsigned(right - left) \in Nat \cup {NoProjection}
      /\ NoProjection \in Nat \cup {NoProjection}
  BY <1>2, UnsignedType
<1>4. {left, right} \subseteq Successors(cursor)
  BY <1>1 DEF Successors
<1>5. bs \in Decoded /\ Shaped(bs, Pop(stack))
  BY <1>1, DecodedShaped DEF Decoded
<1> HIDE DEF left, right, bs
<1>6. v = [blocks |-> v.blocks, stack |-> v.stack] /\ Shaped(v.blocks, v.stack)
  BY <1>2, <1>3, <1>5, VisitShaped
<1>7. w = [blocks |-> w.blocks, stack |-> w.stack] /\ Shaped(w.blocks, w.stack)
  <2>. HIDE DEF v
  <2>. QED
    BY <1>2, <1>3, <1>6, VisitShaped
<1>8. ASSUME ReachInv, NEW S \in SUBSET Offsets, ClosedUnderFlow(S)
      PROVE  Sound(w.blocks, w.stack, S)
  <2>1. cursor \in S /\ Sound(bs, Pop(stack), S)
    BY <1>1, <1>5, <1>8, DecodedSound
  <2>2. (left \in Offsets => left \in S) /\ (right \in Offsets => right \in S)
    BY <1>4, <1>8, <2>1 DEF ClosedUnderFlow
  <2>3. Sound(v.blocks, v.stack, S)
    BY <1>2, <1>3, <1>5, <2>1, <2>2, VisitSound
  <2>. HIDE DEF v
  <2>. QED
    BY <1>2, <1>3, <1>6, <2>2, <2>3, VisitSound
<1>9. Continue([blocks |-> w.blocks, stack |-> w.stack])
  <2>1. Continue(w)
    <3>. HIDE DEF v
    <3>. QED
      BY <1>1, <1>6
  <2>. HIDE DEF w
  <2>. QED
    BY <1>7, <2>1
<1>. HIDE DEF w
<1>. QED
  BY <1>1, <1>7, <1>8, <1>9, ContinueInv, ContinueReach

LEMMA EnterStep ==
  ASSUME Inv, Enter
  PROVE  Inv' /\ (ReachInv => ReachInv')
<1> DEFINE b == Fresh(0, NoProjection)
<1>1. b \in Block /\ b.base = 0 /\ End(b) = 0 /\ Words(b) = {}
  <2>1. 0 \in Int /\ NoProjection \in Nat \cup {NoProjection}
    OBVIOUS
  <2>. HIDE DEF b
  <2>2. b = Fresh(0, NoProjection)
    BY DEF b
  <2>. QED
    BY <2>1, <2>2, FreshType
<1>2. CASE pc' = "done"
  <2>1. /\ code' = code /\ size' = 2 /\ UNCHANGED <<blocks, stack, cursor>>
        /\ pc = "entry"
    BY <1>2 DEF Enter
  <2>. QED
    BY <1>2, <2>1 DEF Inv, TypeOK, EntryInv, CodeInv, ScanInv, ReachInv
<1>3. CASE /\ pc' = "scan" /\ blocks' = <<b>> /\ stack' = <<1>> /\ cursor' = 0
           /\ size' = size /\ code' = code
  <2>1. Shaped(<<b>>, <<1>>)
    BY <1>1, AnalyzerAssumption DEF Shaped
  <2>2. TypeOK'
    BY <1>3, <2>1 DEF Inv, TypeOK, Shaped
  <2>3. ScanInv' /\ EntryInv' /\ CodeInv'
    BY <1>1, <1>3, <2>1 DEF Inv, ScanInv, EntryInv, CodeInv, Shaped, SanityCheck, Current, Top
  <2>4. ASSUME NEW S, ClosedUnderFlow(S)
        PROVE  Sound(<<b>>, <<1>>, S)
    BY <1>1, <2>4 DEF Sound, ClosedUnderFlow
  <2>5. \A S : ClosedUnderFlow(S)' <=> ClosedUnderFlow(S)
    BY <1>3 DEF ClosedUnderFlow, Successors
  <2>6. ReachInv'
    <3>1. \A S : Sound(blocks, stack, S)' <=> Sound(<<b>>, <<1>>, S)
      BY <1>3 DEF Sound
    <3>. QED
      BY <2>4, <2>5, <3>1 DEF ReachInv
  <2>. QED
    BY <2>2, <2>3, <2>6 DEF Inv
<1>. QED
  BY <1>2, <1>3 DEF Enter

LEMMA FinishStep ==
  ASSUME Inv, Finish
  PROVE  Inv' /\ (ReachInv => ReachInv')
<1>1. blocks \in Seq(Block)
  BY DEF Finish, Inv, TypeOK
<1>2. size' \in Nat
  <2>. PICK last \in LastOfBase :
         \E i \in Kept(last) : size' = Unsigned(End(blocks[i]))
    BY DEF Finish
  <2>1. PICK i \in Kept(last) : size' = Unsigned(End(blocks[i]))
    OBVIOUS
  <2>2. i \in DOMAIN blocks
    BY <2>1 DEF Kept
  <2>3. blocks[i] \in Block
    BY <1>1, <2>2
  <2>. QED
    BY <2>1, <2>3, EndType, UnsignedType
<1>3. code' = code /\ pc' = "done" /\ stack' = <<>> /\ cursor' = cursor
  BY DEF Finish
<1>. QED
  BY <1>2, <1>3 DEF Inv, TypeOK, EntryInv, CodeInv, ScanInv, ReachInv

LEMMA NextStep ==
  ASSUME Inv, [Next]_vars
  PROVE  Inv' /\ (ReachInv => ReachInv')
<1>1. CASE UNCHANGED vars
  <2>1. Inv'
    BY <1>1 DEF vars, Inv, TypeOK, EntryInv, CodeInv, ScanInv, Shaped, SanityCheck, Current
  <2>2. ReachInv => ReachInv'
    BY <1>1 DEF vars, ReachInv, ClosedUnderFlow, Successors, Sound
  <2>. QED
    BY <2>1, <2>2
<1>2. CASE Return
  BY <1>2, CloseStep DEF Return, Decoding
<1>3. CASE Invalid
  BY <1>3, CloseStep DEF Invalid, Decoding
<1>. QED
  BY <1>1, <1>2, <1>3, EnterStep, FallThroughStep, StraightStep, CondBranchStep,
     BranchStep, CondReturnStep, FinishStep DEF Next, Terminated

-----------------------------------------------------------------------------
(* Where blocks begin.                                                     *)

\* Offsets from here on are those that wrapped.
Ceiling == Modulus + MemoryStart

\* The vector has been appended to, with blocks that begin at offsets.
Extended(bs, cs) ==
  /\ DOMAIN bs \subseteq DOMAIN cs
  /\ \A i \in DOMAIN bs : cs[i] = bs[i]
  /\ \A i \in DOMAIN cs \ DOMAIN bs : cs[i].base < Ceiling

\* Of the first block, the entry's, a word is decoded before anything else.
Begun ==
  \/ blocks[1].size > 0
  \/ stack = <<1>> /\ blocks[1].projected = NoProjection /\ cursor = 0

BaseInv ==
  pc = "scan" =>
    /\ 1 \in DOMAIN blocks /\ blocks[1].base = 0
    /\ \A i \in DOMAIN blocks : blocks[i].base < Ceiling
    /\ Begun

LEMMA Small ==
  /\ Modulus \in Nat \ {0} /\ MemoryStart \in Int /\ MemoryStart <= 0
  /\ CodeWords \in Nat \ {0} /\ Ceiling \in Nat /\ CodeWords + 1 < Ceiling /\ Ceiling <= Modulus
BY AnalyzerAssumption DEF Ceiling

LEMMA VisitExtends ==
  ASSUME NEW bs \in Seq(Block), NEW st, NEW address,
         NEW offset \in Int, offset < Ceiling, NEW projection \in Nat \cup {NoProjection}
  PROVE  Extended(bs, Visit([blocks |-> bs, stack |-> st], address, offset, projection).blocks)
<1> DEFINE b == Fresh(offset, projection)
           v == Visit([blocks |-> bs, stack |-> st], address, offset, projection)
<1>1. CASE v.blocks = bs
  BY <1>1 DEF Extended
<1>2. CASE v.blocks = Append(bs, b)
  <2>1. b \in Block /\ b.base = offset
    BY FreshType
  <2>. HIDE DEF b, v
  <2>2. /\ DOMAIN Append(bs, b) = DOMAIN bs \cup {Len(bs) + 1}
        /\ \A i \in DOMAIN bs : Append(bs, b)[i] = bs[i]
        /\ Append(bs, b)[Len(bs) + 1] = b
    BY <2>1
  <2>3. Extended(bs, Append(bs, b))
    BY <2>1, <2>2 DEF Extended
  <2>. QED
    BY <1>2, <2>3 DEF v
<1>. QED
  BY <1>1, <1>2 DEF Visit

\* A vector that the step has decoded a word into, and appended to.
LEMMA BaseStep ==
  ASSUME Inv, BaseInv, Looping, NEW bs, Extended(bs, blocks'), pc' = pc,
         bs \in Decoded \/ (bs = blocks /\ HasReachedProjection)
  PROVE  BaseInv'
<1>1. /\ pc = "scan" /\ 1 \in DOMAIN blocks /\ blocks[1].base = 0 /\ Begun
      /\ \A i \in DOMAIN blocks : blocks[i].base < Ceiling
      /\ blocks \in Seq(Block)
  BY CursorIsReadable DEF BaseInv, Looping
<1>2. /\ DOMAIN bs = DOMAIN blocks /\ bs[1].size > 0
      /\ \A i \in DOMAIN blocks : bs[i].base = blocks[i].base
  <2>1. CASE bs \in Decoded
    <3>1. /\ DOMAIN bs = DOMAIN blocks
          /\ \A i \in DOMAIN blocks : i # Top(stack) => bs[i] = blocks[i]
          /\ bs[Top(stack)].base = Current.base /\ bs[Top(stack)].size = Current.size + 1
      BY <2>1, DecodedBlocks
    <3>2. Current.size \in Nat /\ blocks[1].size \in Nat
      <4>1. Current \in Block /\ blocks[1] \in Block
        BY <1>1, CursorIsReadable
      <4>. QED
        BY <4>1 DEF Block
    <3>3. bs[1].size > 0
      <4>1. CASE Top(stack) = 1
        BY <3>1, <3>2, <4>1
      <4>2. CASE Top(stack) # 1
        <5>1. stack # <<1>>
          BY <4>2 DEF Top
        <5>. QED
          BY <1>1, <3>1, <4>2, <5>1 DEF Begun
      <4>. QED
        BY <4>1, <4>2
    <3>. QED
      BY <3>1, <3>3 DEF Current
  <2>2. CASE bs = blocks /\ HasReachedProjection
    <3>1. ~(stack = <<1>> /\ blocks[1].projected = NoProjection)
      BY <2>2 DEF HasReachedProjection, Current, Top
    <3>. QED
      BY <1>1, <2>2, <3>1 DEF Begun
  <2>. QED
    BY <2>1, <2>2
<1>3. /\ 1 \in DOMAIN blocks' /\ blocks'[1].base = 0 /\ blocks'[1].size > 0
      /\ \A i \in DOMAIN blocks' : blocks'[i].base < Ceiling
  BY <1>1, <1>2 DEF Extended
<1>. QED
  BY <1>3 DEF BaseInv, Begun

LEMMA NextBase == Inv /\ BaseInv /\ [Next]_vars => BaseInv'
<1> SUFFICES ASSUME Inv, BaseInv, [Next]_vars PROVE BaseInv'
  OBVIOUS
<1>1. CASE UNCHANGED vars \/ Terminated
  BY <1>1 DEF vars, Terminated, BaseInv, Begun
<1>2. CASE Enter
  <2>1. CASE pc' = "done"
    BY <2>1 DEF BaseInv
  <2>2. CASE blocks' = <<Fresh(0, NoProjection)>> /\ stack' = <<1>> /\ cursor' = 0
    BY <2>2, Small DEF BaseInv, Begun, Fresh
  <2>. QED
    BY <1>2, <2>1, <2>2 DEF Enter
<1>3. CASE Finish
  BY <1>3 DEF Finish, BaseInv
<1>4. ASSUME Looping
      PROVE  /\ Grown \in Decoded /\ Grown \in Seq(Block)
             /\ \A cs \in Seq(Block) : Extended(cs, cs)
  BY <1>4, DecodedBlocks DEF Decoded, Extended
<1>5. CASE FallThrough
  <2>1. Looping /\ HasReachedProjection /\ blocks' = blocks /\ pc' = pc
    BY <1>5 DEF FallThrough, Continue
  <2>2. Extended(blocks, blocks')
    BY <2>1 DEF Extended
  <2>. QED
    BY <2>1, <2>2, BaseStep
<1>6. CASE Straight \/ Return \/ Invalid
  <2>1. Looping /\ blocks' = Grown /\ pc' = pc
    BY <1>6 DEF Straight, Return, Invalid, Decoding, Continue
  <2>. QED
    BY <1>4, <2>1, BaseStep
<1>7. ASSUME Looping
      PROVE  /\ cursor + 1 \in Int /\ cursor + 1 < Ceiling
             /\ code[cursor].target \in Int /\ code[cursor].target < Ceiling
  <2>1. cursor \in Offsets /\ cursor \in Int /\ cursor <= CodeWords
    BY <1>7, CursorIsReadable, TargetType DEF Looping
  <2>2. code[cursor].target \in Int /\ code[cursor].target < Ceiling
    BY <1>7, <2>1, TargetType, AnalyzerAssumption DEF Inv, CodeInv, Ceiling
  <2>. QED
    BY <2>1, <2>2, Small
<1>8. CASE Branch
  <2> DEFINE target == code[cursor].target
             ended == Grown[Top(stack)]
             carried == IF ended.projected # NoProjection /\ target = End(ended)
                        THEN Unsigned(ended.projected - ended.size)
                        ELSE NoProjection
             closed == [blocks |-> Grown, stack |-> Pop(stack)]
  <2>1. /\ Looping /\ pc' = pc
        /\ blocks' = (IF target < 0 THEN closed
                      ELSE Visit(closed, Base + target, target, carried)).blocks
    BY <1>8 DEF Branch, Decoding, Continue
  <2>2. ended \in Block
    BY <1>4, <2>1, DecodedBlocks, CursorIsReadable
  <2>3. carried \in Nat \cup {NoProjection}
    BY <2>2, UnsignedType DEF Block
  <2>4. target \in Int /\ target < Ceiling
    BY <1>7, <2>1
  <2>. HIDE DEF target, carried
  <2>5. Extended(Grown, blocks')
    BY <1>4, <2>1, <2>3, <2>4, VisitExtends
  <2>. QED
    BY <1>4, <2>1, <2>5, BaseStep
<1>9. CASE CondReturn
  <2>1. /\ Looping /\ pc' = pc
        /\ blocks' = Visit([blocks |-> Grown, stack |-> Pop(stack)],
                           cursor + 1, cursor + 1, NoProjection).blocks
    BY <1>9 DEF CondReturn, Decoding, Continue
  <2>2. Extended(Grown, blocks')
    BY <1>4, <1>7, <2>1, VisitExtends
  <2>. QED
    BY <1>4, <2>1, <2>2, BaseStep
<1>10. CASE CondBranch
  <2> DEFINE left == cursor + 1
             right == code[cursor].target
             bs == [Grown EXCEPT ![Top(stack)].projected = NoProjection]
             v == Visit([blocks |-> bs, stack |-> Pop(stack)],
                        Base + left, left, Unsigned(right - left))
  <2>1. /\ Looping /\ pc' = pc
        /\ blocks' = Visit(v, Base + right, right, NoProjection).blocks
    BY <1>10 DEF CondBranch, Decoding, Continue
  <2>2. left \in Int /\ left < Ceiling /\ right \in Int /\ right < Ceiling
    BY <1>7, <2>1
  <2>3. bs \in Decoded /\ bs \in Seq(Block) /\ Shaped(bs, Pop(stack))
    BY <2>1, DecodedBlocks, DecodedShaped DEF Decoded
  <2>4. Unsigned(right - left) \in Nat \cup {NoProjection}
    BY <2>2, UnsignedType
  <2>5. left >= MemoryStart
    BY <2>1, TargetType
  <2>. HIDE DEF left, right, bs
  <2>6. v = [blocks |-> v.blocks, stack |-> v.stack] /\ v.blocks \in Seq(Block)
    <3>1. v = [blocks |-> v.blocks, stack |-> v.stack] /\ Shaped(v.blocks, v.stack)
      BY <2>2, <2>3, <2>4, <2>5, VisitShaped
    <3>. QED
      BY <3>1 DEF Shaped
  <2>7. Extended(bs, v.blocks)
    BY <2>2, <2>3, <2>4, VisitExtends
  <2>. HIDE DEF v
  <2>8. Extended(v.blocks, blocks')
    BY <2>1, <2>2, <2>6, VisitExtends
  <2>9. Extended(bs, blocks')
    BY <2>7, <2>8 DEF Extended
  <2>. QED
    BY <2>1, <2>3, <2>9, BaseStep
<1>. QED
  BY <1>1, <1>2, <1>3, <1>5, <1>6, <1>8, <1>9, <1>10 DEF Next


-----------------------------------------------------------------------------
(* Sorting and cutting.                                                    *)

LEMMA Minimum ==
  ASSUME NEW T \in SUBSET Nat, T # {}
  PROVE  \E i \in T : \A j \in T : i <= j
<1> DEFINE R == OpToRel(<, Nat)
<1>1. PICK i \in T : \A j \in T : ~(<<j, i>> \in R)
  <2>1. IsWellFoundedOn(R, Nat)
    BY NatLessThanWellFounded
  <2>. HIDE DEF R
  <2>. QED
    BY <2>1, WFMin
<1>2. \A j \in T : ~(j < i)
  BY <1>1 DEF OpToRel
<1>. QED
  BY <1>2

LEMMA Maximum ==
  ASSUME NEW n \in Nat, NEW T \in SUBSET (0 .. n), T # {}
  PROVE  \E i \in T : \A j \in T : j <= i
<1> DEFINE D == {n - i : i \in T}
<1>1. D \in SUBSET Nat /\ D # {}
  <2>1. \A i \in 0 .. n : n - i \in Nat
    OBVIOUS
  <2>2. PICK i \in T : TRUE
    OBVIOUS
  <2>3. n - i \in D
    BY <2>2
  <2>. QED
    BY <2>1, <2>3
<1>2. PICK x \in D : \A y \in D : x <= y
  <2>. HIDE DEF D
  <2>. QED
    BY <1>1, Minimum
<1>3. PICK i \in T : x = n - i
  OBVIOUS
<1>4. \A j \in T : n - i <= n - j
  BY <1>2, <1>3
<1>. QED
  BY <1>4

\* Offsets are what they are as size_t, or wrap past all of those.
LEMMA Unwrapped ==
  ASSUME NEW x \in Int, MemoryStart <= x, x < Ceiling
  PROVE  /\ x >= 0 => Unsigned(x) = x
         /\ x < 0 => Unsigned(x) >= Ceiling
<1> DEFINE q == x \div Modulus
<1>1. /\ q \in Int /\ x % Modulus \in 0 .. Modulus - 1
      /\ x = Modulus * q + (x % Modulus)
  BY Small
<1>2. -Modulus < x /\ x < Modulus
  BY Small DEF Ceiling
<1>. HIDE DEF q
<1>3. q \in Int /\ Modulus \in Nat => /\ q >= 1 => Modulus * q >= Modulus
                                      /\ q <= -2 => Modulus * q <= -(2 * Modulus)
  OBVIOUS
<1>4. q = 0 \/ q = -1
  BY <1>1, <1>2, <1>3, Small
<1>5. x % Modulus = x \/ x % Modulus = x + Modulus
  BY <1>1, <1>4, Small
<1>. QED
  BY <1>1, <1>2, <1>5, Small DEF Unsigned, Ceiling

\* No block that was sorted up to o ends behind o: whatever is sorted behind
\* o is cut off.
LEMMA CutAtGap ==
  ASSUME blocks \in Seq(Block), 1 \in DOMAIN blocks, blocks[1].base = 0,
         NEW o \in Nat,
         \A j \in DOMAIN blocks : SortKey(j) <= o => Unsigned(End(blocks[j])) <= o,
         NEW last \in LastOfBase, NEW i \in Kept(last)
  PROVE  SortKey(i) <= o
<1>1. \A j \in DOMAIN blocks : SortKey(j) \in Nat /\ Unsigned(End(blocks[j])) \in Nat
  <2>1. \A j \in DOMAIN blocks : blocks[j].base \in Int /\ End(blocks[j]) \in Int
    <3> SUFFICES ASSUME NEW j \in DOMAIN blocks
                 PROVE  blocks[j].base \in Int /\ End(blocks[j]) \in Int
      OBVIOUS
    <3>1. blocks[j] \in Block
      OBVIOUS
    <3>. QED
      BY <3>1, EndType DEF Block
  <2>. QED
    BY <2>1, UnsignedType DEF SortKey
<1>2. SortKey(1) = 0
  BY Unwrapped, Small, AnalyzerAssumption DEF SortKey
<1>3. i \in DOMAIN blocks
  BY DEF Kept
<1> SUFFICES ASSUME SortKey(i) > o PROVE FALSE
  BY <1>1, <1>3
<1> DEFINE Below == {SortKey(j) : j \in {k \in DOMAIN blocks : SortKey(k) <= o}}
           Above == {SortKey(j) : j \in {k \in DOMAIN blocks : SortKey(k) > o}}
<1>4. PICK l \in Below : \A k \in Below : k <= l
  <2>1. Below \in SUBSET (0 .. o)
    BY <1>1
  <2>2. Below # {}
    BY <1>2
  <2>. HIDE DEF Below
  <2>. QED
    BY <2>1, <2>2, Maximum
<1>5. PICK u \in Above : \A k \in Above : u <= k
  <2>1. Above \in SUBSET Nat
    BY <1>1
  <2>2. Above # {}
    BY <1>3
  <2>. HIDE DEF Above
  <2>. QED
    BY <2>1, <2>2, Minimum
<1>6. PICK q \in DOMAIN blocks : SortKey(q) = u /\ SortKey(q) > o
  OBVIOUS
<1>7. PICK b \in DOMAIN blocks : SortKey(b) = l /\ SortKey(b) <= o
  OBVIOUS
<1>8. PICK p \in last : SortKey(p) = l
  BY <1>7 DEF LastOfBase
<1>9. last \subseteq DOMAIN blocks
  BY DEF LastOfBase
<1>10. \A j \in last : SortKey(j) <= SortKey(p) \/ SortKey(q) <= SortKey(j)
  <2> SUFFICES ASSUME NEW j \in last PROVE SortKey(j) <= SortKey(p) \/ SortKey(q) <= SortKey(j)
    OBVIOUS
  <2>1. SortKey(j) \in Nat /\ j \in DOMAIN blocks
    BY <1>1, <1>9
  <2>2. SortKey(j) <= o => SortKey(j) \in Below
    BY <2>1
  <2>3. SortKey(j) > o => SortKey(j) \in Above
    BY <2>1
  <2>. HIDE DEF Below, Above
  <2>. QED
    BY <1>4, <1>5, <1>6, <1>8, <2>1, <2>2, <2>3
<1>11. SortKey(p) < SortKey(q) /\ Unsigned(End(blocks[p])) < SortKey(q)
  BY <1>1, <1>6, <1>7, <1>8, <1>9
<1>12. IsDiscontinuity(q, last)
  BY <1>8, <1>10, <1>11 DEF IsDiscontinuity
<1>13. SortKey(q) <= SortKey(i)
  <2>1. SortKey(i) \in Above
    BY <1>3
  <2>. HIDE DEF Above
  <2>. QED
    BY <1>5, <1>6, <2>1
<1>. QED
  BY <1>6, <1>12, <1>13 DEF Kept

LEMMA AllReadable == ClosedUnderFlow(Offsets)
BY AnalyzerAssumption DEF ClosedUnderFlow, Offsets

\* Where the blocks lie when the walk is over.
LEMMA BlockFacts ==
  ASSUME Inv, ReachInv, BaseInv, pc = "scan", NEW i \in DOMAIN blocks
  PROVE  /\ blocks[i] \in Block /\ blocks[i].base \in Int /\ End(blocks[i]) \in Int
         /\ MemoryStart <= blocks[i].base /\ blocks[i].base <= End(blocks[i])
         /\ End(blocks[i]) < Ceiling
         /\ Words(blocks[i]) \subseteq Offsets
<1>1. /\ blocks[i] \in Block /\ blocks[i].base >= MemoryStart
  BY DEF Inv, ScanInv, Shaped
<1>2. blocks[i].base < Ceiling
  BY DEF BaseInv
<1>3. Words(blocks[i]) \subseteq Offsets
  BY AllReadable DEF ReachInv, Sound
<1>4. /\ blocks[i].base \in Int /\ blocks[i].size \in Nat
      /\ End(blocks[i]) = blocks[i].base + blocks[i].size
  BY <1>1 DEF Block, End
<1>5. CASE blocks[i].size = 0
  BY <1>1, <1>2, <1>3, <1>4, <1>5, Small
<1>6. CASE blocks[i].size # 0
  <2>1. End(blocks[i]) - 1 \in Words(blocks[i])
    BY <1>4, <1>6 DEF Words
  <2>2. End(blocks[i]) - 1 <= CodeWords
    BY <1>3, <2>1, AnalyzerAssumption DEF Offsets
  <2>. QED
    BY <1>1, <1>2, <1>3, <1>4, <2>2, Small
<1>. QED
  BY <1>5, <1>6

\* A block that is kept begins in the function and ends where it says.
LEMMA KeptFacts ==
  ASSUME Inv, ReachInv, BaseInv, pc = "scan", NEW last \in LastOfBase, NEW i \in Kept(last)
  PROVE  /\ i \in DOMAIN blocks /\ blocks[i].base >= 0 /\ SortKey(i) = blocks[i].base
         /\ Unsigned(End(blocks[i])) = End(blocks[i])
<1>1. /\ blocks \in Seq(Block) /\ 1 \in DOMAIN blocks /\ blocks[1].base = 0
      /\ i \in DOMAIN blocks
  BY DEF Inv, ScanInv, Shaped, BaseInv, Kept
<1>2. Ceiling \in Nat /\ Ceiling - 1 \in Nat /\ MemoryStart \in Int
  BY Small
<1>3. \A j \in DOMAIN blocks :
        SortKey(j) <= Ceiling - 1 => blocks[j].base >= 0 /\ SortKey(j) = blocks[j].base
  <2> SUFFICES ASSUME NEW j \in DOMAIN blocks, SortKey(j) <= Ceiling - 1
               PROVE  blocks[j].base >= 0 /\ SortKey(j) = blocks[j].base
    OBVIOUS
  <2>1. blocks[j].base \in Int /\ MemoryStart <= blocks[j].base /\ blocks[j].base < Ceiling
    BY <1>2, BlockFacts
  <2>2. ~(Unsigned(blocks[j].base) >= Ceiling)
    BY <1>2, <2>1, UnsignedType DEF SortKey
  <2>. QED
    BY <2>1, <2>2, Unwrapped DEF SortKey
<1>4. \A j \in DOMAIN blocks :
        SortKey(j) <= Ceiling - 1 => Unsigned(End(blocks[j])) = End(blocks[j])
  BY <1>2, <1>3, BlockFacts, Unwrapped
<1>5. \A j \in DOMAIN blocks :
        SortKey(j) <= Ceiling - 1 => Unsigned(End(blocks[j])) <= Ceiling - 1
  <2> SUFFICES ASSUME NEW j \in DOMAIN blocks, SortKey(j) <= Ceiling - 1
               PROVE  Unsigned(End(blocks[j])) <= Ceiling - 1
    OBVIOUS
  <2>1. End(blocks[j]) \in Int /\ End(blocks[j]) < Ceiling
    BY BlockFacts
  <2>. QED
    BY <1>2, <1>4, <2>1
<1>6. SortKey(i) <= Ceiling - 1
  BY <1>1, <1>2, <1>5, CutAtGap
<1>. QED
  BY <1>1, <1>3, <1>4, <1>6

\* What is kept leaves out no offset that was not decoded.
LEMMA KeptIsReachable ==
  ASSUME Inv, ReachInv, BaseInv, pc = "scan", NEW last \in LastOfBase, NEW i \in Kept(last),
         NEW S \in SUBSET Offsets, ClosedUnderFlow(S),
         NEW o \in Nat, o < End(blocks[i])
  PROVE  o \in S
<1> SUFFICES ASSUME o \notin S PROVE FALSE
  OBVIOUS
<1>1. /\ blocks \in Seq(Block) /\ 1 \in DOMAIN blocks /\ blocks[1].base = 0
  BY DEF Inv, ScanInv, Shaped, BaseInv
<1>2. \A j \in DOMAIN blocks : Words(blocks[j]) \subseteq S
  BY DEF ReachInv, Sound
<1>3. \A j \in DOMAIN blocks : blocks[j].base <= o => End(blocks[j]) <= o
  BY <1>2, BlockFacts DEF Words
<1>4. i \in DOMAIN blocks /\ SortKey(i) = blocks[i].base
  BY KeptFacts
<1>5. o < Ceiling /\ Ceiling \in Nat /\ MemoryStart \in Int
  BY <1>4, BlockFacts, Small
<1>6. ASSUME NEW j \in DOMAIN blocks, SortKey(j) <= o
      PROVE  Unsigned(End(blocks[j])) <= o
  <2>1. blocks[j].base >= 0 /\ SortKey(j) = blocks[j].base
    <3>1. /\ blocks[j].base \in Int /\ MemoryStart <= blocks[j].base
          /\ blocks[j].base < Ceiling
      BY <1>5, BlockFacts
    <3>2. ~(Unsigned(blocks[j].base) >= Ceiling)
      BY <1>5, <1>6, <3>1, UnsignedType DEF SortKey
    <3>. QED
      BY <3>1, <3>2, Unwrapped DEF SortKey
  <2>2. End(blocks[j]) <= o
    BY <1>3, <1>6, <2>1
  <2>. QED
    BY <2>1, <2>2, <1>5, BlockFacts, Unwrapped
<1>7. SortKey(i) <= o
  BY <1>1, <1>6, CutAtGap
<1>. QED
  BY <1>3, <1>4, <1>7, BlockFacts

\* The function that the walk arrives at.
ExtentInv ==
  pc = "done" /\ ~IsShiftedTailCall =>
    /\ size \in Nat \ {0}
    /\ \A S \in SUBSET Offsets : ClosedUnderFlow(S) => 0 .. (size - 1) \subseteq S

LEMMA FinishExtent ==
  ASSUME Inv, ReachInv, BaseInv, Finish
  PROVE  ExtentInv'
<1>1. pc = "scan" /\ (stack = <<>> \/ cursor > CodeWords) /\ code' = code
  BY DEF Finish
<1>2. PICK last \in LastOfBase : \E i \in Kept(last) :
        /\ \A j \in Kept(last) : Unsigned(End(blocks[j])) <= Unsigned(End(blocks[i]))
        /\ size' = Unsigned(End(blocks[i]))
  BY DEF Finish
<1>3. PICK i \in Kept(last) :
        /\ \A j \in Kept(last) : Unsigned(End(blocks[j])) <= Unsigned(End(blocks[i]))
        /\ size' = Unsigned(End(blocks[i]))
  BY <1>2
<1>4. /\ 1 \in DOMAIN blocks /\ blocks[1].base = 0 /\ blocks[1].size > 0
  <2>1. 1 \in DOMAIN blocks /\ blocks[1].base = 0 /\ Begun
    BY <1>1 DEF BaseInv
  <2>2. ~(stack = <<1>> /\ cursor = 0)
    BY <1>1, Small
  <2>. QED
    BY <2>1, <2>2 DEF Begun
<1>5. 1 \in Kept(last)
  <2>1. \A j \in DOMAIN blocks : SortKey(j) \in Nat
    BY <1>1, BlockFacts, UnsignedType DEF SortKey
  <2>2. SortKey(1) = 0
    BY <1>4, Unwrapped, Small DEF SortKey
  <2>3. \A j \in DOMAIN blocks : SortKey(j) <= 0 => ~IsDiscontinuity(j, last)
    BY <2>1 DEF IsDiscontinuity, LastOfBase
  <2>. QED
    BY <1>4, <2>2, <2>3 DEF Kept
<1>6. End(blocks[1]) >= 1 /\ End(blocks[1]) \in Int
  BY <1>1, <1>4, BlockFacts DEF End, Block
<1>7. Unsigned(End(blocks[1])) = End(blocks[1]) /\ size' = End(blocks[i]) /\ End(blocks[i]) \in Int
  BY <1>1, <1>3, <1>5, KeptFacts, BlockFacts
<1>8. size' \in Nat \ {0}
  BY <1>3, <1>5, <1>6, <1>7
<1>9. \A S : ClosedUnderFlow(S)' <=> ClosedUnderFlow(S)
  BY <1>1 DEF ClosedUnderFlow, Successors
<1>10. \A S \in SUBSET Offsets : ClosedUnderFlow(S) => 0 .. (size' - 1) \subseteq S
  <2> SUFFICES ASSUME NEW S \in SUBSET Offsets, ClosedUnderFlow(S), NEW o \in 0 .. (size' - 1)
               PROVE  o \in S
    OBVIOUS
  <2>1. o \in Nat /\ o < End(blocks[i])
    BY <1>7, <1>8
  <2>. QED
    BY <1>1, <2>1, KeptIsReachable
<1>. QED
  BY <1>8, <1>9, <1>10 DEF ExtentInv

LEMMA NextExtent == Inv /\ ReachInv /\ BaseInv /\ ExtentInv /\ [Next]_vars => ExtentInv'
<1> SUFFICES ASSUME Inv, ReachInv, BaseInv, ExtentInv, [Next]_vars PROVE ExtentInv'
  OBVIOUS
<1>1. CASE UNCHANGED vars \/ Terminated
  BY <1>1 DEF vars, Terminated, ExtentInv, IsShiftedTailCall, ClosedUnderFlow, Successors
<1>2. CASE Enter
  BY <1>2 DEF Enter, ExtentInv, IsShiftedTailCall
<1>3. CASE Finish
  BY <1>3, FinishExtent
<1>4. CASE FallThrough \/ Straight \/ CondBranch \/ Branch \/ Return \/ CondReturn \/ Invalid
  <2>1. pc' = "scan"
    BY <1>4 DEF FallThrough, Straight, CondBranch, Branch, Return, CondReturn, Invalid,
                Decoding, Looping, Continue
  <2>. QED
    BY <2>1 DEF ExtentInv
<1>. QED
  BY <1>1, <1>2, <1>3, <1>4 DEF Next
-----------------------------------------------------------------------------
(* The theorems.                                                           *)

LEMMA Invariance == Spec => [](Inv /\ ReachInv)
<1>1. Init => Inv /\ ReachInv
  BY InitInv
<1>2. Inv /\ ReachInv /\ [Next]_vars => (Inv /\ ReachInv)'
  BY NextStep
<1>. QED
  BY <1>1, <1>2, PTL DEF Spec

\* Type correctness: whatever the program, the walk's variables keep their
\* types, and it reads no word before the readable ones.
THEOREM TypeCorrect == Spec => []TypeOK
<1>1. Inv => TypeOK
  BY DEF Inv
<1>. QED
  BY <1>1, Invariance, PTL

\* The loop's assertion (function.cpp:85) cannot fail, for any program: the
\* cursor always resumes where the block on top of the stack ended.
THEOREM AssertionHolds == Spec => []SanityCheck
<1>1. Inv => SanityCheck
  BY DEF Inv, ScanInv, SanityCheck
<1>. QED
  BY <1>1, Invariance, PTL

\* No block is pending twice, for any program.
THEOREM NothingPendingTwice == Spec => []StackIncreases
<1>1. Inv => StackIncreases
  <2>1. CASE pc = "scan"
    BY <2>1 DEF Inv, ScanInv, Shaped, StackIncreases
  <2>2. CASE pc # "scan"
    BY <2>2 DEF Inv, EntryInv, StackIncreases
  <2>. QED
    BY <2>1, <2>2
<1>. QED
  BY <1>1, Invariance, PTL

\* Soundness of the walk for every program: it decodes no word that control
\* cannot reach from the entry, so neither data nor a neighbour's code.
THEOREM WalkIsSound == Spec => []OnlyReachableDecoded
<1>1. ReachInv => OnlyReachableDecoded
  BY DEF ReachInv, OnlyReachableDecoded, Sound
<1>. QED
  BY <1>1, Invariance, PTL

LEMMA ExtentHolds == Spec => []ExtentInv
<1>1. Init => Inv /\ ReachInv /\ BaseInv /\ ExtentInv
  <2>1. Init => BaseInv /\ ExtentInv
    BY DEF Init, BaseInv, ExtentInv
  <2>. QED
    BY <2>1, InitInv
<1>2. Inv /\ ReachInv /\ BaseInv /\ ExtentInv /\ [Next]_vars
        => (Inv /\ ReachInv /\ BaseInv /\ ExtentInv)'
  BY NextStep, NextBase, NextExtent
<1>. QED
  BY <1>1, <1>2, PTL DEF Spec

\* Soundness of the result for every program: sorting the blocks and cutting
\* them at the first discontinuity (function.cpp:216) leaves an extent without
\* a word that control cannot reach from the entry, wherever branches lead.
THEOREM ExtentIsSound == Spec => []ExtentIsReachable
<1>1. ExtentInv => ExtentIsReachable
  BY DEF ExtentInv, ExtentIsReachable
<1>. QED
  BY <1>1, ExtentHolds, PTL

\* The callers can advance by fn.size: it is never zero, and it is at most one
\* word behind the section, whatever the program.
THEOREM SizeAdvances == Spec => []SizeIsUsable
<1>1. ExtentInv => SizeIsUsable
  <2> SUFFICES ASSUME ExtentInv, pc = "done", ~IsShiftedTailCall
               PROVE  size \in 1 .. (CodeWords + 1)
    BY DEF SizeIsUsable
  <2>1. size \in Nat \ {0} /\ 0 .. (size - 1) \subseteq Offsets
    BY AllReadable DEF ExtentInv
  <2>2. size - 1 \in Offsets
    BY <2>1
  <2>. QED
    BY <2>1, <2>2, AnalyzerAssumption DEF Offsets
<1>. QED
  BY <1>1, ExtentHolds, PTL

-----------------------------------------------------------------------------
(* Completeness: the walk forgets no word that control reaches, and sorting *)
(* and cutting the blocks leaves an extent that ends where control cannot    *)
(* go.                                                                       *)

\* S is what control reaches from the entry, and LocalFlow holds of it.
LocalSet(S) ==
  /\ S \subseteq 0 .. CodeWords - 1
  /\ ClosedUnderFlow(S)
  /\ \A o \in S : Successors(o) \subseteq S /\ (code[o].op = "bc" => code[o].target # o + 1)

\* Block b falls into its neighbour as soon as it is resumed.
Reached(b) == b.projected # NoProjection /\ b.size >= b.projected

\* Word o is decoded, or a pending block will decode it when it is resumed.
Covered(bs, st, o) ==
  \/ \E i \in DOMAIN bs : o \in Words(bs[i])
  \/ \E k \in DOMAIN st : End(bs[st[k]]) = o /\ ~Reached(bs[st[k]])

\* Every block begins in S, and so does what is pending.
Inside(bs, st, S) ==
  /\ \A i \in DOMAIN bs : bs[i].base \in S
  /\ \A k \in DOMAIN st : End(bs[st[k]]) \in S

\* A block that knows where its neighbour begins was opened behind a branch,
\* and does not grow beyond the neighbour.
Projected(bs) ==
  \A i \in DOMAIN bs : bs[i].projected # NoProjection =>
    /\ bs[i].projected < Modulus /\ bs[i].size <= bs[i].projected
    /\ bs[i].base > 0 /\ code[bs[i].base - 1].op \in {"bc", "b"}

\* Only conditional returns open a block where one begins already.
Duplicates(bs) ==
  \A i, j \in DOMAIN bs :
    i < j /\ bs[i].base = bs[j].base => code[bs[i].base - 1].op = "condreturn"

\* Blocks are straight but for their last words.
StraightRuns(bs) ==
  \A i \in DOMAIN bs : \A o \in Words(bs[i]) :
    o + 1 < End(bs[i]) => code[o].op = "straight"

\* A block that is pending ends in a straight word, if it has any.
Resumable(bs, st) ==
  \A k \in DOMAIN st : LET b == bs[st[k]] IN
    b.size > 0 => code[End(b) - 1].op = "straight"

\* A block that is not pending any more ended in another word or at its
\* neighbour.
Ended(bs, st) ==
  \A i \in DOMAIN bs : (\A k \in DOMAIN st : st[k] # i) =>
    \/ bs[i].size > 0 /\ code[End(bs[i]) - 1].op # "straight"
    \/ Reached(bs[i])

\* Nothing that control reaches is forgotten, but for what is still owed.
Remembered(bs, st, owed) ==
  /\ \A i \in DOMAIN bs : bs[i].size = 0 => Covered(bs, st, bs[i].base)
  /\ \A i \in DOMAIN bs : bs[i].projected # NoProjection =>
       LET right == bs[i].base + bs[i].projected
       IN  right > CodeWords \/ right \in owed \/ Covered(bs, st, right)
  /\ \A i \in DOMAIN bs : \A o \in Words(bs[i]) : \A t \in Successors(o) :
       t \in owed \/ Covered(bs, st, t)

Walk(bs, st, S, owed) ==
  /\ Inside(bs, st, S)
  /\ Projected(bs)
  /\ Duplicates(bs)
  /\ StraightRuns(bs)
  /\ Resumable(bs, st)
  /\ Ended(bs, st)
  /\ Remembered(bs, st, owed)

WalkInv ==
  pc = "scan" => \A S \in SUBSET Offsets : LocalSet(S) => Walk(blocks, stack, S, {})

-----------------------------------------------------------------------------
(* Opening a block.                                                        *)

LEMMA LocalSetType ==
  ASSUME NEW S, LocalSet(S), NEW o \in S
  PROVE  o \in Int /\ o >= 0 /\ o < CodeWords /\ CodeWords \in Nat /\ o \in Offsets
BY AnalyzerAssumption DEF LocalSet, Offsets

\* The vector and the stack with one block more.
LEMMA Opened ==
  ASSUME NEW bs, NEW st, Shaped(bs, st), NEW b
  PROVE  LET n   == Len(bs) + 1
             bs2 == Append(bs, b)
             st2 == Append(st, n)
         IN  /\ DOMAIN bs2 = DOMAIN bs \cup {n} /\ DOMAIN bs = 1 .. n - 1 /\ n \in Nat \ {0}
             /\ bs2[n] = b /\ \A i \in DOMAIN bs : i < n /\ bs2[i] = bs[i]
             /\ DOMAIN st2 = DOMAIN st \cup {Len(st) + 1} /\ st2[Len(st) + 1] = n
             /\ \A k \in DOMAIN st : st2[k] = st[k] /\ st[k] \in DOMAIN bs
<1>1. bs \in Seq(Block) /\ st \in Seq(DOMAIN bs)
  BY DEF Shaped
<1>2. /\ DOMAIN Append(bs, b) = DOMAIN bs \cup {Len(bs) + 1}
      /\ DOMAIN bs = 1 .. Len(bs) /\ Len(bs) \in Nat
      /\ Append(bs, b)[Len(bs) + 1] = b
      /\ \A i \in DOMAIN bs : Append(bs, b)[i] = bs[i]
  BY <1>1
<1>3. \A k \in DOMAIN st : st[k] \in DOMAIN bs
  BY <1>1
<1>4. /\ DOMAIN Append(st, Len(bs) + 1) = DOMAIN st \cup {Len(st) + 1}
      /\ Append(st, Len(bs) + 1)[Len(st) + 1] = Len(bs) + 1
      /\ \A k \in DOMAIN st : Append(st, Len(bs) + 1)[k] = st[k]
  BY <1>1
<1>. QED
  BY <1>2, <1>3, <1>4

LEMMA OpenedCovered ==
  ASSUME NEW bs, NEW st, Shaped(bs, st), NEW b, NEW o, Covered(bs, st, o)
  PROVE  Covered(Append(bs, b), Append(st, Len(bs) + 1), o)
<1>1. CASE \E i \in DOMAIN bs : o \in Words(bs[i])
  BY <1>1, Opened DEF Covered
<1>2. CASE \E k \in DOMAIN st : End(bs[st[k]]) = o /\ ~Reached(bs[st[k]])
  <2>1. PICK k \in DOMAIN st : End(bs[st[k]]) = o /\ ~Reached(bs[st[k]])
    BY <1>2
  <2>2. /\ k \in DOMAIN Append(st, Len(bs) + 1)
        /\ Append(bs, b)[Append(st, Len(bs) + 1)[k]] = bs[st[k]]
    BY Opened
  <2>. QED
    BY <2>1, <2>2 DEF Covered
<1>. QED
  BY <1>1, <1>2 DEF Covered

\* What SearchBlock finds is decoded or pending.
LEMMA FoundCovered ==
  ASSUME NEW bs, NEW st, Shaped(bs, st), NEW S, NEW owed, Remembered(bs, st, owed),
         NEW offset \in Int, Found(bs, Base + offset)
  PROVE  Covered(bs, st, offset)
<1>1. PICK i \in DOMAIN bs : Contains(bs[i], Base + offset)
  BY DEF Found
<1>2. bs[i] \in Block
  BY DEF Shaped
<1>3. bs[i].base \in Int /\ bs[i].size \in Nat /\ End(bs[i]) \in Int
  BY <1>2, EndType DEF Block
<1>4. CASE bs[i].size = 0
  <2>1. bs[i].base = offset
    BY <1>1, <1>3, <1>4, AnalyzerAssumption DEF Contains
  <2>. QED
    BY <1>4, <2>1 DEF Remembered
<1>5. CASE bs[i].size # 0
  <2>1. bs[i].base <= offset /\ offset < End(bs[i])
    BY <1>1, <1>3, <1>5, AnalyzerAssumption DEF Contains
  <2>2. offset \in Words(bs[i])
    BY <1>3, <2>1 DEF Words
  <2>. QED
    BY <2>2 DEF Covered
<1>. QED
  BY <1>4, <1>5

\* What is not found begins no block, and so no block begins there.
LEMMA NotFound ==
  ASSUME NEW bs, NEW st, Shaped(bs, st), NEW offset \in Nat, ~Found(bs, Base + offset),
         NEW i \in DOMAIN bs
  PROVE  bs[i].base # offset
<1>1. bs[i] \in Block
  BY DEF Shaped
<1>2. bs[i].base \in Int /\ bs[i].size \in Nat /\ End(bs[i]) = bs[i].base + bs[i].size
  BY <1>1 DEF Block, End
<1>3. ~Contains(bs[i], Base + offset)
  BY AnalyzerAssumption DEF Found
<1>. QED
  BY <1>2, <1>3, AnalyzerAssumption DEF Contains

\* The block that is opened at offset settles what is owed there.
LEMMA OpenWalk ==
  ASSUME NEW bs, NEW st, Shaped(bs, st), NEW S, LocalSet(S), NEW owed, Walk(bs, st, S, owed),
         NEW offset \in S, NEW projection \in Nat \cup {NoProjection},
         \/ ~Found(bs, Base + offset)
         \/ code[offset - 1].op = "condreturn",
         projection # NoProjection =>
           /\ projection < Modulus /\ offset > 0 /\ code[offset - 1].op \in {"bc", "b"}
           /\ \/ offset + projection > CodeWords
              \/ offset + projection \in owed
              \/ Covered(bs, st, offset + projection),
         projection = 0 => Covered(bs, st, offset)
  PROVE  Walk(Append(bs, Fresh(offset, projection)), Append(st, Len(bs) + 1), S, owed \ {offset})
<1> DEFINE b   == Fresh(offset, projection)
           n   == Len(bs) + 1
           bs2 == Append(bs, b)
           st2 == Append(st, n)
<1>1. /\ b.base = offset /\ b.size = 0 /\ b.projected = projection
      /\ End(b) = offset /\ Words(b) = {} /\ offset \in Nat
  BY LocalSetType, FreshType DEF Fresh
<1>2. /\ DOMAIN bs2 = DOMAIN bs \cup {n} /\ DOMAIN bs = 1 .. n - 1 /\ n \in Nat \ {0}
      /\ bs2[n] = b /\ \A i \in DOMAIN bs : i < n /\ bs2[i] = bs[i]
      /\ DOMAIN st2 = DOMAIN st \cup {Len(st) + 1} /\ st2[Len(st) + 1] = n
      /\ \A k \in DOMAIN st : st2[k] = st[k] /\ st[k] \in DOMAIN bs
  BY Opened
<1>3. \A o : Covered(bs, st, o) => Covered(bs2, st2, o)
  BY OpenedCovered
<1>. HIDE DEF b, n, bs2, st2
<1>4. Covered(bs2, st2, offset)
  <2>1. CASE projection = 0
    BY <1>3, <2>1
  <2>2. CASE projection # 0
    <3>1. ~Reached(b)
      BY <1>1, <2>2 DEF Reached
    <3>2. bs2[st2[Len(st) + 1]] = b
      BY <1>2
    <3>. QED
      BY <1>1, <1>2, <3>1, <3>2 DEF Covered
  <2>. QED
    BY <2>1, <2>2
<1>5. Inside(bs2, st2, S)
  BY <1>1, <1>2 DEF Walk, Inside
<1>6. Projected(bs2)
  BY <1>1, <1>2 DEF Walk, Projected
<1>7. Duplicates(bs2)
  <2> SUFFICES ASSUME NEW i \in DOMAIN bs2, NEW j \in DOMAIN bs2, i < j,
                      bs2[i].base = bs2[j].base
               PROVE  code[bs2[i].base - 1].op = "condreturn"
    BY DEF Duplicates
  <2>1. CASE j = n
    <3>1. i \in DOMAIN bs /\ bs2[i] = bs[i] /\ bs[i].base = offset
      BY <1>1, <1>2, <2>1
    <3>2. Found(bs, Base + offset)
      BY <1>1, <3>1, NotFound
    <3>. QED
      BY <1>1, <3>1, <3>2
  <2>2. CASE j # n
    <3>1. i \in DOMAIN bs /\ j \in DOMAIN bs /\ bs2[i] = bs[i] /\ bs2[j] = bs[j]
      BY <1>2, <2>2
    <3>. QED
      BY <3>1 DEF Walk, Duplicates
  <2>. QED
    BY <2>1, <2>2
<1>8. StraightRuns(bs2)
  BY <1>1, <1>2 DEF Walk, StraightRuns
<1>9. Resumable(bs2, st2)
  <2> SUFFICES ASSUME NEW k \in DOMAIN st2, bs2[st2[k]].size > 0
               PROVE  code[End(bs2[st2[k]]) - 1].op = "straight"
    BY DEF Resumable
  <2>1. k \in DOMAIN st /\ bs2[st2[k]] = bs[st[k]]
    BY <1>1, <1>2
  <2>. QED
    BY <2>1 DEF Walk, Resumable
<1>10. Ended(bs2, st2)
  <2> SUFFICES ASSUME NEW i \in DOMAIN bs2, \A k \in DOMAIN st2 : st2[k] # i
               PROVE  \/ bs2[i].size > 0 /\ code[End(bs2[i]) - 1].op # "straight"
                      \/ Reached(bs2[i])
    BY DEF Ended
  <2>1. i \in DOMAIN bs /\ bs2[i] = bs[i] /\ \A k \in DOMAIN st : st[k] # i
    BY <1>2
  <2>. QED
    BY <2>1 DEF Walk, Ended
<1>11. Remembered(bs2, st2, owed \ {offset})
  <2>1. \A i \in DOMAIN bs2 : bs2[i].size = 0 => Covered(bs2, st2, bs2[i].base)
    BY <1>1, <1>2, <1>3, <1>4 DEF Walk, Remembered
  <2>2. ASSUME NEW i \in DOMAIN bs2, bs2[i].projected # NoProjection
        PROVE  \/ bs2[i].base + bs2[i].projected > CodeWords
               \/ bs2[i].base + bs2[i].projected \in owed \ {offset}
               \/ Covered(bs2, st2, bs2[i].base + bs2[i].projected)
    <3>1. CASE i = n
      BY <1>1, <1>2, <1>3, <1>4, <2>2, <3>1
    <3>2. CASE i # n
      <4>1. i \in DOMAIN bs /\ bs2[i] = bs[i]
        BY <1>2, <3>2
      <4>. QED
        BY <1>3, <1>4, <2>2, <4>1 DEF Walk, Remembered
    <3>. QED
      BY <3>1, <3>2
  <2>3. ASSUME NEW i \in DOMAIN bs2, NEW o \in Words(bs2[i]), NEW t \in Successors(o)
        PROVE  t \in owed \ {offset} \/ Covered(bs2, st2, t)
    <3>1. i \in DOMAIN bs /\ bs2[i] = bs[i]
      BY <1>1, <1>2, <2>3
    <3>. QED
      BY <1>3, <1>4, <2>3, <3>1 DEF Walk, Remembered
  <2>. QED
    BY <2>1, <2>2, <2>3 DEF Remembered
<1>. QED
  BY <1>5, <1>6, <1>7, <1>8, <1>9, <1>10, <1>11 DEF Walk, b, n, bs2, st2

-----------------------------------------------------------------------------
(* Decoding a word.                                                        *)

LEMMA LocalOffsets ==
  ASSUME NEW S, LocalSet(S)
  PROVE  S \in SUBSET Offsets /\ ClosedUnderFlow(S) /\ 0 \in S
BY LocalSetType DEF LocalSet, ClosedUnderFlow

LEMMA StackFacts ==
  ASSUME Inv, Looping
  PROVE  /\ Top(stack) \in DOMAIN blocks
         /\ Len(stack) \in DOMAIN stack /\ stack[Len(stack)] = Top(stack)
         /\ \A k \in DOMAIN stack :
              /\ stack[k] \in DOMAIN blocks
              /\ k # Len(stack) => k \in DOMAIN Pop(stack) /\ stack[k] # Top(stack)
         /\ \A k \in DOMAIN Pop(stack) :
              k \in DOMAIN stack /\ k # Len(stack) /\ Pop(stack)[k] = stack[k]
<1>1. /\ stack \in Seq(DOMAIN blocks) /\ stack # <<>> /\ blocks \in Seq(Block)
      /\ \A i, j \in DOMAIN stack : i < j => stack[i] < stack[j]
  BY DEF Inv, ScanInv, Shaped, Looping
<1>2. /\ Len(stack) \in Nat \ {0} /\ Len(stack) \in DOMAIN stack
      /\ DOMAIN stack = 1 .. Len(stack) /\ DOMAIN Pop(stack) = 1 .. Len(stack) - 1
      /\ \A k \in DOMAIN Pop(stack) : Pop(stack)[k] = stack[k]
  BY <1>1, PopType
<1>3. \A k \in DOMAIN stack : stack[k] \in DOMAIN blocks /\ stack[k] \in Int
  BY <1>1
<1>4. ASSUME NEW k \in DOMAIN stack, k # Len(stack)
      PROVE  k \in DOMAIN Pop(stack) /\ stack[k] # stack[Len(stack)]
  <2>1. k < Len(stack)
    BY <1>2, <1>4
  <2>2. k \in DOMAIN Pop(stack)
    BY <1>2, <1>4
  <2>3. stack[k] < stack[Len(stack)]
    BY <1>1, <1>2, <2>1
  <2>4. stack[k] \in Int /\ stack[Len(stack)] \in Int
    BY <1>2, <1>3
  <2>. QED
    BY <2>2, <2>3, <2>4
<1>. QED
  BY <1>2, <1>3, <1>4 DEF Top

LEMMA DecodedProjection ==
  ASSUME Inv, Looping, NEW bs \in Decoded
  PROVE  /\ bs[Top(stack)].projected \in {Current.projected, NoProjection}
         /\ bs = Grown => bs[Top(stack)].projected = Current.projected
<1>1. blocks \in Seq(Block) /\ Top(stack) \in DOMAIN blocks /\ Current \in Block
  BY CursorIsReadable
<1>2. /\ DOMAIN Grown = DOMAIN blocks
      /\ Grown[Top(stack)] = [Current EXCEPT !.size = @ + 1]
  BY <1>1 DEF Grown, Current
<1>3. [Current EXCEPT !.size = @ + 1].projected = Current.projected
  BY <1>1 DEF Block
<1>4. "projected" \in DOMAIN [Current EXCEPT !.size = @ + 1]
  BY <1>1 DEF Block
<1>5. [Grown EXCEPT ![Top(stack)].projected = NoProjection][Top(stack)].projected = NoProjection
  BY <1>1, <1>2, <1>4
<1>. QED
  BY <1>2, <1>3, <1>5 DEF Decoded

LEMMA PopCovered ==
  ASSUME Inv, Looping, NEW bs, NEW o, Covered(bs, Pop(stack), o)
  PROVE  Covered(bs, stack, o)
BY StackFacts DEF Covered

\* What a decoding step leaves of the walk, whatever it does to the stack.
LEMMA DecodedWalk ==
  ASSUME Inv, ReachInv, Looping, ~HasReachedProjection, NEW S, LocalSet(S),
         Walk(blocks, stack, S, {}), NEW bs \in Decoded
  PROVE  /\ cursor \in S
         /\ Words(bs[Top(stack)]) = Words(Current) \cup {cursor}
         /\ End(bs[Top(stack)]) = cursor + 1 /\ bs[Top(stack)].size \in Nat \ {0}
         /\ \A i \in DOMAIN bs : bs[i].base \in S
         /\ Projected(bs) /\ Duplicates(bs) /\ StraightRuns(bs)
         /\ \A o : Covered(blocks, stack, o) => Covered(bs, Pop(stack), o)
<1> DEFINE t == Top(stack)
<1>1. /\ cursor \in Offsets /\ cursor = End(Current) /\ Current \in Block
      /\ t \in DOMAIN blocks /\ blocks \in Seq(Block)
  BY CursorIsReadable
<1>2. /\ bs \in Seq(Block) /\ DOMAIN bs = DOMAIN blocks
      /\ \A i \in DOMAIN blocks : i # t => bs[i] = blocks[i]
      /\ bs[t].base = Current.base /\ bs[t].size = Current.size + 1
      /\ bs[t].projected \in {Current.projected, NoProjection}
  BY DecodedBlocks, DecodedProjection
<1>3. cursor \in S
  BY DecodedSound, LocalOffsets
<1>4. /\ Current.base \in Int /\ Current.size \in Nat
      /\ cursor = Current.base + Current.size /\ cursor \in Int
  BY <1>1 DEF Block, End
<1>5. Words(bs[t]) = Words(Current) \cup {cursor} /\ End(bs[t]) = cursor + 1
  BY <1>2, <1>4 DEF Words, End
<1>6. \A i \in DOMAIN bs : bs[i].base \in S
  BY <1>2 DEF Walk, Inside, Current
<1>7. Projected(bs)
  <2> SUFFICES ASSUME NEW i \in DOMAIN bs, bs[i].projected # NoProjection
               PROVE  /\ bs[i].projected < Modulus /\ bs[i].size <= bs[i].projected
                      /\ bs[i].base > 0 /\ code[bs[i].base - 1].op \in {"bc", "b"}
    BY DEF Projected
  <2>1. CASE i # t
    BY <1>2, <2>1 DEF Walk, Projected
  <2>2. CASE i = t
    <3>1. bs[t].projected = Current.projected /\ Current.projected # NoProjection
      BY <1>2, <2>2
    <3>2. Current.projected \in Nat /\ Current.size < Current.projected
      BY <1>1, <1>4, <3>1 DEF HasReachedProjection, Block
    <3>3. /\ Current.projected < Modulus /\ Current.base > 0
          /\ code[Current.base - 1].op \in {"bc", "b"}
      BY <1>1, <3>1 DEF Walk, Projected, Current
    <3>. QED
      BY <1>2, <1>4, <2>2, <3>1, <3>2, <3>3
  <2>. QED
    BY <2>1, <2>2
<1>8. Duplicates(bs)
  <2>1. \A i \in DOMAIN bs : bs[i].base = blocks[i].base
    BY <1>2 DEF Current
  <2>. QED
    BY <1>2, <2>1 DEF Walk, Duplicates
<1>9. StraightRuns(bs)
  <2> SUFFICES ASSUME NEW i \in DOMAIN bs, NEW o \in Words(bs[i]), o + 1 < End(bs[i])
               PROVE  code[o].op = "straight"
    BY DEF StraightRuns
  <2>1. CASE i # t
    BY <1>2, <2>1 DEF Walk, StraightRuns
  <2>2. CASE i = t
    <3>1. o \in Words(Current) /\ o \in Int /\ o < cursor
      BY <1>4, <1>5, <2>2 DEF Words
    <3>2. CASE o + 1 < End(Current)
      BY <1>1, <3>1, <3>2 DEF Walk, StraightRuns, Current
    <3>3. CASE o + 1 >= End(Current)
      <4>1. o = End(Current) - 1 /\ Current.size > 0
        BY <1>1, <1>4, <3>1, <3>3 DEF Words
      <4>2. Resumable(blocks, stack)
        BY DEF Walk
      <4>3. code[End(Current) - 1].op = "straight"
        BY <4>1, <4>2, StackFacts DEF Resumable, Current
      <4>. QED
        BY <4>1, <4>3
    <3>. QED
      BY <1>1, <1>4, <3>1, <3>2, <3>3
  <2>. QED
    BY <2>1, <2>2
<1>10. ASSUME NEW o, Covered(blocks, stack, o)
       PROVE  Covered(bs, Pop(stack), o)
  <2>1. CASE \E i \in DOMAIN blocks : o \in Words(blocks[i])
    <3>1. PICK i \in DOMAIN blocks : o \in Words(blocks[i])
      BY <2>1
    <3>2. o \in Words(bs[i])
      BY <1>2, <1>5, <3>1 DEF Current
    <3>. QED
      BY <1>2, <3>2 DEF Covered
  <2>2. CASE \E k \in DOMAIN stack : End(blocks[stack[k]]) = o /\ ~Reached(blocks[stack[k]])
    <3>1. PICK k \in DOMAIN stack : End(blocks[stack[k]]) = o /\ ~Reached(blocks[stack[k]])
      BY <2>2
    <3>2. CASE k = Len(stack)
      <4>1. o = cursor
        BY <1>1, <3>1, <3>2, StackFacts DEF Current
      <4>2. o \in Words(bs[t])
        BY <1>5, <4>1
      <4>. QED
        BY <1>1, <1>2, <4>2 DEF Covered
    <3>3. CASE k # Len(stack)
      <4>1. /\ k \in DOMAIN Pop(stack) /\ Pop(stack)[k] = stack[k]
            /\ stack[k] # t /\ stack[k] \in DOMAIN blocks
        BY <3>3, StackFacts
      <4>2. bs[Pop(stack)[k]] = blocks[stack[k]]
        BY <1>2, <4>1
      <4>. QED
        BY <3>1, <4>1, <4>2 DEF Covered
    <3>. QED
      BY <3>2, <3>3
  <2>. QED
    BY <1>10, <2>1, <2>2 DEF Covered
<1>. QED
  BY <1>2, <1>3, <1>4, <1>5, <1>6, <1>7, <1>8, <1>9, <1>10

\* What is owed when a word is decoded is where control goes from there.
LEMMA DecodedRemembered ==
  ASSUME Inv, ReachInv, Looping, ~HasReachedProjection, NEW S, LocalSet(S),
         Walk(blocks, stack, S, {}), NEW bs \in Decoded
  PROVE  Remembered(bs, Pop(stack), Successors(cursor))
<1> DEFINE t == Top(stack)
<1>1. /\ DOMAIN bs = DOMAIN blocks /\ t \in DOMAIN blocks
      /\ \A i \in DOMAIN blocks : i # t => bs[i] = blocks[i]
      /\ bs[t].base = Current.base
      /\ bs[t].projected \in {Current.projected, NoProjection}
  BY CursorIsReadable, DecodedBlocks, DecodedProjection
<1>2. /\ \A o : Covered(blocks, stack, o) => Covered(bs, Pop(stack), o)
      /\ Words(bs[t]) = Words(Current) \cup {cursor} /\ bs[t].size # 0
  BY DecodedWalk
<1>3. Remembered(blocks, stack, {})
  BY DEF Walk
<1>4. ASSUME NEW i \in DOMAIN bs, bs[i].size = 0
      PROVE  Covered(bs, Pop(stack), bs[i].base)
  BY <1>1, <1>2, <1>3, <1>4 DEF Remembered
<1>5. ASSUME NEW i \in DOMAIN bs, bs[i].projected # NoProjection
      PROVE  \/ bs[i].base + bs[i].projected > CodeWords
             \/ Covered(bs, Pop(stack), bs[i].base + bs[i].projected)
  <2>1. bs[i].base = blocks[i].base /\ bs[i].projected = blocks[i].projected
    BY <1>1, <1>5 DEF Current
  <2>. QED
    BY <1>1, <1>2, <1>3, <1>5, <2>1 DEF Remembered
<1>6. ASSUME NEW i \in DOMAIN bs, NEW o \in Words(bs[i]), NEW u \in Successors(o)
      PROVE  u \in Successors(cursor) \/ Covered(bs, Pop(stack), u)
  <2>1. o = cursor \/ o \in Words(blocks[i])
    BY <1>1, <1>2, <1>6 DEF Current
  <2>. QED
    BY <1>1, <1>2, <1>3, <1>6, <2>1 DEF Remembered
<1>. QED
  BY <1>4, <1>5, <1>6 DEF Remembered

\* A word that ends its block takes it from the stack.
LEMMA ClosedWalk ==
  ASSUME Inv, ReachInv, Looping, ~HasReachedProjection, NEW S, LocalSet(S),
         Walk(blocks, stack, S, {}), NEW bs \in Decoded, code[cursor].op # "straight"
  PROVE  Walk(bs, Pop(stack), S, Successors(cursor))
<1> DEFINE t == Top(stack)
<1>1. /\ DOMAIN bs = DOMAIN blocks /\ t \in DOMAIN blocks
      /\ \A i \in DOMAIN blocks : i # t => bs[i] = blocks[i]
  BY CursorIsReadable, DecodedBlocks
<1>2. /\ cursor \in S /\ End(bs[t]) = cursor + 1 /\ bs[t].size \in Nat \ {0}
      /\ \A i \in DOMAIN bs : bs[i].base \in S
      /\ Projected(bs) /\ Duplicates(bs) /\ StraightRuns(bs)
  BY DecodedWalk
<1>3. \A k \in DOMAIN Pop(stack) :
        k \in DOMAIN stack /\ Pop(stack)[k] = stack[k] /\ bs[stack[k]] = blocks[stack[k]]
  BY <1>1, StackFacts
<1>4. Inside(bs, Pop(stack), S)
  BY <1>2, <1>3 DEF Walk, Inside
<1>5. Resumable(bs, Pop(stack))
  BY <1>3 DEF Walk, Resumable
<1>6. Ended(bs, Pop(stack))
  <2> SUFFICES ASSUME NEW i \in DOMAIN bs, \A k \in DOMAIN Pop(stack) : Pop(stack)[k] # i
               PROVE  \/ bs[i].size > 0 /\ code[End(bs[i]) - 1].op # "straight"
                      \/ Reached(bs[i])
    BY DEF Ended
  <2>1. CASE i = t
    BY <1>2, <2>1, LocalSetType
  <2>2. CASE i # t
    <3>1. \A k \in DOMAIN stack : stack[k] # i
      BY <2>2, StackFacts
    <3>. QED
      BY <1>1, <2>2, <3>1 DEF Walk, Ended
  <2>. QED
    BY <2>1, <2>2
<1>. QED
  BY <1>2, <1>4, <1>5, <1>6, DecodedRemembered DEF Walk

-----------------------------------------------------------------------------
(* The steps.                                                              *)

LEMMA UnsignedDifference ==
  ASSUME NEW x \in 0 .. CodeWords, NEW y \in 0 .. CodeWords
  PROVE  /\ Unsigned(x - y) \in Nat /\ Unsigned(x - y) < Modulus
         /\ x >= y => Unsigned(x - y) = x - y
         /\ x < y => y + Unsigned(x - y) > CodeWords
         /\ x # y => Unsigned(x - y) # 0
<1> DEFINE d == x - y
           q == d \div Modulus
<1>1. Modulus \in Nat \ {0} /\ CodeWords \in Nat /\ CodeWords + 1 < Modulus
  BY AnalyzerAssumption
<1>2. /\ q \in Int /\ d % Modulus \in 0 .. Modulus - 1
      /\ d = Modulus * q + (d % Modulus)
  BY <1>1
<1>3. d \in Int /\ -Modulus < d /\ d < Modulus
  BY <1>1
<1>. HIDE DEF q
<1>4. q \in Int /\ Modulus \in Nat => /\ q >= 1 => Modulus * q >= Modulus
                                      /\ q <= -2 => Modulus * q <= -(2 * Modulus)
  OBVIOUS
<1>5. q = 0 \/ q = -1
  <2>. HIDE DEF d
  <2>. QED
    BY <1>1, <1>2, <1>3, <1>4
<1>6. d % Modulus = d \/ d % Modulus = d + Modulus
  <2>. HIDE DEF d
  <2>. QED
    BY <1>1, <1>2, <1>3, <1>5
<1>. QED
  BY <1>1, <1>2, <1>6 DEF Unsigned

\* Visit settles what is owed at the offset it is given.
LEMMA VisitWalk ==
  ASSUME NEW bs, NEW st, Shaped(bs, st), NEW S, LocalSet(S), NEW owed, Walk(bs, st, S, owed),
         NEW offset \in S, NEW projection \in Nat \cup {NoProjection}, NEW address,
         \/ address = Base + offset
         \/ ~(address >= Base) /\ code[offset - 1].op = "condreturn",
         projection # NoProjection =>
           /\ projection < Modulus /\ offset > 0 /\ code[offset - 1].op \in {"bc", "b"}
           /\ \/ offset + projection > CodeWords
              \/ offset + projection \in owed
              \/ Covered(bs, st, offset + projection),
         projection = 0 => Covered(bs, st, offset)
  PROVE  LET v == Visit([blocks |-> bs, stack |-> st], address, offset, projection)
         IN  Walk(v.blocks, v.stack, S, owed \ {offset})
<1> DEFINE w == [blocks |-> bs, stack |-> st]
           v == Visit(w, address, offset, projection)
<1> SUFFICES Walk(v.blocks, v.stack, S, owed \ {offset})
  OBVIOUS
<1>1. offset \in Int
  BY LocalSetType
<1>2. CASE Found(bs, address)
  <2>1. v.blocks = bs /\ v.stack = st
    BY <1>2 DEF Visit
  <2>2. address = Base + offset
    BY <1>2 DEF Found
  <2>3. Covered(bs, st, offset)
    BY <1>1, <1>2, <2>2, FoundCovered DEF Walk
  <2>4. Walk(bs, st, S, owed \ {offset})
    BY <2>3 DEF Walk, Remembered
  <2>. HIDE DEF v
  <2>. QED
    BY <2>1, <2>4
<1>3. CASE ~Found(bs, address)
  <2>1. v.blocks = Append(bs, Fresh(offset, projection)) /\ v.stack = Append(st, Len(bs) + 1)
    BY <1>3 DEF Visit
  <2>2. ~Found(bs, Base + offset) \/ code[offset - 1].op = "condreturn"
    BY <1>3
  <2>3. Walk(Append(bs, Fresh(offset, projection)), Append(st, Len(bs) + 1), S, owed \ {offset})
    BY <2>2, OpenWalk
  <2>. HIDE DEF v
  <2>. QED
    BY <2>1, <2>3
<1>. QED
  BY <1>2, <1>3

\* A walk that is carried on.
LEMMA ContinueWalk ==
  ASSUME Looping, NEW bs, NEW st, Continue([blocks |-> bs, stack |-> st]),
         \A S \in SUBSET Offsets : LocalSet(S) => Walk(bs, st, S, {})
  PROVE  WalkInv'
<1>1. blocks' = bs /\ stack' = st /\ code' = code
  BY DEF Continue
<1>2. \A S : LocalSet(S)' <=> LocalSet(S)
  BY <1>1 DEF LocalSet, ClosedUnderFlow, Successors
<1>3. \A S : Walk(blocks, stack, S, {})' <=> Walk(bs, st, S, {})
  BY <1>1 DEF Walk, Inside, Projected, Duplicates, StraightRuns, Resumable, Ended,
              Remembered, Covered, Successors
<1>. QED
  BY <1>2, <1>3 DEF WalkInv

LEMMA FallThroughWalk ==
  ASSUME Inv, FallThrough, NEW S, LocalSet(S), Walk(blocks, stack, S, {})
  PROVE  Walk(blocks, Pop(stack), S, {})
<1> DEFINE t == Top(stack)
<1>1. Looping /\ HasReachedProjection
  BY DEF FallThrough
<1>2. /\ blocks \in Seq(Block) /\ t \in DOMAIN blocks /\ Current \in Block
      /\ Reached(blocks[t])
  BY <1>1, CursorIsReadable DEF HasReachedProjection, Reached, Current
<1>3. \A k \in DOMAIN Pop(stack) :
        k \in DOMAIN stack /\ k # Len(stack) /\ Pop(stack)[k] = stack[k]
  BY <1>1, StackFacts
<1>4. \A o : Covered(blocks, stack, o) => Covered(blocks, Pop(stack), o)
  <2> SUFFICES ASSUME NEW o, NEW k \in DOMAIN stack,
                      End(blocks[stack[k]]) = o, ~Reached(blocks[stack[k]])
               PROVE  Covered(blocks, Pop(stack), o)
    BY DEF Covered
  <2>1. k # Len(stack)
    BY <1>1, <1>2, StackFacts
  <2>2. k \in DOMAIN Pop(stack) /\ Pop(stack)[k] = stack[k]
    BY <1>1, <2>1, StackFacts
  <2>. QED
    BY <2>2 DEF Covered
<1>5. Inside(blocks, Pop(stack), S) /\ Resumable(blocks, Pop(stack))
  BY <1>3 DEF Walk, Inside, Resumable
<1>6. Ended(blocks, Pop(stack))
  <2> SUFFICES ASSUME NEW i \in DOMAIN blocks, i # t,
                      \A k \in DOMAIN Pop(stack) : Pop(stack)[k] # i
               PROVE  \/ blocks[i].size > 0 /\ code[End(blocks[i]) - 1].op # "straight"
                      \/ Reached(blocks[i])
    BY <1>2 DEF Ended
  <2>1. \A k \in DOMAIN stack : stack[k] # i
    BY <1>1, StackFacts
  <2>. QED
    BY <2>1 DEF Walk, Ended
<1>7. Remembered(blocks, Pop(stack), {})
  BY <1>4 DEF Walk, Remembered
<1>. QED
  BY <1>5, <1>6, <1>7 DEF Walk

LEMMA StraightWalk ==
  ASSUME Inv, ReachInv, Straight, NEW S, LocalSet(S), Walk(blocks, stack, S, {})
  PROVE  Walk(Grown, stack, S, {})
<1> DEFINE t == Top(stack)
<1>1. Looping /\ ~HasReachedProjection /\ code[cursor].op = "straight" /\ Grown \in Decoded
  BY DEF Straight, Decoding, Decoded
<1>2. /\ DOMAIN Grown = DOMAIN blocks /\ t \in DOMAIN blocks
      /\ \A i \in DOMAIN blocks : i # t => Grown[i] = blocks[i]
  BY <1>1, CursorIsReadable, DecodedBlocks
<1>3. /\ cursor \in S /\ End(Grown[t]) = cursor + 1 /\ Grown[t].size \in Nat \ {0}
      /\ \A i \in DOMAIN Grown : Grown[i].base \in S
      /\ Projected(Grown) /\ Duplicates(Grown) /\ StraightRuns(Grown)
      /\ \A o : Covered(blocks, stack, o) => Covered(Grown, Pop(stack), o)
  BY <1>1, DecodedWalk
<1>4. Successors(cursor) = {cursor + 1}
  BY <1>1 DEF Successors
<1>5. cursor + 1 \in S
  BY <1>3, <1>4 DEF LocalSet
<1>6. Inside(Grown, stack, S)
  <2> SUFFICES ASSUME NEW k \in DOMAIN stack PROVE End(Grown[stack[k]]) \in S
    BY <1>3 DEF Inside
  <2>1. CASE stack[k] = t
    BY <1>3, <1>5, <2>1
  <2>2. CASE stack[k] # t
    <3>1. stack[k] \in DOMAIN blocks
      BY <1>1, StackFacts
    <3>. QED
      BY <1>2, <2>2, <3>1 DEF Walk, Inside
  <2>. QED
    BY <2>1, <2>2
<1>7. Resumable(Grown, stack)
  <2> SUFFICES ASSUME NEW k \in DOMAIN stack, Grown[stack[k]].size > 0
               PROVE  code[End(Grown[stack[k]]) - 1].op = "straight"
    BY DEF Resumable
  <2>1. CASE stack[k] = t
    BY <1>1, <1>3, <2>1, LocalSetType
  <2>2. CASE stack[k] # t
    <3>1. stack[k] \in DOMAIN blocks
      BY <1>1, StackFacts
    <3>. QED
      BY <1>2, <2>2, <3>1 DEF Walk, Resumable
  <2>. QED
    BY <2>1, <2>2
<1>8. Ended(Grown, stack)
  <2> SUFFICES ASSUME NEW i \in DOMAIN Grown, \A k \in DOMAIN stack : stack[k] # i
               PROVE  \/ Grown[i].size > 0 /\ code[End(Grown[i]) - 1].op # "straight"
                      \/ Reached(Grown[i])
    BY DEF Ended
  <2>1. i # t
    BY <1>1, StackFacts
  <2>. QED
    BY <1>2, <2>1 DEF Walk, Ended
<1>9. Covered(Grown, stack, cursor + 1)
  <2>1. CASE ~Reached(Grown[t])
    <3>1. Len(stack) \in DOMAIN stack /\ stack[Len(stack)] = t
      BY <1>1, StackFacts
    <3>. QED
      BY <1>3, <2>1, <3>1 DEF Covered
  <2>2. CASE Reached(Grown[t])
    <3>1. /\ Grown[t].projected # NoProjection
          /\ Grown[t].projected = Current.projected
      BY <1>1, <2>2, DecodedProjection DEF Reached
    <3>2. /\ Grown \in Seq(Block) /\ Grown[t].base = Current.base /\ Grown[t] \in Block
      BY <1>1, <1>2, DecodedBlocks
    <3>3. Grown[t].size = Grown[t].projected
      <4>1. Grown[t].size <= Grown[t].projected /\ Grown[t].size >= Grown[t].projected
        BY <1>2, <1>3, <2>2, <3>1 DEF Projected, Reached
      <4>2. Grown[t].size \in Nat /\ Grown[t].projected \in Nat
        BY <3>1, <3>2 DEF Block
      <4>. QED
        BY <4>1, <4>2
    <3>4. Current.base + Current.projected = cursor + 1
      BY <1>3, <3>1, <3>2, <3>3 DEF End
    <3>5. ~(Current.base + Current.projected > CodeWords)
      BY <1>5, <3>4, LocalSetType
    <3>6. Covered(blocks, stack, Current.base + Current.projected)
      BY <1>2, <3>1, <3>5 DEF Walk, Remembered, Current
    <3>. QED
      BY <1>1, <1>3, <3>4, <3>6, PopCovered
  <2>. QED
    BY <2>1, <2>2
<1>10. Remembered(Grown, stack, {})
  <2>1. Remembered(Grown, Pop(stack), {cursor + 1})
    BY <1>1, <1>4, DecodedRemembered
  <2>2. \A o : Covered(Grown, Pop(stack), o) => Covered(Grown, stack, o)
    BY <1>1, PopCovered
  <2>. QED
    BY <1>9, <2>1, <2>2 DEF Remembered
<1>. QED
  BY <1>3, <1>6, <1>7, <1>8, <1>10 DEF Walk

\* The section is loaded at an address above its own length, so no offset is
\* taken for an address: images start at 0x82000000.
LoadedHigh == CodeWords <= Base

LEMMA CondBranchWalk ==
  ASSUME Inv, ReachInv, WalkInv, CondBranch
  PROVE  WalkInv'
<1> DEFINE t         == Top(stack)
           left      == cursor + 1
           right     == code[cursor].target
           bs        == [Grown EXCEPT ![t].projected = NoProjection]
           closed    == [blocks |-> bs, stack |-> Pop(stack)]
           falseCase == Visit(closed, Base + left, left, Unsigned(right - left))
           v         == Visit(falseCase, Base + right, right, NoProjection)
<1>1. /\ Looping /\ ~HasReachedProjection /\ code[cursor].op = "bc" /\ pc = "scan"
      /\ bs \in Decoded /\ Continue(v)
  BY DEF CondBranch, Decoding, Looping, Decoded
<1>2. /\ left \in Int /\ left >= MemoryStart /\ right \in Int /\ right >= MemoryStart
  BY <1>1, TargetType
<1>3. Shaped(bs, Pop(stack))
  BY <1>1, DecodedShaped
<1>4. Unsigned(right - left) \in Nat
  BY <1>2, UnsignedType
<1>5. falseCase = [blocks |-> falseCase.blocks, stack |-> falseCase.stack]
      /\ Shaped(falseCase.blocks, falseCase.stack)
  <2>. HIDE DEF bs, left
  <2>. QED
    BY <1>2, <1>3, <1>4, VisitShaped
<1>6. v = [blocks |-> v.blocks, stack |-> v.stack] /\ Shaped(v.blocks, v.stack)
  <2>. HIDE DEF falseCase, right
  <2>. QED
    BY <1>2, <1>5, VisitShaped
<1>7. ASSUME NEW S \in SUBSET Offsets, LocalSet(S)
      PROVE  Walk(v.blocks, v.stack, S, {})
  <2>1. cursor \in S /\ Successors(cursor) = {left, right}
    BY <1>1, <1>7, DecodedWalk DEF WalkInv, Successors
  <2>2. left \in S /\ right \in S /\ right # left
    BY <1>1, <1>7, <2>1 DEF LocalSet
  <2>3. /\ left \in 0 .. CodeWords /\ right \in 0 .. CodeWords /\ left > 0
        /\ code[left - 1].op = "bc"
    BY <1>1, <1>7, <2>1, <2>2, LocalSetType
  <2>4. Walk(bs, Pop(stack), S, {left, right})
    BY <1>1, <1>7, <2>1, ClosedWalk DEF WalkInv
  <2>5. /\ Unsigned(right - left) < Modulus /\ Unsigned(right - left) # 0
        /\ \/ left + Unsigned(right - left) > CodeWords
           \/ left + Unsigned(right - left) \in {left, right}
    <3>1. CASE right >= left
      BY <2>2, <2>3, <3>1, UnsignedDifference
    <3>2. CASE right < left
      BY <2>2, <2>3, <3>2, UnsignedDifference
    <3>. QED
      BY <1>2, <3>1, <3>2
  <2>6. Walk(falseCase.blocks, falseCase.stack, S, {left, right} \ {left})
    <3>. HIDE DEF bs, left, right
    <3>. QED
      BY <1>3, <1>4, <1>7, <2>2, <2>3, <2>4, <2>5, VisitWalk
  <2>7. Walk(v.blocks, v.stack, S, ({left, right} \ {left}) \ {right})
    <3> DEFINE owed == {left, right} \ {left}
    <3>1. NoProjection # 0
      BY DEF NoProjection
    <3>. HIDE DEF falseCase, left, right, owed
    <3>2. Walk(falseCase.blocks, falseCase.stack, S, owed)
      BY <2>6 DEF owed
    <3>3. Walk(v.blocks, v.stack, S, owed \ {right})
      BY <1>5, <1>7, <2>2, <3>1, <3>2, VisitWalk
    <3>. QED
      BY <3>3 DEF owed
  <2>8. ({left, right} \ {left}) \ {right} = {}
    OBVIOUS
  <2>. QED
    BY <2>7, <2>8
<1>. HIDE DEF v
<1>. QED
  BY <1>1, <1>6, <1>7, ContinueWalk

LEMMA BranchWalk ==
  ASSUME Inv, ReachInv, WalkInv, Branch
  PROVE  WalkInv'
<1> DEFINE t       == Top(stack)
           target  == code[cursor].target
           closed  == [blocks |-> Grown, stack |-> Pop(stack)]
           ended   == Grown[t]
           carried == IF ended.projected # NoProjection /\ target = End(ended)
                      THEN Unsigned(ended.projected - ended.size)
                      ELSE NoProjection
           v       == Visit(closed, Base + target, target, carried)
<1>1. /\ Looping /\ ~HasReachedProjection /\ code[cursor].op = "b" /\ pc = "scan"
      /\ Grown \in Decoded /\ Continue(IF target < 0 THEN closed ELSE v)
  BY DEF Branch, Decoding, Looping, Decoded
<1>2. target \in Int /\ cursor \in Int
  BY <1>1, TargetType
<1>3. Shaped(Grown, Pop(stack))
  BY <1>1, DecodedShaped
<1>4. CASE target < 0
  <2>1. Continue([blocks |-> Grown, stack |-> Pop(stack)])
    BY <1>1, <1>4
  <2>2. Successors(cursor) = {}
    BY <1>1, <1>4 DEF Successors
  <2>3. \A S \in SUBSET Offsets : LocalSet(S) => Walk(Grown, Pop(stack), S, {})
    BY <1>1, <2>2, ClosedWalk DEF WalkInv
  <2>. QED
    BY <1>1, <2>1, <2>3, ContinueWalk
<1>5. CASE ~(target < 0)
  <2>1. /\ ended \in Block /\ ended.projected = Current.projected
        /\ ended.base = Current.base
        /\ DOMAIN Grown = DOMAIN blocks /\ t \in DOMAIN blocks
    BY <1>1, CursorIsReadable, DecodedBlocks, DecodedProjection
  <2>2. /\ ended.base \in Int /\ ended.size \in Nat
        /\ ended.projected \in Nat \cup {NoProjection}
    BY <2>1 DEF Block
  <2>3. carried \in Nat \cup {NoProjection}
    <3>. HIDE DEF ended, target
    <3>1. ended.projected # NoProjection => Unsigned(ended.projected - ended.size) \in Nat
      BY <2>2, UnsignedType
    <3>. QED
      BY <3>1
  <2>4. v = [blocks |-> v.blocks, stack |-> v.stack] /\ Shaped(v.blocks, v.stack)
    <3>1. target >= MemoryStart
      BY <1>2, <1>5, AnalyzerAssumption
    <3>. HIDE DEF carried, target
    <3>. QED
      BY <1>2, <1>3, <2>3, <3>1, VisitShaped
  <2>5. ASSUME NEW S \in SUBSET Offsets, LocalSet(S)
        PROVE  Walk(v.blocks, v.stack, S, {})
    <3>1. Successors(cursor) = {target}
      BY <1>1, <1>5 DEF Successors
    <3>2. /\ cursor \in S /\ End(ended) = cursor + 1 /\ Projected(Grown)
          /\ \A o : Covered(blocks, stack, o) => Covered(Grown, Pop(stack), o)
      BY <1>1, <2>5, DecodedWalk DEF WalkInv
    <3>3. target \in S /\ target \in 0 .. CodeWords /\ ~(target > CodeWords)
      <4>1. target \in S
        BY <2>5, <3>1, <3>2 DEF LocalSet
      <4>. HIDE DEF target
      <4>. QED
        BY <2>5, <4>1, LocalSetType
    <3>4. Walk(Grown, Pop(stack), S, {target})
      BY <1>1, <2>5, <3>1, ClosedWalk DEF WalkInv
    <3>5. ASSUME carried # NoProjection
          PROVE  /\ carried < Modulus /\ target > 0 /\ code[target - 1].op = "b"
                 /\ \/ target + carried > CodeWords
                    \/ Covered(Grown, Pop(stack), target + carried)
      <4>1. /\ ended.projected # NoProjection /\ target = cursor + 1
            /\ carried = Unsigned(ended.projected - ended.size)
        BY <3>2, <3>5
      <4>2. ended.projected < Modulus /\ ended.size <= ended.projected
        BY <2>1, <3>2, <4>1 DEF Projected
      <4>3. carried = ended.projected - ended.size
        <5>. HIDE DEF ended
        <5>1. ended.projected - ended.size \in 0 .. Modulus - 1
          BY <2>2, <4>1, <4>2, AnalyzerAssumption DEF NoProjection
        <5>2. \A x \in 0 .. Modulus - 1 : x % Modulus = x
          BY AnalyzerAssumption
        <5>. QED
          BY <4>1, <5>1, <5>2 DEF Unsigned
      <4>4. target + carried = Current.base + Current.projected
        <5>1. target = ended.base + ended.size
          BY <3>2, <4>1 DEF End
        <5>. HIDE DEF ended
        <5>. QED
          BY <2>1, <2>2, <4>1, <4>3, <5>1 DEF NoProjection
      <4>5. \/ Current.base + Current.projected > CodeWords
            \/ Covered(blocks, stack, Current.base + Current.projected)
        BY <1>1, <2>1, <2>5, <4>1 DEF WalkInv, Walk, Remembered, Current
      <4>6. carried < Modulus
        <5>. HIDE DEF ended, carried
        <5>. QED
          BY <2>2, <4>2, <4>3, <4>1, AnalyzerAssumption DEF NoProjection
      <4>7. target > 0 /\ target - 1 = cursor
        BY <2>5, <3>2, <4>1, LocalSetType
      <4>. QED
        BY <1>1, <3>2, <4>4, <4>5, <4>6, <4>7
    <3>6. carried = 0 => Covered(Grown, Pop(stack), target)
      <4>. HIDE DEF carried, target
      <4>. QED
        BY <3>3, <3>5 DEF NoProjection
    <3>7. Walk(v.blocks, v.stack, S, {target} \ {target})
      <4>. HIDE DEF carried, target
      <4>. QED
        BY <1>3, <2>3, <2>5, <3>3, <3>4, <3>5, <3>6, VisitWalk
    <3>. QED
      BY <3>7
  <2>6. Continue(v)
    BY <1>1, <1>5
  <2>. HIDE DEF v
  <2>. QED
    BY <1>1, <2>4, <2>5, <2>6, ContinueWalk
<1>. QED
  BY <1>4, <1>5

LEMMA CondReturnWalk ==
  ASSUME Inv, ReachInv, WalkInv, CondReturn, LoadedHigh
  PROVE  WalkInv'
<1> DEFINE left   == cursor + 1
           closed == [blocks |-> Grown, stack |-> Pop(stack)]
           v      == Visit(closed, left, left, NoProjection)
<1>1. /\ Looping /\ ~HasReachedProjection /\ code[cursor].op = "condreturn" /\ pc = "scan"
      /\ Grown \in Decoded /\ Continue(v)
  BY DEF CondReturn, Decoding, Looping, Decoded
<1>2. left \in Int /\ left >= MemoryStart
  BY <1>1, TargetType
<1>3. Shaped(Grown, Pop(stack))
  BY <1>1, DecodedShaped
<1>4. v = [blocks |-> v.blocks, stack |-> v.stack] /\ Shaped(v.blocks, v.stack)
  <2>. HIDE DEF left
  <2>. QED
    BY <1>2, <1>3, VisitShaped
<1>5. ASSUME NEW S \in SUBSET Offsets, LocalSet(S)
      PROVE  Walk(v.blocks, v.stack, S, {})
  <2>1. cursor \in S /\ Successors(cursor) = {left}
    BY <1>1, <1>5, DecodedWalk DEF WalkInv, Successors
  <2>2. left \in S
    BY <1>5, <2>1 DEF LocalSet
  <2>3. ~(left >= Base) /\ left - 1 = cursor
    BY <1>5, <2>1, <2>2, LocalSetType, AnalyzerAssumption DEF LoadedHigh
  <2>4. Walk(Grown, Pop(stack), S, {left})
    BY <1>1, <1>5, <2>1, ClosedWalk DEF WalkInv
  <2>5. code[left - 1].op = "condreturn"
    BY <1>1, <2>3
  <2>6. Walk(v.blocks, v.stack, S, {left} \ {left})
    <3>. HIDE DEF left
    <3>. QED
      BY <1>3, <1>5, <2>2, <2>3, <2>4, <2>5, VisitWalk DEF NoProjection
  <2>. QED
    BY <2>6
<1>. HIDE DEF v
<1>. QED
  BY <1>1, <1>4, <1>5, ContinueWalk

LEMMA NextWalk == LoadedHigh /\ Inv /\ ReachInv /\ WalkInv /\ [Next]_vars => WalkInv'
<1> SUFFICES ASSUME LoadedHigh, Inv, ReachInv, WalkInv, [Next]_vars PROVE WalkInv'
  OBVIOUS
<1>1. CASE UNCHANGED vars
  <2>1. blocks' = blocks /\ stack' = stack /\ code' = code /\ pc' = pc
    BY <1>1 DEF vars
  <2>2. \A S : LocalSet(S)' <=> LocalSet(S)
    BY <2>1 DEF LocalSet, ClosedUnderFlow, Successors
  <2>3. \A S : Walk(blocks, stack, S, {})' <=> Walk(blocks, stack, S, {})
    BY <2>1 DEF Walk, Inside, Projected, Duplicates, StraightRuns, Resumable, Ended,
                Remembered, Covered, Successors
  <2>. QED
    BY <2>1, <2>2, <2>3 DEF WalkInv
<1>2. CASE Enter
  <2> SUFFICES ASSUME pc' = "scan" PROVE WalkInv'
    BY DEF WalkInv
  <2> DEFINE b == Fresh(0, NoProjection)
  <2>1. blocks' = <<b>> /\ stack' = <<1>> /\ code' = code
    BY <1>2 DEF Enter
  <2>2. b.base = 0 /\ b.size = 0 /\ b.projected = NoProjection /\ End(b) = 0 /\ Words(b) = {}
    BY FreshType DEF Fresh, NoProjection
  <2>3. ASSUME NEW S, LocalSet(S)
        PROVE  Walk(<<b>>, <<1>>, S, {})
    <3>. HIDE DEF b
    <3>1. /\ DOMAIN <<b>> = {1} /\ <<b>>[1] = b /\ DOMAIN <<1>> = {1} /\ <<1>>[1] = 1
          /\ <<b>>[<<1>>[1]] = b
      OBVIOUS
    <3>2. 0 \in S
      BY <2>3, LocalOffsets
    <3>3. Covered(<<b>>, <<1>>, 0)
      BY <2>2, <3>1 DEF Covered, Reached
    <3>4. Inside(<<b>>, <<1>>, S)
      BY <2>2, <3>1, <3>2 DEF Inside
    <3>5. Projected(<<b>>) /\ StraightRuns(<<b>>) /\ Resumable(<<b>>, <<1>>)
      BY <2>2, <3>1 DEF Projected, StraightRuns, Resumable
    <3>6. Duplicates(<<b>>) /\ Ended(<<b>>, <<1>>)
      BY <3>1 DEF Duplicates, Ended
    <3>7. Remembered(<<b>>, <<1>>, {})
      BY <2>2, <3>1, <3>3 DEF Remembered
    <3>. QED
      BY <3>4, <3>5, <3>6, <3>7 DEF Walk
  <2>4. \A S : LocalSet(S)' <=> LocalSet(S)
    BY <2>1 DEF LocalSet, ClosedUnderFlow, Successors
  <2>5. \A S : Walk(blocks, stack, S, {})' <=> Walk(<<b>>, <<1>>, S, {})
    <3>. HIDE DEF b
    <3>. QED
      BY <2>1 DEF Walk, Inside, Projected, Duplicates, StraightRuns, Resumable, Ended,
                  Remembered, Covered, Successors
  <2>. QED
    BY <2>3, <2>4, <2>5 DEF WalkInv
<1>3. CASE FallThrough
  <2>1. /\ Looping /\ pc = "scan"
        /\ Continue([blocks |-> blocks, stack |-> Pop(stack)])
    BY <1>3 DEF FallThrough, Looping
  <2>. QED
    BY <1>3, <2>1, FallThroughWalk, ContinueWalk DEF WalkInv
<1>4. CASE Straight
  <2>1. Looping /\ pc = "scan" /\ Continue([blocks |-> Grown, stack |-> stack])
    BY <1>4 DEF Straight, Decoding, Looping
  <2>. QED
    BY <1>4, <2>1, StraightWalk, ContinueWalk DEF WalkInv
<1>5. CASE Return \/ Invalid
  <2>1. /\ Looping /\ pc = "scan" /\ ~HasReachedProjection /\ Grown \in Decoded
        /\ code[cursor].op \in {"return", "invalid"}
        /\ Continue([blocks |-> Grown, stack |-> Pop(stack)])
    BY <1>5 DEF Return, Invalid, Decoding, Looping, Decoded
  <2>2. Successors(cursor) = {}
    BY <2>1 DEF Successors
  <2>3. \A S \in SUBSET Offsets : LocalSet(S) => Walk(Grown, Pop(stack), S, {})
    BY <2>1, <2>2, ClosedWalk DEF WalkInv
  <2>. QED
    BY <2>1, <2>3, ContinueWalk
<1>6. CASE Finish \/ Terminated
  <2>1. pc' # "scan"
    BY <1>6 DEF Finish, Terminated, vars
  <2>. QED
    BY <2>1 DEF WalkInv
<1>. QED
  BY <1>1, <1>2, <1>3, <1>4, <1>5, <1>6, CondBranchWalk, BranchWalk, CondReturnWalk DEF Next

-----------------------------------------------------------------------------
(* Sorting and cutting.                                                    *)

\* Of a function with local flow, what was decoded is closed under flow when
\* the walk is over.
LEMMA DecodedClosed ==
  ASSUME Inv, ReachInv, BaseInv, WalkInv, Finish, NEW S \in SUBSET Offsets, LocalSet(S)
  PROVE  LET D == UNION {Words(blocks[i]) : i \in DOMAIN blocks}
         IN  stack = <<>> /\ D \in SUBSET Offsets /\ ClosedUnderFlow(D)
<1> DEFINE D == UNION {Words(blocks[i]) : i \in DOMAIN blocks}
<1>1. /\ pc = "scan" /\ (stack = <<>> \/ cursor > CodeWords)
      /\ Walk(blocks, stack, S, {})
  BY DEF Finish, WalkInv
<1>2. stack = <<>>
  <2> SUFFICES ASSUME stack # <<>> PROVE FALSE
    OBVIOUS
  <2>1. stack \in Seq(DOMAIN blocks) /\ cursor = End(blocks[Top(stack)])
    BY <1>1 DEF Inv, ScanInv, Shaped, SanityCheck, Current
  <2>2. Len(stack) \in DOMAIN stack
    BY <2>1, PopType
  <2>3. cursor \in S
    BY <1>1, <2>1, <2>2 DEF Walk, Inside, Top
  <2>. QED
    BY <1>1, <2>3, LocalSetType
<1>3. \A i \in DOMAIN blocks : Words(blocks[i]) \subseteq S
  BY <1>1, LocalOffsets DEF ReachInv, Sound
<1>4. D \in SUBSET Offsets
  BY <1>3
<1>5. \A o : Covered(blocks, stack, o) => o \in D
  BY <1>2 DEF Covered
<1>6. 0 \in D
  <2>1. 1 \in DOMAIN blocks /\ blocks[1].base = 0 /\ blocks[1] \in Block
    BY <1>1 DEF BaseInv, Inv, ScanInv, Shaped
  <2>2. CASE blocks[1].size = 0
    BY <1>1, <1>5, <2>1, <2>2 DEF Walk, Remembered
  <2>3. CASE blocks[1].size # 0
    <3>1. blocks[1].size \in Nat
      BY <2>1 DEF Block
    <3>2. 0 \in Words(blocks[1])
      BY <2>1, <2>3, <3>1 DEF Words, End
    <3>. QED
      BY <2>1, <3>2
  <2>. QED
    BY <2>2, <2>3
<1>7. ASSUME NEW o \in D, NEW u \in Successors(o)
      PROVE  u \in D
  <2>1. PICK i \in DOMAIN blocks : o \in Words(blocks[i])
    OBVIOUS
  <2>. HIDE DEF D
  <2>. QED
    BY <1>1, <1>5, <1>7, <2>1 DEF Walk, Remembered
<1>8. ClosedUnderFlow(D)
  <2>. HIDE DEF D
  <2>. QED
    BY <1>6, <1>7 DEF ClosedUnderFlow
<1>. QED
  BY <1>2, <1>4, <1>8

\* With local flow no offset wraps when the blocks are sorted.
LEMMA LocalBlocks ==
  ASSUME Inv, ReachInv, BaseInv, pc = "scan", NEW S, LocalSet(S), Inside(blocks, stack, S),
         NEW i \in DOMAIN blocks
  PROVE  /\ blocks[i].base \in Nat /\ blocks[i].size \in Nat
         /\ End(blocks[i]) = blocks[i].base + blocks[i].size /\ End(blocks[i]) \in Nat
         /\ SortKey(i) = blocks[i].base /\ Unsigned(End(blocks[i])) = End(blocks[i])
<1>1. blocks[i].base \in Int /\ blocks[i].base >= 0
  BY LocalSetType DEF Inside
<1>2. /\ blocks[i] \in Block /\ End(blocks[i]) \in Int
      /\ MemoryStart <= blocks[i].base /\ blocks[i].base <= End(blocks[i])
      /\ End(blocks[i]) < Ceiling
  BY BlockFacts
<1>3. blocks[i].size \in Nat /\ End(blocks[i]) = blocks[i].base + blocks[i].size
  BY <1>2 DEF Block, End
<1>4. MemoryStart \in Int /\ Ceiling \in Nat
  BY Small
<1>5. Unsigned(blocks[i].base) = blocks[i].base
  BY <1>1, <1>2, <1>4, Unwrapped
<1>6. Unsigned(End(blocks[i])) = End(blocks[i])
  BY <1>1, <1>2, <1>4, Unwrapped
<1>. QED
  BY <1>1, <1>3, <1>5, <1>6 DEF SortKey

\* What is cut off lies behind a hole, and in front of the hole no block that
\* is kept can reach over it: its words would be straight where a block ended.
LEMMA CutKeepsExtent ==
  ASSUME Inv, ReachInv, BaseInv, WalkInv, pc = "scan", stack = <<>>,
         NEW S \in SUBSET Offsets, LocalSet(S),
         NEW last \in LastOfBase, NEW m \in Kept(last),
         \A j \in Kept(last) : Unsigned(End(blocks[j])) <= Unsigned(End(blocks[m])),
         NEW j \in DOMAIN blocks
  PROVE  End(blocks[m]) \notin Words(blocks[j])
<1> SUFFICES ASSUME End(blocks[m]) \in Words(blocks[j]) PROVE FALSE
  OBVIOUS
<1>1. Walk(blocks, stack, S, {})
  BY DEF WalkInv
<1>2. \A i \in DOMAIN blocks :
        /\ blocks[i].base \in Nat /\ blocks[i].size \in Nat
        /\ End(blocks[i]) = blocks[i].base + blocks[i].size /\ End(blocks[i]) \in Nat
        /\ SortKey(i) = blocks[i].base /\ Unsigned(End(blocks[i])) = End(blocks[i])
  BY <1>1, LocalBlocks DEF Walk
<1>3. m \in DOMAIN blocks /\ blocks \in Seq(Block)
  BY DEF Kept, Inv, ScanInv, Shaped
<1>4. blocks[j].base <= End(blocks[m]) /\ End(blocks[m]) < End(blocks[j])
  BY <1>2, <1>3 DEF Words
<1>5. j \notin Kept(last)
  BY <1>2, <1>3, <1>4
<1>6. PICK g \in DOMAIN blocks : SortKey(g) <= SortKey(j) /\ IsDiscontinuity(g, last)
  BY <1>5 DEF Kept
<1>7. PICK p \in last :
        /\ SortKey(p) < SortKey(g)
        /\ \A i \in last : SortKey(i) <= SortKey(p) \/ SortKey(g) <= SortKey(i)
        /\ Unsigned(End(blocks[p])) < SortKey(g)
  BY <1>6 DEF IsDiscontinuity
<1>8. p \in DOMAIN blocks
  BY DEF LastOfBase
<1>9. ~(SortKey(g) <= SortKey(m))
  BY <1>6 DEF Kept
<1>10. PICK q \in last : SortKey(q) = SortKey(m)
  BY <1>3 DEF LastOfBase
<1>11. SortKey(m) <= SortKey(p)
  BY <1>7, <1>9, <1>10
<1>12. /\ blocks[m].base <= blocks[p].base /\ End(blocks[p]) < End(blocks[m])
       /\ blocks[p].base <= End(blocks[p])
  <2>1. /\ SortKey(g) = blocks[g].base /\ SortKey(m) = blocks[m].base
        /\ SortKey(p) = blocks[p].base /\ SortKey(j) = blocks[j].base
        /\ Unsigned(End(blocks[p])) = End(blocks[p])
    BY <1>2, <1>3, <1>6, <1>8
  <2>2. /\ blocks[m].base <= blocks[p].base
        /\ End(blocks[p]) < blocks[g].base /\ blocks[g].base <= End(blocks[m])
    <3>1. blocks[g].base <= blocks[j].base /\ blocks[g].base \in Nat /\ blocks[j].base \in Nat
      BY <1>2, <1>6, <2>1
    <3>2. End(blocks[m]) \in Nat
      BY <1>2, <1>3
    <3>. QED
      BY <1>4, <1>7, <1>11, <2>1, <3>1, <3>2
  <2>3. blocks[p].base <= End(blocks[p])
    <3>1. /\ blocks[p].base \in Nat /\ blocks[p].size \in Nat
          /\ End(blocks[p]) = blocks[p].base + blocks[p].size
      BY <1>2, <1>8
    <3>. QED
      BY <3>1
  <2>4. End(blocks[m]) \in Nat /\ End(blocks[p]) \in Nat /\ blocks[g].base \in Nat
    BY <1>2, <1>3, <1>6, <1>8
  <2>. QED
    BY <2>2, <2>3, <2>4
<1>13. \A o \in Nat : blocks[m].base <= o /\ o + 1 < End(blocks[m]) => code[o].op = "straight"
  <2> SUFFICES ASSUME NEW o \in Nat, blocks[m].base <= o, o + 1 < End(blocks[m])
               PROVE  code[o].op = "straight"
    OBVIOUS
  <2>1. o \in Words(blocks[m])
    BY <1>2, <1>3 DEF Words
  <2>. QED
    BY <1>1, <1>3, <2>1 DEF Walk, StraightRuns
<1>14. CASE blocks[p].size > 0 /\ code[End(blocks[p]) - 1].op # "straight"
  <2>1. /\ End(blocks[p]) - 1 \in Nat /\ blocks[m].base <= End(blocks[p]) - 1
        /\ (End(blocks[p]) - 1) + 1 < End(blocks[m])
    <3>1. /\ blocks[p].base \in Nat /\ blocks[p].size \in Nat /\ blocks[m].base \in Nat
          /\ End(blocks[p]) = blocks[p].base + blocks[p].size
          /\ End(blocks[p]) \in Nat /\ End(blocks[m]) \in Nat
      BY <1>2, <1>3, <1>8
    <3>. QED
      BY <1>12, <1>14, <3>1
  <2>. QED
    BY <1>13, <1>14, <2>1
<1>15. CASE Reached(blocks[p])
  <2>1. blocks[p].base > 0 /\ code[blocks[p].base - 1].op \in {"bc", "b"}
    BY <1>1, <1>8, <1>15 DEF Reached, Walk, Projected
  <2>2. CASE blocks[m].base < blocks[p].base
    <3>1. /\ blocks[p].base - 1 \in Nat /\ blocks[m].base <= blocks[p].base - 1
          /\ (blocks[p].base - 1) + 1 < End(blocks[m])
      <4>1. /\ blocks[p].base \in Nat /\ blocks[m].base \in Nat
            /\ End(blocks[p]) \in Nat /\ End(blocks[m]) \in Nat
        BY <1>2, <1>3, <1>8
      <4>. QED
        BY <1>12, <2>1, <2>2, <4>1
    <3>. QED
      BY <1>13, <2>1, <3>1
  <2>3. CASE blocks[m].base = blocks[p].base
    <3>1. m # p
      BY <1>2, <1>3, <1>12
    <3>2. m < p \/ p < m
      BY <1>3, <1>8, <3>1
    <3>3. code[blocks[p].base - 1].op = "condreturn"
      BY <1>1, <1>3, <1>8, <2>3, <3>2 DEF Walk, Duplicates
    <3>. QED
      BY <2>1, <3>3
  <2>. QED
    BY <1>2, <1>3, <1>8, <1>12, <2>2, <2>3
<1>16. \A k \in DOMAIN stack : stack[k] # p
  OBVIOUS
<1>. QED
  BY <1>1, <1>8, <1>14, <1>15, <1>16 DEF Walk, Ended

\* The extent of a function with local flow.
CompleteInv ==
  pc = "done" /\ ~IsShiftedTailCall /\ LocalFlow =>
    \E S \in SUBSET Offsets : ClosedUnderFlow(S) /\ size \notin S

LEMMA LocalFlowSet == LocalFlow <=> \E S \in SUBSET Offsets : LocalSet(S)
BY LocalOffsets DEF LocalFlow, LocalSet

LEMMA FinishComplete ==
  ASSUME Inv, ReachInv, BaseInv, WalkInv, Finish
  PROVE  CompleteInv'
<1>1. pc = "scan" /\ code' = code
  BY DEF Finish
<1>2. /\ LocalFlow' <=> LocalFlow
      /\ \A S : ClosedUnderFlow(S)' <=> ClosedUnderFlow(S)
  BY <1>1 DEF LocalFlow, ClosedUnderFlow, Successors
<1>3. ASSUME LocalFlow
      PROVE  \E D \in SUBSET Offsets : ClosedUnderFlow(D) /\ size' \notin D
  <2>1. PICK S \in SUBSET Offsets : LocalSet(S)
    BY <1>3, LocalFlowSet
  <2> DEFINE D == UNION {Words(blocks[i]) : i \in DOMAIN blocks}
  <2>2. stack = <<>> /\ D \in SUBSET Offsets /\ ClosedUnderFlow(D)
    BY <2>1, DecodedClosed
  <2>3. PICK last \in LastOfBase : \E i \in Kept(last) :
          /\ \A j \in Kept(last) : Unsigned(End(blocks[j])) <= Unsigned(End(blocks[i]))
          /\ size' = Unsigned(End(blocks[i]))
    BY DEF Finish
  <2>4. PICK m \in Kept(last) :
          /\ \A j \in Kept(last) : Unsigned(End(blocks[j])) <= Unsigned(End(blocks[m]))
          /\ size' = Unsigned(End(blocks[m]))
    BY <2>3
  <2>5. size' = End(blocks[m])
    BY <1>1, <2>4, KeptFacts
  <2>6. size' \notin D
    BY <1>1, <2>1, <2>2, <2>4, <2>5, CutKeepsExtent
  <2>. QED
    BY <2>2, <2>6
<1>. QED
  BY <1>2, <1>3 DEF CompleteInv

LEMMA NextComplete ==
  Inv /\ ReachInv /\ BaseInv /\ WalkInv /\ CompleteInv /\ [Next]_vars => CompleteInv'
<1> SUFFICES ASSUME Inv, ReachInv, BaseInv, WalkInv, CompleteInv, [Next]_vars
             PROVE  CompleteInv'
  OBVIOUS
<1>1. CASE UNCHANGED vars \/ Terminated
  BY <1>1 DEF vars, Terminated, CompleteInv, IsShiftedTailCall, LocalFlow, ClosedUnderFlow,
              Successors
<1>2. CASE Enter
  BY <1>2 DEF Enter, CompleteInv, IsShiftedTailCall
<1>3. CASE Finish
  BY <1>3, FinishComplete
<1>4. CASE FallThrough \/ Straight \/ CondBranch \/ Branch \/ Return \/ CondReturn \/ Invalid
  <2>1. pc' = "scan"
    BY <1>4 DEF FallThrough, Straight, CondBranch, Branch, Return, CondReturn, Invalid,
                Decoding, Looping, Continue
  <2>. QED
    BY <2>1 DEF CompleteInv
<1>. QED
  BY <1>1, <1>2, <1>3, <1>4 DEF Next

-----------------------------------------------------------------------------
(* The theorem.                                                            *)

\* Completeness of the result for every program with local flow, however its
\* branches nest, cross or lead back: no word that control reaches is
\* forgotten on the block stack, and sorting the blocks and cutting them at
\* the first discontinuity (function.cpp:216) cuts nothing off, so the extent
\* ends at a word that control cannot reach.
THEOREM ExtentCompletes ==
  ASSUME LoadedHigh
  PROVE  Spec => []ExtentIsComplete
<1>1. Init => Inv /\ ReachInv /\ BaseInv /\ WalkInv /\ CompleteInv
  <2>1. Init => BaseInv /\ WalkInv /\ CompleteInv
    BY DEF Init, BaseInv, WalkInv, CompleteInv
  <2>. QED
    BY <2>1, InitInv
<1>2. Inv /\ ReachInv /\ BaseInv /\ WalkInv /\ CompleteInv /\ [Next]_vars
        => (Inv /\ ReachInv /\ BaseInv /\ WalkInv /\ CompleteInv)'
  BY NextStep, NextBase, NextWalk, NextComplete
<1>3. CompleteInv => ExtentIsComplete
  BY DEF CompleteInv, ExtentIsComplete
<1>. QED
  BY <1>1, <1>2, <1>3, PTL DEF Spec
=============================================================================
