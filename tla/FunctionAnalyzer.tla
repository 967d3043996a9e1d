-------------------------- MODULE FunctionAnalyzer --------------------------
(***************************************************************************)
(* Function::Analyze (XenonAnalyse/function.cpp): the walk that finds the  *)
(* extent of one guest function from its first instruction.  It keeps a    *)
(* vector of basic blocks and a stack of the blocks whose words are still  *)
(* to be decoded, and moves one cursor over the code.                      *)
(*                                                                         *)
(* Offsets are counted in instruction words from the function's entry and  *)
(* are signed: a size_t that wrapped below zero is the negative offset it  *)
(* stands for, and Unsigned gives back its machine value wherever the code *)
(* compares, subtracts or sorts it as a size_t.                            *)
(***************************************************************************)
EXTENDS Integers, Sequences

CONSTANTS
  CodeWords,   \* words from the entry to the end of the section (size / 4)
  MemoryStart, \* lowest readable offset: the code that precedes the entry
  Base,        \* address of the entry, in words
  Modulus,     \* number of values of a size_t, in words
  Programs,    \* the instruction streams the analysis may be given
  MaxBlocks    \* bound on the blocks vector (the host's memory)

\* "straight": falls through and is no branch, or is a call (the link bit is
\* set); "bc": conditional branch; "b": branch; "return": blr, bctr, and the
\* all-zero word; "condreturn": conditional blr or bctr; "invalid": a word
\* that does not disassemble.
Ops == {"straight", "bc", "b", "return", "condreturn", "invalid"}

Instruction == [op : Ops, target : Int]

\* The word at offset CodeWords lies past the section: the loop's test is
\* data <= dataEnd, so it is decoded too.
Offsets == MemoryStart .. CodeWords

\* Offsets do not come near to wrapping: guest addresses have 32 bits, a
\* size_t has 64.
ASSUME AnalyzerAssumption ==
  /\ CodeWords \in Nat \ {0}
  /\ MemoryStart \in Int /\ MemoryStart <= 0
  /\ Base \in Nat
  /\ Modulus \in Nat \ {0}
  /\ Programs \subseteq [Offsets -> Instruction]
  /\ CodeWords + 1 < Modulus + MemoryStart
  /\ \A p \in Programs : \A o \in Offsets :
       /\ p[o].op = "bc" => p[o].target >= MemoryStart
       /\ p[o].target < Modulus + MemoryStart
  /\ MaxBlocks \in Nat

VARIABLES
  code,   \* the instruction stream, fixed
  pc,     \* "entry", "scan" (the loop) or "done"
  blocks, \* fn.blocks: [base, size, projected]
  stack,  \* blockStack: indices into blocks
  cursor, \* data - dataStart
  size    \* fn.size

vars == <<code, pc, blocks, stack, cursor, size>>

-----------------------------------------------------------------------------
(* Blocks.                                                                 *)

\* projectedSize == (size_t)-1
NoProjection == -1

Block == [base : Int, size : Nat, projected : Nat \cup {NoProjection}]

Signed(x) == x

\* A size_t: negative numbers wrap.
Unsigned(x) == x % Modulus

Fresh(offset, projection) ==
  [base |-> offset, size |-> 0, projected |-> projection]

End(b) == b.base + b.size

\* The words a block has decoded.
Words(b) == b.base .. (End(b) - 1)

\* Does SearchBlock's loop stop at block b when asked for an address?
Contains(b, address) ==
  IF b.size = 0 THEN address = Base + b.base
                ELSE Base + b.base <= address /\ address < Base + End(b)

\* A faulty search that forgets the blocks it has seen.
NeverFound(bs, address) == FALSE

\* SearchBlock(address) # -1
Found(bs, address) ==
  /\ address >= Base
  /\ \E i \in DOMAIN bs : Contains(bs[i], address)

Top(s) == s[Len(s)]

Pop(s) == SubSeq(s, 1, Len(s) - 1)

\* "if (SearchBlock(address) == -1) { blocks.emplace_back(...);
\* blockStack.emplace_back(...); }", the new block starting at offset.
Visit(walk, address, offset, projection) ==
  IF Found(walk.blocks, address)
  THEN walk
  ELSE [blocks |-> Append(walk.blocks, Fresh(offset, projection)),
        stack  |-> Append(walk.stack, Len(walk.blocks) + 1)]

-----------------------------------------------------------------------------
(* The loop.                                                               *)

Current == blocks[Top(stack)]

\* blocks after curBlock.size += 4
Grown == [blocks EXCEPT ![Top(stack)].size = @ + 1]

\* A faulty variant that starts the block on top over again.
RestoreWithoutSize(walk) ==
  IF walk.stack = <<>> THEN cursor + 1 ELSE walk.blocks[Top(walk.stack)].base

\* The cursor after RESTORE_DATA and the loop's ++data.
Restore(walk) ==
  IF walk.stack = <<>> THEN cursor + 1 ELSE End(walk.blocks[Top(walk.stack)])

Looping == pc = "scan" /\ cursor <= CodeWords /\ stack # <<>>

\* A faulty variant that stops one word short.
NearsProjection ==
  /\ Current.projected # NoProjection
  /\ Current.size + 1 >= Current.projected

HasReachedProjection ==
  /\ Current.projected # NoProjection
  /\ Current.size >= Current.projected

Decoding(op) == Looping /\ ~HasReachedProjection /\ code[cursor].op = op

Continue(walk) ==
  /\ Len(walk.blocks) <= MaxBlocks
  /\ blocks' = walk.blocks
  /\ stack' = walk.stack
  /\ cursor' = Restore(walk)
  /\ UNCHANGED <<code, pc, size>>

\* A block that has grown to its projected size falls into its neighbour.
FallThrough ==
  /\ Looping
  /\ HasReachedProjection
  /\ Continue([blocks |-> blocks, stack |-> Pop(stack)])

Straight ==
  /\ Decoding("straight")
  /\ Continue([blocks |-> Grown, stack |-> stack])

\* The false case is pushed first: the true case is followed before it.
CondBranch ==
  /\ Decoding("bc")
  /\ LET left   == cursor + 1
         right  == code[cursor].target
         closed == [blocks |-> [Grown EXCEPT ![Top(stack)].projected = NoProjection],
                    stack  |-> Pop(stack)]
         falseCase == Visit(closed, Base + left, left, Unsigned(right - left))
     IN  Continue(Visit(falseCase, Base + right, right, NoProjection))

\* A branch before base is a tail call.  A branch to the next word carries
\* the projection of the block it ends over to the block it opens.
Branch ==
  /\ Decoding("b")
  /\ LET target == code[cursor].target
         closed == [blocks |-> Grown, stack |-> Pop(stack)]
         ended  == Grown[Top(stack)]
         carried == IF ended.projected # NoProjection /\ target = End(ended)
                    THEN Unsigned(ended.projected - ended.size)
                    ELSE NoProjection
     IN  Continue(IF target < 0 THEN closed
                  ELSE Visit(closed, Base + target, target, carried))

\* A faulty variant that decodes on behind the return.
ReturnKeepsBlock ==
  /\ Decoding("return")
  /\ Continue([blocks |-> Grown, stack |-> stack])

Return ==
  /\ Decoding("return")
  /\ Continue([blocks |-> Grown, stack |-> Pop(stack)])

\* SearchBlock is handed the offset of the next word, not its address.
CondReturn ==
  /\ Decoding("condreturn")
  /\ LET left   == cursor + 1
         closed == [blocks |-> Grown, stack |-> Pop(stack)]
     IN  Continue(Visit(closed, left, left, NoProjection))

Invalid ==
  /\ Decoding("invalid")
  /\ Continue([blocks |-> Grown, stack |-> Pop(stack)])

-----------------------------------------------------------------------------
(* Entry and exit.                                                         *)

\* The second word of a shifted pointer's tail call, "b +4".
IsShiftedTailCall == code[1].op = "b" /\ code[1].target = 2

Enter ==
  /\ pc = "entry"
  /\ IF IsShiftedTailCall
     THEN /\ pc' = "done"
          /\ size' = 2
          /\ UNCHANGED <<blocks, stack, cursor>>
     ELSE /\ pc' = "scan"
          /\ blocks' = <<Fresh(0, NoProjection)>>
          /\ stack' = <<1>>
          /\ cursor' = 0
          /\ UNCHANGED size
  /\ UNCHANGED code

SortKey(i) == Unsigned(blocks[i].base)

\* std::sort is not stable: of the blocks that share a base, any may come
\* last.  The possible sets of these last blocks, one for each base:
LastOfBase ==
  {last \in SUBSET DOMAIN blocks :
     /\ \A i \in DOMAIN blocks : \E j \in last : SortKey(j) = SortKey(i)
     /\ \A i, j \in last : SortKey(i) = SortKey(j) => i = j}

\* The end of the block sorted before i, where bases differ, is short of i.
IsDiscontinuity(i, last) ==
  \E p \in last :
    /\ SortKey(p) < SortKey(i)
    /\ \A j \in last : SortKey(j) <= SortKey(p) \/ SortKey(i) <= SortKey(j)
    /\ Unsigned(End(blocks[p])) < SortKey(i)

\* A faulty variant that does not look for discontinuities.
KeepAll(last) == DOMAIN blocks

\* The blocks sorted before the first discontinuity.
Kept(last) ==
  {i \in DOMAIN blocks :
     \A j \in DOMAIN blocks :
       SortKey(j) <= SortKey(i) => ~IsDiscontinuity(j, last)}

\* The loop ends when the stack is empty or the cursor has passed the end,
\* with blocks still to be decoded or not.  What is left of the blocks is
\* the function; its size is the end that lies furthest away.
Finish ==
  /\ pc = "scan"
  /\ stack = <<>> \/ cursor > CodeWords
  /\ \E last \in LastOfBase :
       LET kept == Kept(last) IN
       /\ blocks' = [i \in kept |-> blocks[i]]
       /\ \E i \in kept :
            /\ \A j \in kept : Unsigned(End(blocks[j])) <= Unsigned(End(blocks[i]))
            /\ size' = Unsigned(End(blocks[i]))
  /\ pc' = "done"
  /\ stack' = <<>>
  /\ UNCHANGED <<code, cursor>>

Terminated == pc = "done" /\ UNCHANGED vars

Init ==
  /\ code \in Programs
  /\ pc = "entry"
  /\ blocks = <<>>
  /\ stack = <<>>
  /\ cursor = 0
  /\ size = 0

Next ==
  \/ Enter
  \/ FallThrough
  \/ Straight
  \/ CondBranch
  \/ Branch
  \/ Return
  \/ CondReturn
  \/ Invalid
  \/ Finish
  \/ Terminated

Spec == Init /\ [][Next]_vars

FairSpec == Spec /\ WF_vars(Next)
-----------------------------------------------------------------------------
(* Properties.                                                             *)

\* Control flow inside the function, from the word at offset o.
Successors(o) ==
  CASE code[o].op \in {"straight", "condreturn"} -> {o + 1}
    [] code[o].op = "bc" -> {o + 1, code[o].target}
    [] code[o].op = "b" -> IF code[o].target < 0 THEN {} ELSE {code[o].target}
    [] OTHER -> {}

ClosedUnderFlow(S) == 0 \in S /\ \A o \in S : Successors(o) \cap Offsets \subseteq S

\* The type of every variable.  When the walk is over the blocks are a set of
\* surviving blocks, keyed by their place in the vector.
TypeOK ==
  /\ code \in [Offsets -> Instruction]
  /\ pc \in {"entry", "scan", "done"}
  /\ pc # "done" => blocks \in Seq(Block)
  /\ stack \in Seq(DOMAIN blocks)
  /\ cursor \in Int
  /\ size \in Nat

\* The assertion in the loop (function.cpp:85): the word under the cursor is
\* the next one of the block on top of the stack, whatever was pushed,
\* popped or resumed before.
SanityCheck ==
  pc = "scan" /\ stack # <<>> => cursor = End(Current)

\* The block stack is strictly increasing: no block is ever pending twice, so
\* a block that was left is never resumed.
StackIncreases ==
  \A i, j \in DOMAIN stack : i < j => stack[i] < stack[j]

\* Soundness of the walk: every word it decodes is reached from the entry by
\* the function's control flow, that is, lies in every set of offsets that
\* holds the entry and is closed under flow.
OnlyReachableDecoded ==
  pc = "scan" =>
    \A S \in SUBSET Offsets :
      ClosedUnderFlow(S) => \A i \in DOMAIN blocks : Words(blocks[i]) \subseteq S

\* Soundness of the result: no data word and no word of another function is
\* claimed; the extent [0, size) has no hole that was not decoded.
ExtentIsReachable ==
  pc = "done" /\ ~IsShiftedTailCall =>
    \A S \in SUBSET Offsets : ClosedUnderFlow(S) => 0 .. (size - 1) \subseteq S

\* Progress of the caller: Recompiler::Analyse and XenonAnalyse advance by
\* fn.size, so a function is never empty; and it never reaches beyond the
\* one word past the section the loop may read.
SizeIsUsable ==
  pc = "done" /\ ~IsShiftedTailCall => size \in 1 .. (CodeWords + 1)

\* Programs whose control flow is local: nothing branches conditionally to
\* the next word, and no word reached from the entry leaves [0, CodeWords).
LocalFlow ==
  \E S \in SUBSET (0 .. CodeWords - 1) :
    /\ ClosedUnderFlow(S)
    /\ \A o \in S :
         /\ Successors(o) \subseteq S
         /\ code[o].op = "bc" => code[o].target # o + 1

\* Completeness of the result: of a function with local flow, the extent is
\* not cut short; it ends at the first word that control cannot reach.
ExtentIsComplete ==
  pc = "done" /\ ~IsShiftedTailCall /\ LocalFlow =>
    \E S \in SUBSET Offsets : ClosedUnderFlow(S) /\ size \notin S

\* The walk ends, unless a conditional branch leads before the entry: blocks
\* are opened there without end.
Termination ==
  (\A o \in Offsets : code[o].op = "bc" => code[o].target >= 0) => <>(pc = "done")

=============================================================================
