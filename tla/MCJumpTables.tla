---------------------------- MODULE MCJumpTables ----------------------------
(***************************************************************************)
(* Images made from pieces: jumps through tables of all four kinds with     *)
(* their bounds checks in many forms, and code that looks like parts of     *)
(* them.  Which labels a jump has is known from the piece.                  *)
(***************************************************************************)
EXTENDS JumpTables, SequencesExt

Insn(id, operands) == [id |-> id, operands |-> operands]
Other == Insn("or", <<5, 5, 5>>)

\* Two halves of an address, the low one with a sign.
Low(v) == IF v % Half >= Half \div 2 THEN (v % Half) - Half ELSE v % Half
Lis(v) == Insn("lis", <<12, (v - Low(v)) \div Half>>)
Addi(v) == Insn("addi", <<12, 12, Low(v)>>)

\* Room for a table, filled up with bytes that are in no table.
TableSize == 24
TableAt(i) == 40 + TableSize * i
Padded(bytes) == bytes \o [k \in 1 .. TableSize - Len(bytes) |-> 3]

CodeBase == 256
Target(k) == CodeBase + 4 * k

\* A jump: its kind, the register and the field of its check, the labels, the
\* branch, and what is between the comparison, the branch and the jump.
Jump(kind, r, cr, labels, branch, near, far) ==
  [piece |-> "jump", kind |-> kind, r |-> r, cr |-> cr, labels |-> labels,
   branch |-> branch, near |-> near, far |-> far]

Check(j) ==
  IF j.branch = "none" THEN j.near \o j.far
  ELSE <<Insn("cmplwi", <<j.cr, j.r, Len(j.labels) - 1>>)>> \o j.near \o
       CASE j.branch = "bgt"   -> <<Insn("bgt", <<j.cr, Target(0)>>)>>
         [] j.branch = "ble"   -> <<Insn("ble", <<j.cr, Target(2)>>), Insn("b", <<Target(0)>>)>>
         [] j.branch = "bgtlr" -> <<Insn("bgtlr", <<j.cr>>)>>
       \o j.far

Rlwinm(shift) == Insn("rlwinm", <<0, 0, shift>>)
Lowest(labels) == Min(Range(labels))

\* The jump of table t, as the compiler writes it.
Sequence(j, t) ==
  CASE j.kind = "ABSOLUTE" ->
         <<Lis(t), Addi(t), Rlwinm(2), Insn("lwzx", <<0, 12, 0>>)>>
    [] j.kind = "COMPUTED" ->
         <<Lis(t), Addi(t), Insn("lbzx", <<0, 12, j.r>>), Rlwinm(2), Lis(Lowest(j.labels)),
           Addi(Lowest(j.labels)), Insn("add", <<12, 12, 0>>)>>
    [] j.kind = "BYTEOFFSET" ->
         <<Lis(t), Addi(t), Insn("lbzx", <<0, 12, j.r>>), Lis(Lowest(j.labels)),
           Addi(Lowest(j.labels)), Insn("add", <<12, 12, 0>>)>>
    [] j.kind = "SHORTOFFSET" ->
         <<Lis(t), Addi(t), Rlwinm(1), Insn("lhzx", <<0, 12, 0>>), Lis(Lowest(j.labels)),
           Addi(Lowest(j.labels)), Insn("add", <<12, 12, 0>>)>>

Table(j) ==
  LET bytes(v) == CASE j.kind = "ABSOLUTE"    -> <<0, 0, v \div 256, v % 256>>
                    [] j.kind = "COMPUTED"    -> <<(v - Lowest(j.labels)) \div 4>>
                    [] j.kind = "BYTEOFFSET"  -> <<v - Lowest(j.labels)>>
                    [] j.kind = "SHORTOFFSET" -> <<(v - Lowest(j.labels)) \div 256, (v - Lowest(j.labels)) % 256>>
  IN  FlattenSeq([i \in DOMAIN j.labels |-> bytes(j.labels[i])])

\* Other code: a comparison and a branch of its own, a call of a function in a
\* table, a jump to a function, the start of a pattern, and no code.
Guard(branch, cr, r, n) == [piece |-> "code", words |-> <<Insn("cmplwi", <<cr, r, n>>), Insn(branch, <<cr, Target(0)>>)>>]
TableCall == [piece |-> "code", words |-> <<Insn("cmplwi", <<6, 3, 1>>), Insn("bgt", <<6, Target(0)>>), Lis(TableAt(4)), Addi(TableAt(4)),
                                            Rlwinm(2), Insn("lwzx", <<0, 12, 0>>), Insn("mtctr", <<0>>), Insn("bctrl", <<>>)>>]
TailCall == [piece |-> "tailcall"]
Start == [piece |-> "code", words |-> <<Lis(TableAt(4)), Addi(TableAt(4)), Lis(TableAt(4)), Addi(TableAt(4)), Insn("lbzx", <<0, 12, 3>>)>>]
NoCode(n) == [piece |-> "code", words |-> [i \in 1 .. n |-> NoInstruction]]

WordsOf(p, i) ==
  CASE p.piece = "jump"     -> Check(p) \o Sequence(p, TableAt(i)) \o <<Insn("mtctr", <<0>>), Insn("bctr", <<>>)>>
    [] p.piece = "tailcall" -> <<Insn("mtctr", <<11>>), Insn("bctr", <<>>)>>
    [] p.piece = "code"     -> p.words

\* The pieces in a row as a code section, behind a section that is not code but
\* looks like a bounds check, and a table that looks like a jump.
MakeImage(pieces) ==
  LET start[i \in 1 .. Len(pieces) + 1] == IF i = 1 THEN 0 ELSE start[i - 1] + Len(WordsOf(pieces[i - 1], i - 1))
      code == FlattenSeq([i \in DOMAIN pieces |-> WordsOf(pieces[i], i)])
      front == <<Insn("cmplwi", <<6, 9, 2>>), Insn("bgt", <<6, 0>>)>> \o Sequence(Jump("ABSOLUTE", 9, 6, <<4>>, "bgt", <<>>, <<>>), TableAt(4))
               \o <<Insn("mtctr", <<0>>), Insn("bctr", <<>>)>>
      words == front \o code
      first == CodeBase - 4 * Len(front)
      jumps == {i \in DOMAIN pieces : pieces[i].piece = "jump"}
  IN  [sections |-> <<[base |-> first, size |-> Len(front), code |-> FALSE],
                      [base |-> CodeBase, size |-> Len(code), code |-> TRUE]>>,
       first |-> first,
       words |-> words,
       tables |-> TableAt(1),
       bytes |-> FlattenSeq([i \in 1 .. 4 |-> IF i \in jumps THEN Padded(Table(pieces[i])) ELSE Padded(<<>>)]),
       pieces |-> pieces,
       last |-> [i \in DOMAIN pieces |-> CodeBase + 4 * (start[i + 1] - 1)]]

\* The code of an image in two sections, with some words in both.
Divided(m, n, common) ==
  LET code == m.sections[2]
  IN  [m EXCEPT !.sections = <<m.sections[1],
         [base |-> code.base, size |-> n + common, code |-> TRUE],
         [base |-> code.base + 4 * n, size |-> code.size - n, code |-> TRUE]>>]

Kinds == {"ABSOLUTE", "COMPUTED", "BYTEOFFSET", "SHORTOFFSET"}
Compare(cr) == Insn("cmplwi", <<cr, 7, 1>>)
Nears == {<<>>, <<Other>>, <<Compare(0)>>, <<Insn("beq", <<0, Target(0)>>)>>}
Fars == {<<>>, <<Other, Compare(6)>>, [i \in 1 .. ScanLimit - 4 |-> Other], [i \in 1 .. ScanLimit - 2 |-> Other],
         <<Insn("bgt", <<0, Target(0)>>)>>, <<NoInstruction>>}

Branches == {"bgt", "ble", "bgtlr"}
Labels == {<<Target(3)>>, <<Target(9), Target(4), Target(30)>>}

Jumps == {Jump(kind, r, 6, labels, branch, near, far) :
            kind \in Kinds, r \in {3, 4}, labels \in Labels, branch \in Branches, near \in Nears, far \in Fars}
Small == {Jump(kind, 3, cr, <<Target(9), Target(4)>>, branch, <<>>, <<>>) :
            kind \in Kinds, cr \in {0, 6}, branch \in {"bgt", "ble", "none"}}
Jump2 == {j \in Small : j.cr = 6 /\ j.branch = "bgt"}
Others == {TailCall, TableCall, Start, NoCode(2), Guard("bgt", 6, 4, 5), Guard("blelr", 0, 4, 5)}

MCImages ==
  {MakeImage(<<j>>) : j \in Jumps}
  \cup {MakeImage(<<j, p>>) : j \in Small, p \in Others}
  \cup {MakeImage(<<p, TailCall>>) : p \in Others}
  \cup {MakeImage(<<p, j, TailCall>>) : j \in Small, p \in Others}
  \cup {MakeImage(<<j, k, TailCall>>) : j \in Small, k \in Small}
  \cup {Divided(MakeImage(<<j, k, TailCall>>), n, common) :
          j \in Jump2, k \in Jump2, n \in 1 .. 12, common \in {0, 2, 5}}

-----------------------------------------------------------------------------
\* The bounds check is where ScanTable looks, with no other branch on greater
\* behind it.
Distance(j) == Len(Check(j))
HasNearCheck(j) ==
  /\ j.branch # "none"
  /\ Distance(j) < ScanLimit
  /\ \A i \in DOMAIN j.far : j.far[i].id # "bgt"

\* The tables a bctr may get: those listed behind the bctr in front of it.
Listed(w) == {b \in DOMAIN config : b <= w /\ \A a \in b .. w - 1 : a % 4 = 0 => Disassemble(a).id # "bctr"}

PieceAt(i) == image.pieces[i]

\* A jump through a table gets exactly the labels and the index register of
\* its own table, whatever jumps, checks and data are next to it: what
\* Translation assumes. Not if the check is missing or too far away, or there
\* is another branch on greater behind it. A jump through the count register
\* that is no jump through a table gets none, also behind a call of a function
\* from a table.
JumpsGetTheirTables ==
  stage = "loaded" =>
    \A i \in DOMAIN image.pieces :
      /\ (PieceAt(i).piece = "jump" /\ HasNearCheck(PieceAt(i))) =>
           /\ Listed(image.last[i]) # {}
           /\ \A b \in Listed(image.last[i]) : config[b] = [r |-> PieceAt(i).r, labels |-> PieceAt(i).labels]
      /\ PieceAt(i).piece = "tailcall" => Listed(image.last[i]) = {}
=============================================================================
