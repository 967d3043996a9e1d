--------------------------- MODULE PowerPCOperands ---------------------------
(***************************************************************************)
(* The operand table of the disassembler: where an operand lies in an      *)
(* instruction, how a value is put there and how it is taken out again.    *)
(*                                                                         *)
(* A word is the set of its bits that are one; bit 0 is the lowest.  A     *)
(* piece <<lo, hi, shift>> says that bits lo .. hi of the value lie shift  *)
(* bits higher in the word.                                                *)
(***************************************************************************)
EXTENDS Integers, Sequences, FiniteSetsExt, TLC

IsSet(v, i) == (v \div 2^i) % 2 = 1

Value(bits) == MapThenSumSet(LAMBDA i : 2^i, bits)

\* The bits of v, in the word.
Scatter(v, pieces) ==
  UNION {{i + p[3] : i \in {j \in p[1] .. p[2] : IsSet(v, j)}} : p \in pieces}

\* The value whose bits are in the word.
Gather(insn, pieces) ==
  Value(UNION {{i \in p[1] .. p[2] : i + p[3] \in insn} : p \in pieces})

SignExtend(v, top) == IF v >= 2^top THEN v - 2^(top + 1) ELSE v

-----------------------------------------------------------------------------
(* The table.  A plain operand has neither an insertion nor an extraction  *)
(* function; the others name theirs.  Flags about printing are left out.   *)

Plain(lo, hi, shift, flags) ==
  [by |-> "plain", piece |-> <<lo, hi, shift>>, flags |-> flags]

By(function, flags) == [by |-> function, piece |-> <<>>, flags |-> flags]

Relative == {"RELATIVE", "SIGNED"}

Absolute == {"ABSOLUTE", "SIGNED"}

ConditionOperands ==
  [BA   |-> Plain(0, 4, 16, {}),        BAT  |-> By("bat", {"FAKE"}),
   BI   |-> Plain(0, 4, 16, {}),
   BB   |-> Plain(0, 4, 11, {}),        BBA  |-> By("bba", {"FAKE"}),
   BD   |-> Plain(2, 15, 0, Relative),      BDA  |-> Plain(2, 15, 0, Absolute),
   BDM  |-> By("bdm", Relative),            BDMA |-> By("bdm", Absolute),
   BDP  |-> By("bdp", Relative),            BDPA |-> By("bdp", Absolute),
   BF   |-> Plain(0, 2, 23, {}),        BFF  |-> Plain(0, 2, 23, {}),
   OBF  |-> Plain(0, 2, 23, {"OPTIONAL"}),
   BFA  |-> Plain(0, 2, 18, {}),        BO   |-> By("bo", {}),
   BOE  |-> By("boe", {}),                  BH   |-> Plain(0, 1, 11, {"OPTIONAL"}),
   BT   |-> Plain(0, 4, 21, {}),        CR   |-> Plain(0, 2, 18, {"OPTIONAL"}),
   MB   |-> Plain(0, 4, 6, {}),             CRFS |-> Plain(0, 2, 0, {}),
   CT   |-> Plain(0, 4, 21, {"OPTIONAL"})]

ImmediateOperands ==
  [D   |-> Plain(0, 15, 0, {"SIGNED"}),     DE   |-> Plain(0, 11, 4, {"SIGNED"}),
   DES |-> Plain(2, 13, 2, {"SIGNED"}),     DQ   |-> Plain(4, 15, 0, {"SIGNED"}),
   DS  |-> Plain(2, 15, 0, {"SIGNED"}),     E    |-> Plain(0, 0, 15, {}),
   FL1 |-> Plain(0, 3, 12, {}),             FL2  |-> Plain(0, 2, 2, {}),
   FLM |-> Plain(0, 7, 17, {}),             FRA  |-> Plain(0, 4, 16, {}),
   FRB |-> Plain(0, 4, 11, {}),             FRC  |-> Plain(0, 4, 6, {}),
   FRS |-> Plain(0, 4, 21, {}),             FXM  |-> By("fxm", {}),
   FXM4 |-> By("fxm", {"OPTIONAL"}),        L    |-> Plain(0, 0, 21, {"OPTIONAL"}),
   SVC_LEV |-> Plain(0, 6, 5, {}),          LEV  |-> Plain(0, 6, 5, {"OPTIONAL"}),
   LI  |-> Plain(2, 25, 0, Relative),       LIA  |-> Plain(2, 25, 0, Absolute),
   LS  |-> Plain(0, 1, 21, {"OPTIONAL"}),   ME   |-> Plain(0, 4, 1, {})]

RegisterOperands ==
  [MBE |-> Plain(0, 4, 6, {"OPTIONAL", "NEXT"}),
   MB6 |-> By("mb6", {}),                   NB   |-> By("nb", {}),
   NSI |-> By("nsi", {"SIGNED"}),           RA   |-> Plain(0, 4, 16, {}),
   RAQ |-> By("raq", {}),                   RAL  |-> By("ral", {}),
   RAM |-> By("ram", {}),                   RAS  |-> By("ras", {}),
   RAOPT |-> Plain(0, 4, 16, {"OPTIONAL"}), RB   |-> Plain(0, 4, 11, {}),
   RBS |-> By("rbs", {"FAKE"}),             RS   |-> Plain(0, 4, 21, {}),
   RSQ |-> Plain(1, 4, 21, {}),             RSO  |-> Plain(0, 4, 21, {"OPTIONAL"}),
   SH  |-> Plain(0, 4, 11, {}),             SH6  |-> By("sh6", {}),
   SHO |-> Plain(0, 4, 11, {"OPTIONAL"}),   SI   |-> Plain(0, 15, 0, {"SIGNED"}),
   SPR |-> By("spr", {}),                   SPRBAT |-> Plain(0, 1, 17, {}),
   SPRG |-> By("sprg", {})]

VectorOperands ==
  [SR  |-> Plain(0, 3, 16, {}),             STRM |-> Plain(0, 1, 21, {}),
   SV  |-> Plain(0, 13, 2, {}),             TBR  |-> By("tbr", {"OPTIONAL"}),
   TO  |-> Plain(0, 4, 21, {}),             UI   |-> Plain(0, 15, 0, {}),
   VA  |-> Plain(0, 4, 16, {}),             VB   |-> Plain(0, 4, 11, {}),
   VC  |-> Plain(0, 4, 6, {}),              VD   |-> Plain(0, 4, 21, {}),
   VD128 |-> By("vds128", {}),              VA128 |-> By("va128", {}),
   VB128 |-> By("vb128", {}),               VC128 |-> Plain(0, 2, 6, {}),
   VPERM128 |-> By("vperm", {}),            VD3D0 |-> Plain(0, 2, 18, {}),
   VD3D1 |-> Plain(0, 1, 16, {}),           VD3D2 |-> Plain(0, 1, 6, {}),
   SIMM |-> Plain(0, 4, 16, {"SIGNED"}),    UIMM |-> Plain(0, 4, 16, {}),
   SHB |-> Plain(0, 3, 6, {}),              EVUIMM_2 |-> Plain(1, 5, 10, {}),
   EVUIMM_4 |-> Plain(2, 6, 9, {}),         EVUIMM_8 |-> Plain(3, 7, 8, {}),
   WS  |-> Plain(0, 2, 11, {}),             A_L  |-> Plain(0, 0, 16, {"OPTIONAL"}),
   RMC |-> Plain(0, 1, 9, {}),              R    |-> Plain(0, 0, 16, {}),
   SP  |-> Plain(0, 1, 19, {}),             S    |-> Plain(0, 0, 20, {}),
   SH16 |-> Plain(0, 5, 10, {}),
   EH  |-> Plain(0, 0, 0, {"OPTIONAL"}),    XFL_L |-> Plain(0, 0, 25, {"OPTIONAL"})]

Operands == ConditionOperands @@ ImmediateOperands @@ RegisterOperands @@ VectorOperands
-----------------------------------------------------------------------------
(* Insertion: the word with the operand in it, and whether the value is    *)
(* one that the instruction can have.                                      *)

BOField == <<0, 4, 21>>

\* The bits of BO that the word has.
BOBits(insn) == {i \in 0 .. 4 : i + 21 \in insn}

\* The values a BO field may have: certain encodings have bits that must be
\* zero, and POWER4 turns some of these into hints.
valid_bo(bo, dialect, extract) ==
  LET fixed == bo \cap {2, 4}
      y  == CASE fixed = {2}    -> 1 \notin bo
              [] fixed = {4}    -> 3 \notin bo
              [] fixed = {2, 4} -> bo = {2, 4}
              [] OTHER          -> TRUE
      at == CASE fixed = {}     -> 0 \notin bo
              [] fixed = {2, 4} -> bo = {2, 4}
              [] OTHER          -> TRUE
  IN  IF "POWER4" \notin dialect /\ (y \/ "ANY" \notin dialect \/ ~extract)
      THEN y ELSE at

\* The hint bits of BO for a branch that is expected to be taken, or not.
HintBits(insn, v, taken, dialect) ==
  IF "POWER4" \notin dialect
  THEN IF (v >= 0) = taken THEN {21} ELSE {}
  ELSE LET t == IF taken THEN {21} ELSE {}
       IN  CASE insn \cap {23, 25} = {23} -> {22} \cup t
             [] insn \cap {23, 25} = {25} -> {24} \cup t
             [] OTHER -> {}

Hinted(insn, taken, dialect) ==
  IF "POWER4" \notin dialect
  THEN (21 \in insn) = ((15 \in insn) # taken)
  ELSE LET t == IF taken THEN {21} ELSE {}
       IN  \/ insn \cap {21, 22, 23, 25} = {22, 23} \cup t
           \/ insn \cap {21, 23, 24, 25} = {24, 25} \cup t

MfcrForm(insn) == insn \cap 1 .. 10 = {1, 2, 5}

OneBit(v) == \E i \in 0 .. 7 : v = 2^i

\* Where an insertion function puts the bits of the value.
InsertPieces(o) ==
  CASE o.by = "plain"                    -> {o.piece}
    [] o.by \in {"bdm", "bdp"}           -> {<<2, 15, 0>>}
    [] o.by \in {"bo", "boe"}            -> {BOField}
    [] o.by = "fxm"                      -> {<<0, 7, 12>>}
    [] o.by = "mb6"                      -> {<<0, 4, 6>>, <<5, 5, 0>>}
    [] o.by = "nb"                       -> {<<0, 4, 11>>}
    [] o.by = "nsi"                      -> {<<0, 15, 0>>}
    [] o.by \in {"raq", "ral", "ram", "ras"} -> {<<0, 4, 16>>}
    [] o.by = "sh6"                      -> {<<0, 4, 11>>, <<5, 5, -4>>}
    [] o.by \in {"spr", "tbr"}           -> {<<0, 4, 16>>, <<5, 9, 6>>}
    [] o.by = "sprg"                     -> {<<0, 2, 16>>, <<4, 4, 16>>}
    [] o.by = "vds128"                   -> {<<5, 6, -3>>, <<0, 4, 21>>}
    [] o.by = "va128"                    -> {<<6, 6, 4>>, <<5, 5, 0>>, <<0, 4, 16>>}
    [] o.by = "vb128"                    -> {<<5, 6, -5>>, <<0, 4, 11>>}
    [] o.by = "vperm"                    -> {<<5, 7, 1>>, <<0, 4, 16>>}

Copy(insn, from, to) == {i + to : i \in {j \in 0 .. 4 : j + from \in insn}}

TB == 268

Insert(o, insn, v, dialect) ==
  LET put(value) == insn \cup Scatter(value, InsertPieces(o))
      rt == Gather(insn, {<<0, 4, 21>>})
      Is(word, ok) == [word |-> word, ok |-> ok]
  IN  CASE o.by = "bat" -> Is(insn \cup Copy(insn, 21, 16), TRUE)
        [] o.by = "bba" -> Is(insn \cup Copy(insn, 16, 11), TRUE)
        [] o.by = "rbs" -> Is(insn \cup Copy(insn, 21, 11), TRUE)
        [] o.by = "bdm" -> Is(put(v) \cup HintBits(insn, v, FALSE, dialect), TRUE)
        [] o.by = "bdp" -> Is(put(v) \cup HintBits(insn, v, TRUE, dialect), TRUE)
        [] o.by = "bo"  -> Is(put(v), valid_bo({i \in 0 .. 4 : IsSet(v, i)}, dialect, FALSE))
        [] o.by = "boe" -> Is(put(v), /\ valid_bo({i \in 0 .. 4 : IsSet(v, i)}, dialect, FALSE)
                                      /\ ~IsSet(v, 0))
        [] o.by = "fxm" ->
             IF 20 \in insn THEN Is(put(IF OneBit(v) THEN v ELSE 0), OneBit(v))
             ELSE IF OneBit(v) /\ \/ "POWER4" \in dialect
                                  \/ "ANY" \in dialect /\ MfcrForm(insn)
                  THEN Is(put(v) \cup {20}, TRUE)
                  ELSE IF v # 0 /\ MfcrForm(insn) THEN Is(insn, FALSE) ELSE Is(put(v), TRUE)
        [] o.by = "nsi" -> Is(put(-v), TRUE)
        [] o.by = "ral" -> Is(put(v), v # 0 /\ v # rt)
        [] o.by = "ram" -> Is(put(v), v < rt)
        [] o.by = "raq" -> Is(put(v), v # rt)
        [] o.by = "ras" -> Is(put(v), v # 0)
        [] o.by = "sprg" ->
             Is(put(IF v <= 3 \/ 8 \in insn THEN 16 + (v % 8) ELSE v),
                v <= 7 /\ (v <= 3 \/ {"BOOKE", "403"} \cap dialect # {}))
        [] o.by = "tbr" -> Is(put(IF v = 0 THEN TB ELSE v), TRUE)
        [] OTHER -> Is(put(v), TRUE)

-----------------------------------------------------------------------------
(* Extraction: the value, and whether the word can be this instruction.    *)

\* Where an extraction function finds the bits of the value.
ExtractPieces(o) ==
  CASE o.by = "plain"            -> {o.piece}
    [] o.by \in {"bdm", "bdp"}   -> {<<2, 15, 0>>}
    [] o.by = "bo"               -> {BOField}
    [] o.by = "boe"              -> {<<1, 4, 21>>}
    [] o.by = "fxm"              -> {<<0, 7, 12>>}
    [] o.by = "mb6"              -> {<<0, 4, 6>>, <<5, 5, 0>>}
    [] o.by = "nb"               -> {<<0, 4, 11>>}
    [] o.by = "nsi"              -> {<<0, 15, 0>>}
    [] o.by \in {"raq", "ral", "ram", "ras"} -> {<<0, 4, 16>>}
    [] o.by = "sh6"              -> {<<0, 4, 11>>, <<5, 5, -4>>}
    [] o.by \in {"spr", "tbr"}   -> {<<0, 4, 16>>, <<5, 9, 6>>}
    [] o.by = "sprg"             -> {<<0, 4, 16>>}
    [] o.by = "vds128"           -> {<<5, 6, -3>>, <<0, 4, 21>>}
    [] o.by = "va128"            -> {<<6, 6, 4>>, <<5, 5, 0>>, <<0, 4, 16>>}
    [] o.by = "vb128"            -> {<<5, 6, -5>>, <<0, 4, 11>>}
    [] o.by = "vperm"            -> {<<5, 7, 1>>, <<0, 4, 16>>}
    [] OTHER                     -> {}

SameField(insn, a, b) == \A i \in 0 .. 4 : (i + a \in insn) = (i + b \in insn)

extract_sprg(val, insn, dialect) ==
  [value |-> val % 8,
   valid |-> ~ \/ val <= 3
               \/ val < 16 /\ 8 \in insn
               \/ (val < 16 \/ val > 19) /\ {"BOOKE", "403"} \cap dialect = {}]

\* A faulty variant without the shift that takes the high bit of a register
\* number of the VMX128 forms to its place.
Extract_Misplaced(o, insn, dialect) ==
  [value |-> Gather(insn, IF o.by = "va128" THEN {<<6, 6, 5>>, <<5, 5, 0>>, <<0, 4, 16>>}
                                            ELSE ExtractPieces(o)),
   valid |-> TRUE]

Extract(o, insn, dialect) ==
  LET v == Gather(insn, ExtractPieces(o))
      Is(value, valid) == [value |-> value, valid |-> valid]
  IN  CASE o.by = "bat" -> Is(0, SameField(insn, 21, 16))
        [] o.by = "bba" -> Is(0, SameField(insn, 16, 11))
        [] o.by = "rbs" -> Is(0, SameField(insn, 21, 11))
        [] o.by = "bdm" -> Is(SignExtend(v, 15), Hinted(insn, FALSE, dialect))
        [] o.by = "bdp" -> Is(SignExtend(v, 15), Hinted(insn, TRUE, dialect))
        [] o.by \in {"bo", "boe"} -> Is(v, valid_bo(BOBits(insn), dialect, TRUE))
        [] o.by = "fxm" -> Is(v, CASE 20 \in insn -> OneBit(v)
                                   [] MfcrForm(insn) -> v = 0
                                   [] OTHER -> TRUE)
        [] o.by = "nb"  -> Is(IF v = 0 THEN 32 ELSE v, TRUE)
        [] o.by = "nsi" -> Is(-SignExtend(v, 15), FALSE)
        [] o.by = "sprg" -> extract_sprg(v, insn, dialect)
        [] o.by = "tbr" -> Is(IF v = TB THEN 0 ELSE v, TRUE)
        [] OTHER -> Is(IF "SIGNED" \in o.flags THEN SignExtend(v, o.piece[2]) ELSE v, TRUE)

-----------------------------------------------------------------------------
(* The mask of a rotate instruction as one operand: a run of ones, which   *)
(* may wrap, becomes the numbers of its first and its last bit, counted    *)
(* from the top.  A mask is the set of the numbers of its ones.            *)

Before(i) == (i + 31) % 32

Put(at, v) == {i + at : i \in {j \in 0 .. 4 : IsSet(v, j)}}

insert_mbe(insn, mask) ==
  LET rises == {i \in mask : Before(i) \notin mask}
      falls == {i \in 0 .. 31 \ mask : Before(i) \in mask}
      mb == IF rises = {} THEN 0 ELSE Max(rises)
      me == IF falls \subseteq {0} THEN 32 ELSE Max(falls)
      count == Cardinality(rises) + Cardinality(falls)
  IN  IF mask = {} THEN [word |-> insn, ok |-> FALSE]
      ELSE [word |-> insn \cup Put(6, mb) \cup Put(1, me - 1),
            ok |-> count = 2 \/ (count = 0 /\ 31 \in mask)]

\* The extraction always calls the word invalid: a mask is never printed.
extract_mbe(insn) ==
  LET mb == Gather(insn, {<<0, 4, 6>>})
      me == Gather(insn, {<<0, 4, 1>>})
  IN  IF mb < me + 1 THEN mb .. me
      ELSE IF mb = me + 1 THEN 0 .. 31 ELSE 0 .. 31 \ (me + 1 .. mb - 1)
=============================================================================
