---------------------------- MODULE Disassembler ----------------------------
(***************************************************************************)
(* The disassembler on branches: powerpc_dialect, the rows of the opcode   *)
(* table under major opcodes 16, 18 and 19 that branch, and                *)
(* decode_insn_powerpc; and what the recompiler and the analyser make of   *)
(* the result.  The same branch is taken apart three times: by the table,  *)
(* by the PPC_ macros that find labels and blocks, and by the recompiler,  *)
(* which only sees the mnemonic and the operands.                          *)
(***************************************************************************)
EXTENDS PowerPCOperands, SequencesExt

CONSTANTS
  OptionSets, \* the words that disassembler_options may hold
  Codes,      \* the instructions that are disassembled
  Memaddr,    \* the address they are at
  Leftovers,  \* what the operands of a ppc_insn may be before
  Bases,      \* Bases[name]: the words that it is inserted into
  Samples,    \* Samples[name]: the values inserted for the operand name
  Masks,      \* the masks inserted for a rotate instruction
  MaxCalls    \* bound on the words taken apart or put together

VARIABLES
  dialect, \* info.private_data
  insn,    \* the ppc_insn of the caller, used for one word after the other
  coded,   \* the operand that was inserted last
  calls    \* the number of calls

vars == <<dialect, insn, coded, calls>>

-----------------------------------------------------------------------------
(* The dialect.                                                            *)

powerpc_dialect(options) ==
  LET Has(word, flags) == IF word \in options THEN flags ELSE {}
      machine ==
        CASE "booke" \in options -> {"BOOKE", "BOOKE64"}
          [] "e500" \in options  -> {"BOOKE", "SPE", "ISEL", "EFS", "BRLOCK", "PMR",
                                     "CACHELCK", "RFMCI"}
          [] "efs" \in options   -> {"EFS"}
          [] "e300" \in options  -> {"E300", "CLASSIC", "COMMON"}
          [] "440" \in options   -> {"BOOKE", "32", "440", "ISEL", "RFMCI"}
          [] OTHER               -> {"403", "601", "CLASSIC", "COMMON", "ALTIVEC"}
      all == {"PPC", "64"} \cup machine
               \cup Has("power4", {"POWER4"})
               \cup Has("power5", {"POWER4", "POWER5"})
               \cup Has("cell", {"POWER4", "CELL", "ALTIVEC", "VMX_128"})
               \cup Has("power6", {"POWER4", "POWER5", "POWER6", "ALTIVEC"})
               \cup Has("any", {"ANY"})
  IN  IF "32" \in options THEN all \ {"64"} ELSE all

AllDialects ==
  UNION {powerpc_dialect({"any", "cell", "power6", m}) :
           m \in {"booke", "e500", "e300", "440", ""}} \cup {"POWER", "POWER2", "NOPOWER4"}

PPCCOM   == {"PPC", "COMMON"}
NOPOWER4 == {"NOPOWER4"} \cup PPCCOM
POWER4   == {"POWER4"}
PWRCOM   == {"POWER", "601", "COMMON"}
COM      == {"POWER", "PPC", "COMMON"}

-----------------------------------------------------------------------------
(* The rows.  A row is known by what it tests, where it goes and whether   *)
(* it links: the hint of a mnemonic is not part of its PPC_INST number.    *)

At(v, shift) == {i + shift : i \in {j \in 0 .. 9 : IsSet(v, j)}}

OP(op) == At(op, 26)

OP_MASK == OP(63)

BODNZF == 0
BODZF  == 2
BODNZT == 8
BODZT  == 10
BOF    == 4
BOT    == 12
BODNZ  == 16
BODZ   == 18
BOU    == 20

CBLT == 0
CBGT == 1
CBEQ == 2
CBSO == 3

\* The masks: what BO may have besides, and the bits of BI that are fixed.
BO_MASK == 21 .. 25
BI_MASK == 16 .. 20
BB_MASK == 11 .. 15
CB_MASK == {16, 17}
B_MASK  == OP_MASK \cup {0, 1}
BBOY_MASK    == B_MASK \cup (BO_MASK \ {21})
BBOAT_MASK   == B_MASK \cup (BO_MASK \ {21, 22})
BBOATCB_MASK == BBOAT_MASK \cup CB_MASK
BBOATBI_MASK == B_MASK \cup (BO_MASK \ {21, 24}) \cup BI_MASK
XL_MASK == OP_MASK \cup 0 .. 10
XLBH_MASK == XL_MASK \cup 13 .. 15
XLBB_MASK == XL_MASK \cup BB_MASK
XLYBB_MASK == XLBB_MASK \cup {21}
XLBOBB_MASK == XLBB_MASK \cup BO_MASK
XLBOCBBB_MASK == XLBOBB_MASK \cup CB_MASK
XLBOBIBB_MASK == XLBOBB_MASK \cup BI_MASK

\* The mnemonics that test one bit of a condition field, with the flags of
\* the row that has no hint.
Conditions ==
  << <<"blt", BOT, CBLT, COM>>, <<"bgt", BOT, CBGT, COM>>, <<"beq", BOT, CBEQ, COM>>,
     <<"bso", BOT, CBSO, COM>>, <<"bun", BOT, CBSO, PPCCOM>>,
     <<"bge", BOF, CBLT, COM>>, <<"bnl", BOF, CBLT, COM>>, <<"ble", BOF, CBGT, COM>>,
     <<"bng", BOF, CBGT, COM>>, <<"bne", BOF, CBEQ, COM>>, <<"bns", BOF, CBSO, COM>>,
     <<"bnu", BOF, CBSO, PPCCOM>> >>

Row(test, to, lk, code, mask, flags, operands) ==
  [id |-> [test |-> test, to |-> to, lk |-> lk], code |-> code, mask |-> mask,
   flags |-> flags, operands |-> operands]

Each(f(_), seq) == FlattenSeq([i \in DOMAIN seq |-> f(seq[i])])

Forms == << <<0, 0>>, <<0, 1>>, <<1, 0>>, <<1, 1>> >>

\* The rows of one mnemonic of a relative or absolute branch: not taken,
\* taken, without a hint, and under its name on the POWER.
BFamily(test, old, bits, mask, hinted, plain, hintedOperands, operands) ==
  LET Four(form) ==
        LET to == IF form[1] = 1 THEN "abs" ELSE "rel"
            code == OP(16) \cup bits \cup At(form[1], 1) \cup At(form[2], 0)
            a == IF form[1] = 1 THEN "A" ELSE ""
            R(name, flags, ops) == Row(name, to, form[2], code, mask, flags, ops)
        IN  <<R(test, hinted, Append(hintedOperands, "BDM" \o a)),
              R(test, hinted, Append(hintedOperands, "BDP" \o a)),
              R(test, plain, Append(operands, "BD" \o a))>>
            \o IF old = "" THEN <<>>
               ELSE <<R(old, PWRCOM, Append(operands, "BD" \o a))>>
  IN  Each(Four, Forms)

\* The rows under major opcode 16, in the order of the table.
BRows ==
  LET Count(test, old, bo) ==
        BFamily(test, old, At(bo, 21), BBOATBI_MASK, PPCCOM, COM, <<>>, <<>>)
      Condition(c) == BFamily(c[1], "", At(c[2], 21) \cup At(c[3], 16), BBOATCB_MASK,
                              PPCCOM, c[4], <<"CR">>, <<"CR">>)
      Both(test, bo) == BFamily(test, "", At(bo, 21), BBOY_MASK, NOPOWER4, PPCCOM,
                                <<"BI">>, <<"BI">>)
      Bit(test, old, bo) == BFamily(test, old, At(bo, 21), BBOAT_MASK, PPCCOM, PPCCOM,
                                    <<"BI">>, <<"BI">>)
  IN  Count("bdnz", "bdn", BODNZ) \o Count("bdz", "", BODZ) \o Each(Condition, Conditions)
      \o Both("bdnzt", BODNZT) \o Both("bdnzf", BODNZF)
      \o Bit("bt", "bbt", BOT) \o Bit("bf", "bbf", BOF)
      \o Both("bdzt", BODZT) \o Both("bdzf", BODZF)
      \o BFamily("bc", "", {}, B_MASK, PPCCOM, COM, <<"BOE", "BI">>, <<"BO", "BI">>)

IRows ==
  Each(LAMBDA form : <<Row("b", IF form[1] = 1 THEN "abs" ELSE "rel", form[2],
                           OP(18) \cup At(form[1], 1) \cup At(form[2], 0), B_MASK, COM,
                           <<IF form[1] = 1 THEN "LIA" ELSE "LI">>)>>, Forms)

\* A faulty variant without the rows that came with POWER4.
XLFamily_Old(test, old, to, xop, bo, at, bits, mask, operands) ==
  LET Rows(lk) ==
        LET R(name, option, flags) ==
              Row(name, to, lk, OP(19) \cup At(xop, 1) \cup At(lk, 0) \cup At(option, 21) \cup bits,
                  mask, flags, operands)
        IN  <<R(test, bo, PPCCOM), R(test, bo, NOPOWER4), R(test, bo + 1, NOPOWER4)>>
            \o IF old = "" THEN <<>> ELSE <<R(old, bo, PWRCOM)>>
  IN  Rows(0) \o Rows(1)

\* The rows of one mnemonic of a branch to a register; at is the bit of BO
\* that makes a hint of the lowest one on POWER4.
XLFamily(test, old, to, xop, bo, at, bits, mask, operands) ==
  LET Rows(lk) ==
        LET R(name, option, flags) ==
              Row(name, to, lk, OP(19) \cup At(xop, 1) \cup At(lk, 0) \cup At(option, 21) \cup bits,
                  mask, flags, operands)
            power4(option) == IF at = 0 THEN <<>> ELSE <<R(test, option, POWER4)>>
        IN  <<R(test, bo, PPCCOM), R(test, bo, NOPOWER4)>> \o power4(bo + at)
            \o <<R(test, bo + 1, NOPOWER4)>> \o power4(bo + at + 1)
            \o IF old = "" THEN <<>> ELSE <<R(old, bo, PWRCOM)>>
  IN  Rows(0) \o Rows(1)

\* The rows that branch to a register under major opcode 19.
XLRows(to, xop) ==
  LET old(name) == IF to = "lr" THEN name ELSE ""
      Both(test, bo) == XLFamily(test, "", to, xop, bo, 0, {}, XLBOBB_MASK, <<"BI">>)
      Count(test, bo) == XLFamily(test, "", to, xop, bo, 8, {}, XLBOBIBB_MASK, <<>>)
      Bit(test, name, bo) == XLFamily(test, old(name), to, xop, bo, 2, {}, XLBOBB_MASK, <<"BI">>)
      Condition(c) == XLFamily(c[1], IF c[4] = COM THEN old(c[1] \o "r") ELSE "", to, xop,
                               c[2], 2, At(c[3], 16), XLBOCBBB_MASK, <<"CR">>)
      Always(lk) == LET R(name, flags) ==
                          Row(name, to, lk, OP(19) \cup At(xop, 1) \cup At(lk, 0) \cup At(BOU, 21),
                              XLBOBIBB_MASK, flags, <<>>)
                    IN  IF to = "lr" THEN <<R("b", PPCCOM), R("br", PWRCOM)>> ELSE <<R("b", COM)>>
      General(lk, y, mask, flags, ops) ==
        Row("bc", to, lk, OP(19) \cup At(xop, 1) \cup At(lk, 0) \cup At(y, 21), mask, flags, ops)
      Hint(lk, y) == General(lk, y, XLYBB_MASK, PPCCOM, <<"BOE", "BI">>)
  IN  Always(0) \o Always(1)
      \o (IF to = "lr" THEN Count("bdnz", BODNZ) \o Count("bdz", BODZ) ELSE <<>>)
      \o Each(Condition, Conditions) \o Bit("bt", "bbt", BOT) \o Bit("bf", "bbf", BOF)
      \o (IF to = "lr"
          THEN Both("bdnzt", BODNZT) \o Both("bdnzf", BODNZF)
               \o Both("bdzt", BODZT) \o Both("bdzf", BODZF)
               \o <<Hint(0, 1), Hint(1, 1), Hint(0, 0), Hint(1, 0)>>
          ELSE <<Hint(0, 0), Hint(0, 1), Hint(1, 0), Hint(1, 1)>>)
      \o <<General(0, 0, XLBH_MASK, PPCCOM, <<"BO", "BI", "BH">>),
           General(1, 0, XLBH_MASK, PPCCOM, <<"BO", "BI", "BH">>),
           General(0, 0, XLBB_MASK, PWRCOM, <<"BO", "BI">>),
           General(1, 0, XLBB_MASK, PWRCOM, <<"BO", "BI">>)>>

powerpc_opcodes == BRows \o IRows \o XLRows("lr", 16) \o XLRows("ctr", 528)

-----------------------------------------------------------------------------
(* decode_insn_powerpc.                                                    *)

NoOpcode == [test |-> "", to |-> "", lk |-> 0]

operand_value(o, word, d) == Extract(o, word, d).value

Matches(row, word, d) ==
  /\ word \cap row.mask = row.code
  /\ row.flags \cap d # {}
  /\ \A i \in DOMAIN row.operands : Extract(Operands[row.operands[i]], word, d).valid

Found(word, d) == {i \in DOMAIN powerpc_opcodes : Matches(powerpc_opcodes[i], word, d)}

\* Optional operands are left out if all that are left are zero.
skip_optional(row, from, word, d) ==
  \A i \in from .. Len(row.operands) :
     LET o == Operands[row.operands[i]]
     IN  /\ "NEXT" \notin o.flags
         /\ "OPTIONAL" \in o.flags => operand_value(o, word, d) = 0

Skipped(row, i, word, d) ==
  LET Has(j, flag) == flag \in Operands[row.operands[j]].flags
      first == CHOOSE j \in 1 .. i : Has(j, "OPTIONAL") /\ \A k \in 1 .. j - 1 : ~Has(k, "OPTIONAL")
  IN  Has(i, "FAKE") \/ (Has(i, "OPTIONAL") /\ skip_optional(row, first, word, d))

NoOperands == [i \in 1 .. 8 |-> 0]

\* The operands of a row, written over those that are there.
Decoded(row, word, d, before) ==
  [i \in 1 .. 8 |->
     IF i > Len(row.operands) \/ Skipped(row, i, word, d) THEN before[i]
     ELSE LET o == Operands[row.operands[i]]
          IN  operand_value(o, word, d) + IF "RELATIVE" \in o.flags THEN Memaddr ELSE 0]

\* A faulty variant that does not clear the operands first.
decode_insn_Stale(word, d, before) ==
  LET found == Found(word, d)
  IN  IF found # {}
      THEN LET row == powerpc_opcodes[Min(found)]
           IN  [opcode |-> row.id, instruction |-> word,
                operands |-> Decoded(row, word, d, before.operands)]
      ELSE [opcode |-> NoOpcode, instruction |-> word, operands |-> before.operands]

\* The first row that matches, of every dialect if there is none and the
\* dialect is any.
decode_insn(word, d, before) ==
  LET all   == AllDialects \ {"ANY"}
      found == Found(word, d)
      again == IF found = {} /\ "ANY" \in d THEN Found(word, all) ELSE {}
      Is(row, dial) == [opcode |-> row.id, instruction |-> word,
                        operands |-> Decoded(row, word, dial, NoOperands)]
  IN  IF found # {} THEN Is(powerpc_opcodes[Min(found)], d)
      ELSE IF again # {} THEN Is(powerpc_opcodes[Min(again)], all)
      ELSE [opcode |-> NoOpcode, instruction |-> word, operands |-> NoOperands]

-----------------------------------------------------------------------------
(* The other readers of a branch.                                          *)

PPC_OP(word) == Gather(word, {<<0, 5, 26>>})

PPC_XOP(word) == Gather(word, {<<0, 9, 1>>})

\* A faulty variant without the sign of a displacement.
PPC_BD_Unsigned(word) == Gather(word, {<<2, 15, 0>>})

PPC_BD(word) == SignExtend(Gather(word, {<<2, 15, 0>>}), 15)

PPC_BI(word) == SignExtend(Gather(word, {<<2, 25, 0>>}), 25)

PPC_BL(word) == 0 \in word

PPC_BO(word) == BOBits(word)

\* Recompile collects the labels of a function before it prints it, and
\* Analyse the functions that are called.
Labels(word) ==
  IF PPC_BL(word) THEN {}
  ELSE CASE PPC_OP(word) = 18 -> {Memaddr + PPC_BI(word)}
         [] PPC_OP(word) = 16 -> {Memaddr + PPC_BD(word)}
         [] OTHER -> {}

Called(word) ==
  IF PPC_OP(word) = 18 /\ PPC_BL(word) THEN {Memaddr + PPC_BI(word)} ELSE {}

\* printConditionalBranch and the returns: the bit, and the value it needs.
Tests ==
  [blt |-> <<CBLT, TRUE>>, bge |-> <<CBLT, FALSE>>, bgt |-> <<CBGT, TRUE>>,
   ble |-> <<CBGT, FALSE>>, beq |-> <<CBEQ, TRUE>>, bne |-> <<CBEQ, FALSE>>,
   bso |-> <<CBSO, TRUE>>, bns |-> <<CBSO, FALSE>>]

\* The branches the recompiler has a case for.  Two are not listed: blrl,
\* which becomes a debug trap, and bgtla, whose code has no state to test.
IsRecompiled(id) ==
  CASE id.to = "rel" -> \/ id.test = "b"
                        \/ /\ id.lk = 0
                           /\ id.test \in DOMAIN Tests \cup {"bdz", "bdnz", "bdnzf", "bdnzt", "bdzf"}
    [] id.to = "lr"  -> id.lk = 0 /\ id.test \in DOMAIN Tests \cup {"b", "bdz"}
    [] id.to = "ctr" -> id.test = "b" \/ (id.lk = 0 /\ id.test = "bne")
    [] OTHER -> FALSE

NoBit == -1

\* What the printed statement does: what it needs of the count register once
\* that is decremented, and of which bit of the condition register.
Printed(i) ==
  LET t == i.opcode.test
      ops == i.operands
      is  == [count |-> CASE t \in {"bdz", "bdzf"} -> "zero"
                          [] t \in {"bdnz", "bdnzf", "bdnzt"} -> "nonzero"
                          [] OTHER -> "any",
              to    |-> i.opcode.to,
              link  |-> i.opcode.lk = 1]
      On(bit, set, target) ==
        is @@ [bit |-> bit, set |-> set, target |-> IF is.to = "rel" THEN target ELSE 0]
  IN  CASE t \in {"b", "bdz", "bdnz"} -> On(NoBit, TRUE, ops[1])
        [] t \in {"bdnzf", "bdnzt"} -> On(4 * (ops[1] \div 4) + CBEQ, t = "bdnzt", ops[2])
        [] t = "bdzf" -> On(ops[1], FALSE, ops[2])
        [] OTHER -> On(4 * ops[1] + Tests[t][1], Tests[t][2], ops[2])

\* What the processor does.
Executed(word) ==
  LET bo == PPC_BO(word)
      op == PPC_OP(word)
      counts == op # 18 /\ 2 \notin bo
      tests  == op # 18 /\ 4 \notin bo
      offset == IF op = 18 THEN PPC_BI(word) ELSE PPC_BD(word)
      absolute == 1 \in word
  IN  [count |-> IF ~counts THEN "any" ELSE IF 1 \in bo THEN "zero" ELSE "nonzero",
       bit   |-> IF tests THEN Gather(word, {<<0, 4, 16>>}) ELSE NoBit,
       set   |-> tests => 3 \in bo,
       to    |-> IF op = 19 THEN IF PPC_XOP(word) = 16 THEN "lr" ELSE "ctr"
                 ELSE IF absolute THEN "abs" ELSE "rel",
       link  |-> PPC_BL(word),
       target |-> IF op = 19 THEN 0 ELSE offset + IF absolute THEN 0 ELSE Memaddr]

-----------------------------------------------------------------------------
(* The calls.                                                              *)

NotCoded == [name |-> "", value |-> 0, mask |-> {}, base |-> {}, word |-> {}, ok |-> FALSE]

\* ppc_insn insn is not initialised before the loop that uses it.
Init ==
  /\ dialect \in {powerpc_dialect(o) : o \in OptionSets}
  /\ insn \in {[opcode |-> NoOpcode, instruction |-> {}, operands |-> l] : l \in Leftovers}
  /\ coded = NotCoded
  /\ calls = 0

Disassemble(word) ==
  /\ calls < MaxCalls
  /\ calls' = calls + 1
  /\ insn' = decode_insn(word, dialect, insn)
  /\ UNCHANGED <<dialect, coded>>

InsertOperand(name, v, base) ==
  /\ calls < MaxCalls
  /\ calls' = calls + 1
  /\ coded' = Insert(Operands[name], base, v, dialect)
                @@ [name |-> name, value |-> v, base |-> base, mask |-> {}]
  /\ UNCHANGED <<dialect, insn>>

InsertMask(mask) ==
  /\ calls < MaxCalls
  /\ calls' = calls + 1
  /\ coded' = insert_mbe({}, mask)
                @@ [name |-> "mask", value |-> 0, base |-> {}, mask |-> mask]
  /\ UNCHANGED <<dialect, insn>>

Next ==
  \/ \E word \in Codes : Disassemble(word)
  \/ \E name \in DOMAIN Samples : \E v \in Samples[name], base \in Bases[name] :
        InsertOperand(name, v, base)
  \/ \E mask \in Masks : InsertMask(mask)

Spec == Init /\ [][Next]_vars

-----------------------------------------------------------------------------
(* Properties.                                                             *)

AssumesEq(i) ==
  i.opcode.test \in {"bdnzf", "bdnzt"} /\ i.operands[1] % 4 # CBEQ

\* The statement that is printed for a branch does what the branch does: it
\* counts if the branch counts, looks at the same bit of the condition
\* register for the same value, and goes to the same place.  Between the two
\* lie the masks and the order of the rows, the hints, and the operands that
\* are optional.  bdnzf and bdnzt of a bit other than eq are excepted, as the
\* comments on them say.
BranchesAreKept ==
  calls > 0 /\ IsRecompiled(insn.opcode) /\ ~AssumesEq(insn)
    => Printed(insn) = Executed(insn.instruction)

\* A goto has its label, and a call its function: the macros that collect
\* them and the extraction functions behind the printed operand agree.
TargetsAreCollected ==
  calls > 0 /\ IsRecompiled(insn.opcode) /\ insn.opcode.to = "rel"
    => Printed(insn).target \in
         IF insn.opcode.lk = 1 THEN Called(insn.instruction) ELSE Labels(insn.instruction)

TestsConditionOnly(word) == 4 \notin PPC_BO(word) /\ 2 \in PPC_BO(word)

\* No branch or return on one bit of the condition register is left out,
\* whatever its hint: each has a mnemonic that the recompiler knows.
ConditionsAreKnown ==
  /\ "POWER4" \in dialect
  /\ TestsConditionOnly(insn.instruction)
  /\ \/ PPC_OP(insn.instruction) = 16 /\ insn.instruction \cap {0, 1} = {}
     \/ /\ PPC_OP(insn.instruction) = 19 /\ PPC_XOP(insn.instruction) = 16
        /\ insn.instruction \cap ({0} \cup BB_MASK) = {}
  => IsRecompiled(insn.opcode)

\* What an insertion function puts into a word without complaint, the
\* extraction function takes out again, and calls the word valid.  The two
\* operands that are never recognised, and a time base register that is
\* written out though it is the default, are excepted.
OperandsComeBack ==
  coded.ok =>
    IF coded.name = "mask" THEN extract_mbe(coded.word) = coded.mask
    ELSE LET o == Operands[coded.name]
             x == Extract(o, coded.word, dialect)
         IN  /\ o.by # "tbr" \/ coded.value # TB => x.value = coded.value
             /\ o.by = "nsi" \/ x.valid

=============================================================================
