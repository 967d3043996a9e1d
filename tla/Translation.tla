----------------------------- MODULE Translation -----------------------------
(***************************************************************************)
(* The control flow of recompiled code: Recompiler::Recompile prints one   *)
(* guest function word by word, as statements of C++, and one invocation   *)
(* of the printed function then runs.  GuestFunction says what the         *)
(* invocation has to do; Guest!Spec, at the end, that it does it.          *)
(*                                                                         *)
(* Mid-asm hooks, setjmp and longjmp are left out here: see FlushMode.     *)
(***************************************************************************)
EXTENDS Integers, Sequences

CONSTANTS
  Length,     \* words of the function
  Modulus,    \* values of the low half of a register
  Conditions, \* values of the condition field: the bits that are set
  Functions,  \* the addresses that have a function symbol
  Elided,     \* the __save and __rest functions, when registers are locals
  Addends,    \* what is added to a word to make the index of a jump table
  Programs    \* the functions, each with the jump tables of the TOML file

Words == 0 .. Length - 1

CondMnemonics == {"beq", "bne", "blt", "bge", "bgt", "ble", "bso", "bns"}

CountMnemonics == {"bdz", "bdnz", "bdnzf", "bdnzt", "bdzf"}

Bits == {"lt", "gt", "eq", "so"}

\* A word, by what it does to control.  "compute" is every instruction that
\* is no branch; bctr has the labels of its jump table, or none.
Instruction ==
       [op : {"compute", "bctrl", "bnectr", "blr", "bdzlr"}]
  \cup [op : {"b", "bl"}, target : Int]
  \cup [op : {"bc"}, mnemonic : CondMnemonics, target : Int]
  \cup [op : {"bclr"}, mnemonic : CondMnemonics]
  \cup [op : {"bd"}, mnemonic : CountMnemonics, bit : Bits, target : Words]
  \cup [op : {"bctr"}, labels : Seq(Words)]

Window(c, w) == {b \in 0 .. w : \A v \in b .. w - 1 : c[v].op # "bctr"}

\* What the printed function is faithful under.  Control does not run past
\* the last word.  Whatever is called has a symbol.  The jump tables are
\* those of the code: a table is listed at a word from which its bctr is the
\* next one.  bdnzf and bdnzt test eq, as the comments on them assume.
WellFormed(p) ==
  /\ p.code[Length - 1].op \in {"b", "bctr", "blr"}
  /\ \A w \in Words : p.code[w].op \in {"b", "bc"} =>
        p.code[w].target \in Words \cup Functions
  /\ \A w \in Words : p.code[w].op = "bl" => p.code[w].target \in Functions
  /\ \A w \in Words : p.code[w].op = "bctr" =>
        LET listed == Window(p.code, w) \cap DOMAIN p.tables
        IN  IF p.code[w].labels = <<>>
            THEN listed = {}
            ELSE listed # {} /\ \A b \in listed : p.tables[b] = p.code[w].labels
  /\ \A w \in Words : p.code[w].op = "bd" /\ p.code[w].mnemonic \in {"bdnzf", "bdnzt"} =>
        p.code[w].bit = "eq"

ASSUME TranslationAssumption ==
  /\ Length \in Nat \ {0}
  /\ Modulus \in Nat \ {0}
  /\ Conditions \subseteq SUBSET Bits
  /\ Functions \subseteq Int
  /\ Elided \subseteq Functions \ (0 .. Modulus - 1)
  /\ Addends \subseteq Int
  /\ \A p \in Programs :
        /\ p.code \in [Words -> Instruction]
        /\ p.tables \in [DOMAIN p.tables -> Seq(Words)]
        /\ DOMAIN p.tables \subseteq Words
        /\ WellFormed(p)

\* No jump table is held.
None == -1

VARIABLES
  code,    \* the function, fixed
  tables,  \* config.switchTables in the function, fixed
  at,      \* "print", "run", "returned", or "unreachable": undefined behaviour
  word,    \* the word being printed, then the word being run
  held,    \* switchTable: where the table that the next bctr gets is listed
  printed, \* printed[w]: the statements printed for word w
  stmt,    \* the statement of word that runs next
  cr,      \* the condition field
  ctr,     \* the low half of ctr
  called   \* the last call, and the parity of the number of calls

vars == <<code, tables, at, word, held, printed, stmt, cr, ctr, called>>

printVars == <<code, tables, held, printed>>

-----------------------------------------------------------------------------
(* Printing.  A statement does something when a condition holds, which may *)
(* look at the count register and at one bit of the condition field.       *)

Always == [count |-> "any", bits |-> {}, set |-> TRUE]

OnBit(b, v) == [count |-> "any", bits |-> {b}, set |-> v]

OnCount(c) == [count |-> c, bits |-> {}, set |-> TRUE]

\* The condition printed for a conditional branch or return.
Test(m) ==
  CASE m = "beq" -> OnBit("eq", TRUE)  [] m = "bne" -> OnBit("eq", FALSE)
    [] m = "blt" -> OnBit("lt", TRUE)  [] m = "bge" -> OnBit("lt", FALSE)
    [] m = "bgt" -> OnBit("gt", TRUE)  [] m = "ble" -> OnBit("gt", FALSE)
    [] m = "bso" -> OnBit("so", TRUE)  [] m = "bns" -> OnBit("so", FALSE)

\* The one printed behind a decrement.  Of these only bdzf looks up the bit
\* that the instruction names.
CountTest(m, bit) ==
  CASE m = "bdz"   -> OnCount("zero")
    [] m = "bdnz"  -> OnCount("nonzero")
    [] m = "bdnzf" -> [count |-> "nonzero", bits |-> {"eq"}, set |-> FALSE]
    [] m = "bdnzt" -> [count |-> "nonzero", bits |-> {"eq"}, set |-> TRUE]
    [] m = "bdzf"  -> [count |-> "zero", bits |-> {bit}, set |-> FALSE]

Do(what)       == [do |-> what, when |-> Always]
If(test, what) == [do |-> what, when |-> test]
Goto(test, t)  == [do |-> "goto", when |-> test, to |-> t]

\* printFunctionCall: a function that has no symbol is not called, nor one
\* that would only move registers which are locals of the printed function.
IsCalled(t) == t \in Functions \ Elided

\* A branch, as far as test holds: a goto in the function, a call and a
\* return out of it.
To(test, t) ==
  IF t \in Words THEN Goto(test, t)
  ELSE IF IsCalled(t) THEN [do |-> "tailcall", when |-> test, to |-> t]
       ELSE If(test, "return")

\* The statements of word w, if the table listed at h is held.
Text(w, h) ==
  LET i == code[w] IN
  CASE i.op = "compute" -> <<Do("compute")>>
    [] i.op = "b"       -> <<To(Always, i.target)>>
    [] i.op = "bc"      -> <<To(Test(i.mnemonic), i.target)>>
    [] i.op = "bclr"    -> <<If(Test(i.mnemonic), "return")>>
    [] i.op = "bd"      -> <<Do("decrement"), Goto(CountTest(i.mnemonic, i.bit), i.target)>>
    [] i.op = "bdzlr"   -> <<Do("decrement"), If(OnCount("zero"), "return")>>
    [] i.op = "bl"      -> IF IsCalled(i.target)
                           THEN <<[do |-> "call", when |-> Always, to |-> i.target]>> ELSE <<>>
    [] i.op = "bctrl"   -> <<Do("callctr")>>
    [] i.op = "bctr"    -> IF h # None
                           THEN <<[do |-> "switch", when |-> Always, labels |-> tables[h]]>>
                           ELSE <<Do("tailcallctr")>>
    [] i.op = "bnectr"  -> <<If(Test("bne"), "tailcallctr")>>
    [] i.op = "blr"     -> <<Do("return")>>

\* A faulty variant that forgets the jump tables.
BranchTargets ==
  {code[w].target : w \in {v \in Words : code[v].op \in {"b", "bc", "bd"}}}

\* The labels, from the opcodes and the tables before anything is printed.
Labels ==
       {code[w].target : w \in {v \in Words : code[v].op \in {"b", "bc", "bd"}}}
  \cup UNION {{tables[b][i] : i \in DOMAIN tables[b]} : b \in DOMAIN tables}

-----------------------------------------------------------------------------
Init ==
  /\ \E p \in Programs : code = p.code /\ tables = p.tables
  /\ at = "print"
  /\ word = 0
  /\ held = None
  /\ printed = [w \in Words |-> <<>>]
  /\ stmt = 1
  /\ cr \in Conditions
  /\ ctr \in 0 .. Modulus - 1
  /\ called = [to |-> 0, parity |-> 0]

\* The table listed at this word is taken up if none is held.
TakeUp(h) == IF h = None /\ word \in DOMAIN tables THEN word ELSE h

\* A faulty variant that gives one table to every bctr from there on.
KeepTable(h) == h

\* A bctr uses the table up.
UseTable(h) == IF code[word].op = "bctr" THEN None ELSE h

PrintWord ==
  /\ at = "print"
  /\ word < Length
  /\ printed' = [printed EXCEPT ![word] = Text(word, TakeUp(held))]
  /\ held' = UseTable(TakeUp(held))
  /\ word' = word + 1
  /\ UNCHANGED <<code, tables, at, stmt, cr, ctr, called>>

Enter ==
  /\ at = "print"
  /\ word = Length
  /\ at' = "run"
  /\ word' = 0
  /\ UNCHANGED <<code, tables, held, printed, stmt, cr, ctr, called>>

-----------------------------------------------------------------------------
(* Running.                                                                *)

Statement == printed[word][stmt]

HasStatement == at = "run" /\ stmt <= Len(printed[word])

Holds(test) ==
  /\ test.count = "zero" => ctr = 0
  /\ test.count = "nonzero" => ctr # 0
  /\ IF test.set THEN test.bits \subseteq cr ELSE test.bits \cap cr = {}

Does(what) == HasStatement /\ Statement.do \in what /\ Holds(Statement.when)

\* On to the next statement, of this word or of the next one.  Behind the
\* last word the printed function ends.
GoOn ==
  IF stmt < Len(printed[word])
  THEN stmt' = stmt + 1 /\ UNCHANGED <<at, word>>
  ELSE IF word < Length - 1
       THEN stmt' = 1 /\ word' = word + 1 /\ UNCHANGED at
       ELSE at' = "returned" /\ UNCHANGED <<stmt, word>>

\* Nothing was printed, or its condition does not hold.
Skip ==
  /\ at = "run"
  /\ HasStatement => ~Holds(Statement.when)
  /\ GoOn
  /\ UNCHANGED <<printVars, cr, ctr, called>>

Compute ==
  /\ Does({"compute"})
  /\ cr' \in Conditions
  /\ ctr' \in 0 .. Modulus - 1
  /\ GoOn
  /\ UNCHANGED <<printVars, called>>

Decrement ==
  /\ Does({"decrement"})
  /\ ctr' = (ctr + Modulus - 1) % Modulus
  /\ GoOn
  /\ UNCHANGED <<printVars, cr, called>>

Callee == IF Statement.do \in {"callctr", "tailcallctr"} THEN ctr ELSE Statement.to

Called == called' = [to |-> Callee, parity |-> 1 - called.parity]

\* The callee leaves any condition and any count.
Call ==
  /\ Does({"call", "callctr"})
  /\ Called
  /\ cr' \in Conditions
  /\ ctr' \in 0 .. Modulus - 1
  /\ GoOn
  /\ UNCHANGED printVars

TailCall ==
  /\ Does({"tailcall", "tailcallctr"})
  /\ Called
  /\ at' = "returned"
  /\ UNCHANGED <<printVars, word, stmt, cr, ctr>>

Return ==
  /\ Does({"return"})
  /\ at' = "returned"
  /\ UNCHANGED <<printVars, word, stmt, cr, ctr, called>>

Jump(t) == word' = t /\ stmt' = 1 /\ UNCHANGED at

TakeGoto ==
  /\ Does({"goto"})
  /\ Jump(Statement.to)
  /\ UNCHANGED <<printVars, cr, ctr, called>>

\* The index is a word (lwz) to which something has been added (addi): a
\* sum of 64 bits.  The compare before the switch (cmplwi) has looked at the
\* low half of it, the switch looks at both.
Switch ==
  /\ Does({"switch"})
  /\ \E n \in 0 .. Modulus - 1, k \in Addends :
       LET index == (n + k) % (Modulus * Modulus)
           size  == Len(Statement.labels)
       IN  /\ index % Modulus < size
           /\ IF index < size THEN Jump(Statement.labels[index + 1])
                              ELSE at' = "unreachable" /\ UNCHANGED <<word, stmt>>
  /\ UNCHANGED <<printVars, cr, ctr, called>>

Next ==
  \/ PrintWord \/ Enter
  \/ Skip \/ Compute \/ Decrement \/ Call \/ TailCall \/ Return \/ TakeGoto \/ Switch

Spec == Init /\ [][Next]_vars

-----------------------------------------------------------------------------
Statements ==
       [do : {"compute", "decrement", "callctr", "tailcallctr", "return"},
        when : [count : {"any", "zero", "nonzero"}, bits : SUBSET Bits, set : BOOLEAN]]
  \cup [do : {"goto", "call", "tailcall"},
        when : [count : {"any", "zero", "nonzero"}, bits : SUBSET Bits, set : BOOLEAN],
        to : Int]
  \cup [do : {"switch"}, when : {Always}, labels : Seq(Words)]

\* Control never comes to a place that has no statement to be at: running,
\* it is at a word of the function, and past the words that print nothing at
\* one of the statements printed for it.
TypeOK ==
  /\ at \in {"print", "run", "returned", "unreachable"}
  /\ word \in 0 .. Length
  /\ held \in Words \cup {None}
  /\ printed \in [Words -> Seq(Statements)]
  /\ at # "print" => word \in Words /\ stmt \in 1 .. (IF printed[word] = <<>> THEN 1 ELSE Len(printed[word]))
  /\ cr \in SUBSET Bits
  /\ ctr \in 0 .. Modulus - 1
  /\ called \in [to : Int, parity : {0, 1}]

\* The labels are found by looking at opcodes before the function is printed,
\* the gotos are printed from the decoded instructions and the held table:
\* every goto that is printed names a label of the function.
GotosResolve ==
  \A w \in Words : \A k \in DOMAIN printed[w] :
    LET s == printed[w][k] IN
    /\ s.do = "goto" => s.to \in Labels \cap Words
    /\ s.do = "switch" => \A i \in DOMAIN s.labels : s.labels[i] \in Labels \cap Words

\* A switch is printed with "default: __builtin_unreachable();" (lines 668 and
\* 669 of recompiler.cpp): the register it reads always selects a label.
DefaultIsUnreachable == at # "unreachable"

\* Between the two statements of a branch on the count register the guest is
\* still at the branch.
Decremented ==
  at = "run" /\ stmt = 2 /\ printed[word][1].do = "decrement"

Codes == {p.code : p \in Programs}

Guest == INSTANCE GuestFunction WITH
  at    <- IF at = "returned" THEN "returned" ELSE "running",
  word  <- IF at = "print" THEN 0 ELSE word,
  ctr   <- IF Decremented THEN (ctr + 1) % Modulus ELSE ctr

\* The printed function does what the guest function does: it takes the same
\* branches, makes the same calls in the same order and returns when it does.
DoesWhatTheGuestDoes == Guest!Spec
=============================================================================
