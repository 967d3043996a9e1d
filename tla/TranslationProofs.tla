------------------------- MODULE TranslationProofs -------------------------
(***************************************************************************)
(* That the printed function does what the guest function does, for every  *)
(* function and every listing of its jump tables.                          *)
(*                                                                         *)
(* IInv: each word that has been printed is what that word calls for,      *)
(* whatever was held in front of it (PrintInv), because the table that is  *)
(* held is one of those listed since the last bctr (HeldInv); and control  *)
(* is at a statement of a word (PlaceInv).  Then each step of the running  *)
(* function is a step of the guest or a stutter: the lemmas ...Simulates   *)
(* and ...Stutters, one for each action.                                   *)
(***************************************************************************)
EXTENDS Translation, TLAPS

\* The tables listed where the next bctr is the one at w, or would be.
Open(w) == Window(code, w) \cap DOMAIN tables

\* What has to be printed for word w, whatever table is held.
Wanted(w) ==
  IF code[w].op = "bctr" /\ code[w].labels # <<>>
  THEN <<[do |-> "switch", when |-> Always, labels |-> code[w].labels]>>
  ELSE Text(w, None)

ProgramInv == \E p \in Programs : code = p.code /\ tables = p.tables

\* In front of a word a table is held if one is open, and it is one of these.
HeldInv ==
  /\ held \in Words \cup {None}
  /\ at = "print" =>
       IF Open(word) \ {word} = {} THEN held = None ELSE held \in Open(word) \ {word}

PrintInv ==
  printed = [w \in Words |-> IF at = "print" /\ word <= w THEN <<>> ELSE Wanted(w)]

\* Only a branch on the count register has a second statement.
PlaceInv ==
  /\ at \in {"print", "run", "returned", "unreachable"}
  /\ word \in 0 .. Length
  /\ at # "print" => word \in Words
  /\ stmt \in {1, 2}
  /\ stmt = 2 => at # "print" /\ code[word].op \in {"bd", "bdzlr"}

RegisterInv ==
  /\ cr \in Conditions
  /\ ctr \in 0 .. Modulus - 1
  /\ called \in [to : Int, parity : {0, 1}]

IInv == ProgramInv /\ HeldInv /\ PrintInv /\ PlaceInv /\ RegisterInv

-----------------------------------------------------------------------------
(* The program.                                                            *)

\* What the code and the tables of an invocation are.
LEMMA ProgramFacts ==
  ASSUME ProgramInv
  PROVE  /\ code \in [Words -> Instruction]
         /\ tables \in [DOMAIN tables -> Seq(Words)]
         /\ DOMAIN tables \subseteq Words
         /\ code[Length - 1].op \in {"b", "bctr", "blr"}
         /\ \A w \in Words : code[w].op \in {"b", "bc"} =>
               code[w].target \in Words \cup Functions
         /\ \A w \in Words : code[w].op = "bl" => code[w].target \in Functions
         /\ \A w \in Words : code[w].op = "bctr" =>
               IF code[w].labels = <<>> THEN Open(w) = {}
               ELSE Open(w) # {} /\ \A b \in Open(w) : tables[b] = code[w].labels
         /\ \A w \in Words : code[w].op = "bd" /\ code[w].mnemonic \in {"bdnzf", "bdnzt"} =>
               code[w].bit = "eq"
<1>1. PICK p \in Programs : code = p.code /\ tables = p.tables
  BY DEF ProgramInv
<1>2. /\ p.code \in [Words -> Instruction]
      /\ p.tables \in [DOMAIN p.tables -> Seq(Words)]
      /\ DOMAIN p.tables \subseteq Words
      /\ WellFormed(p)
  BY TranslationAssumption
<1>3. QED
  BY <1>1, <1>2 DEF WellFormed, Open

\* The fields of an instruction.
LEMMA Fields ==
  ASSUME NEW i \in Instruction
  PROVE  /\ i.op \in {"compute", "bctrl", "bnectr", "blr", "bdzlr", "b", "bl", "bc",
                      "bclr", "bd", "bctr"}
         /\ i.op \in {"b", "bl", "bc"} => i.target \in Int
         /\ i.op \in {"bc", "bclr"} => i.mnemonic \in CondMnemonics
         /\ i.op = "bd" => i.mnemonic \in CountMnemonics /\ i.bit \in Bits /\ i.target \in Words
         /\ i.op = "bctr" => i.labels \in Seq(Words)
<1>1. CASE i \in [op : {"compute", "bctrl", "bnectr", "blr", "bdzlr"}]
  BY <1>1
<1>2. CASE i \in [op : {"b", "bl"}, target : Int]
  BY <1>2
<1>3. CASE i \in [op : {"bc"}, mnemonic : CondMnemonics, target : Int]
  BY <1>3
<1>4. CASE i \in [op : {"bclr"}, mnemonic : CondMnemonics]
  BY <1>4
<1>5. CASE i \in [op : {"bd"}, mnemonic : CountMnemonics, bit : Bits, target : Words]
  BY <1>5
<1>6. CASE i \in [op : {"bctr"}, labels : Seq(Words)]
  BY <1>6
<1>7. QED
  BY <1>1, <1>2, <1>3, <1>4, <1>5, <1>6 DEF Instruction

\* The statements of a word whose text is the wanted one.
LEMMA WantedStatements ==
  ASSUME NEW w \in Words
  PROVE  LET i == code[w]
             s == Wanted(w)
         IN  /\ i.op = "compute" => s = <<Do("compute")>>
             /\ i.op = "b" => s = <<To(Always, i.target)>>
             /\ i.op = "bc" => s = <<To(Test(i.mnemonic), i.target)>>
             /\ i.op = "bclr" => s = <<If(Test(i.mnemonic), "return")>>
             /\ i.op = "bd" =>
                  s = <<Do("decrement"), Goto(CountTest(i.mnemonic, i.bit), i.target)>>
             /\ i.op = "bdzlr" => s = <<Do("decrement"), If(OnCount("zero"), "return")>>
             /\ i.op = "bl" =>
                  s = IF IsCalled(i.target)
                      THEN <<[do |-> "call", when |-> Always, to |-> i.target]>> ELSE <<>>
             /\ i.op = "bctrl" => s = <<Do("callctr")>>
             /\ i.op = "bctr" =>
                  s = IF i.labels # <<>>
                      THEN <<[do |-> "switch", when |-> Always, labels |-> i.labels]>>
                      ELSE <<Do("tailcallctr")>>
             /\ i.op = "bnectr" => s = <<If(Test("bne"), "tailcallctr")>>
             /\ i.op = "blr" => s = <<Do("return")>>
  BY DEF Wanted, Text

-----------------------------------------------------------------------------
(* The statement that runs next.                                           *)

\* What the text of a running word says about the statement it is at.
LEMMA StatementIs ==
  ASSUME IInv, at = "run"
  PROVE  LET i == code[word]
             n == Len(printed[word])
         IN  /\ word \in Words
             /\ i \in Instruction
             /\ i.op \in {"bd", "bdzlr"} => n = 2
             /\ i.op \notin {"bd", "bdzlr"} => stmt = 1
             /\ i.op = "bl" /\ ~IsCalled(i.target) => n = 0
             /\ i.op \notin {"bd", "bdzlr", "bl"} => n = 1
             /\ i.op = "compute" => Statement = Do("compute")
             /\ i.op = "b" => Statement = To(Always, i.target)
             /\ i.op = "bc" => Statement = To(Test(i.mnemonic), i.target)
             /\ i.op = "bclr" => Statement = If(Test(i.mnemonic), "return")
             /\ i.op = "bd" => printed[word][1] = Do("decrement")
             /\ i.op = "bd" /\ stmt = 1 => Statement = Do("decrement")
             /\ i.op = "bd" /\ stmt = 2 =>
                  Statement = Goto(CountTest(i.mnemonic, i.bit), i.target)
             /\ i.op = "bdzlr" => printed[word][1] = Do("decrement")
             /\ i.op = "bdzlr" /\ stmt = 1 => Statement = Do("decrement")
             /\ i.op = "bdzlr" /\ stmt = 2 => Statement = If(OnCount("zero"), "return")
             /\ i.op = "bl" /\ IsCalled(i.target) =>
                  n = 1 /\ Statement = [do |-> "call", when |-> Always, to |-> i.target]
             /\ i.op = "bctrl" => Statement = Do("callctr")
             /\ i.op = "bctr" /\ i.labels # <<>> =>
                  Statement = [do |-> "switch", when |-> Always, labels |-> i.labels]
             /\ i.op = "bctr" /\ i.labels = <<>> => Statement = Do("tailcallctr")
             /\ i.op = "bnectr" => Statement = If(Test("bne"), "tailcallctr")
             /\ i.op = "blr" => Statement = Do("return")
<1> DEFINE i == code[word]
<1>1. word \in Words /\ i \in Instruction /\ stmt \in {1, 2}
  BY ProgramFacts DEF IInv, PlaceInv
<1>2. i.op \notin {"bd", "bdzlr"} => stmt = 1
  BY DEF IInv, PlaceInv
<1>3. printed[word] = Wanted(word)
  BY <1>1 DEF IInv, PrintInv
<1>4. i.op \in {"compute", "bctrl", "bnectr", "blr", "bdzlr", "b", "bl", "bc",
                "bclr", "bd", "bctr"}
  BY <1>1, Fields
<1>5. CASE i.op \in {"compute", "bctrl", "bnectr", "blr", "b", "bc", "bclr"}
  BY <1>1, <1>2, <1>3, <1>5, WantedStatements DEF Statement
<1>6. CASE i.op \in {"bd", "bdzlr"}
  BY <1>1, <1>2, <1>3, <1>6, WantedStatements DEF Statement
<1>7. CASE i.op = "bl"
  BY <1>1, <1>2, <1>3, <1>7, WantedStatements DEF Statement
<1>8. CASE i.op = "bctr"
  BY <1>1, <1>2, <1>3, <1>8, WantedStatements DEF Statement
<1>9. QED
  BY <1>1, <1>2, <1>4, <1>5, <1>6, <1>7, <1>8

\* In the function or out of it, To goes where it has to.
LEMMA ToIs ==
  ASSUME NEW test, NEW t
  PROVE  /\ To(test, t).when = test
         /\ t \in Words => To(test, t).do = "goto" /\ To(test, t).to = t
         /\ t \notin Words /\ IsCalled(t) => To(test, t).do = "tailcall" /\ To(test, t).to = t
         /\ t \notin Words /\ ~IsCalled(t) => To(test, t).do = "return"
<1>1. CASE t \in Words
  BY <1>1 DEF To, Goto
<1>2. CASE t \notin Words /\ IsCalled(t)
  BY <1>2 DEF To
<1>3. CASE t \notin Words /\ ~IsCalled(t)
  BY <1>3 DEF To, If
<1>4. QED
  BY <1>1, <1>2, <1>3

-----------------------------------------------------------------------------
(* Printing keeps the invariant.                                           *)

\* Which tables are open for the next word.
LEMMA OpenNext ==
  ASSUME NEW w \in Words, DOMAIN tables \subseteq Words
  PROVE  /\ code[w].op = "bctr" => Open(w + 1) \ {w + 1} = {}
         /\ code[w].op # "bctr" => Open(w + 1) \ {w + 1} = Open(w)
         /\ w \in DOMAIN tables <=> w \in Open(w)
  BY TranslationAssumption DEF Open, Window, Words

\* What is printed for a word that is as wanted.
LEMMA TextIsWanted ==
  ASSUME ProgramInv, HeldInv, at = "print", word \in Words
  PROVE  Text(word, TakeUp(held)) = Wanted(word)
<1> DEFINE h == TakeUp(held)
           i == code[word]
<1>1. DOMAIN tables \subseteq Words
  BY ProgramFacts
<1>2. word \in DOMAIN tables <=> word \in Open(word)
  BY <1>1, OpenNext
<1>3. IF Open(word) = {} THEN h = None ELSE h \in Open(word)
  BY <1>2 DEF HeldInv, TakeUp
<1>4. h \in Open(word) => h # None
  BY TranslationAssumption DEF Open, Window, None
<1>5. CASE i.op # "bctr"
  <2>1. Text(word, h) = Text(word, None)
    BY <1>5 DEF Text
  <2>2. QED
    BY <1>5, <2>1 DEF Wanted
<1>6. CASE i.op = "bctr" /\ i.labels = <<>>
  <2>1. h = None
    BY <1>3, <1>6, ProgramFacts
  <2>2. QED
    BY <1>6, <2>1 DEF Wanted
<1>7. CASE i.op = "bctr" /\ i.labels # <<>>
  <2>1. h # None /\ tables[h] = i.labels
    BY <1>3, <1>4, <1>7, ProgramFacts
  <2>2. QED
    BY <1>7, <2>1 DEF Wanted, Text
<1>8. QED
  BY <1>5, <1>6, <1>7

\* PrintWord keeps the invariant.
LEMMA PrintWordKeeps ==
  ASSUME IInv, PrintWord
  PROVE  IInv'
<1>1. /\ at = "print" /\ at' = "print" /\ word \in Words /\ word' = word + 1
      /\ code' = code /\ tables' = tables
      /\ held' = UseTable(TakeUp(held))
      /\ printed' = [printed EXCEPT ![word] = Text(word, TakeUp(held))]
  BY TranslationAssumption DEF PrintWord, IInv, PlaceInv, Words
<1>2. ProgramInv'
  BY <1>1 DEF IInv, ProgramInv
<1>3. DOMAIN tables \subseteq Words
  BY ProgramFacts DEF IInv
<1>4. HeldInv'
  <2>1. IF Open(word) = {} THEN TakeUp(held) = None ELSE TakeUp(held) \in Open(word)
    BY <1>1, <1>3, OpenNext DEF IInv, HeldInv, TakeUp
  <2>2. IF Open(word + 1) \ {word + 1} = {} THEN held' = None
        ELSE held' \in Open(word + 1) \ {word + 1}
    BY <1>1, <1>3, <2>1, OpenNext DEF UseTable
  <2>3. Open(word)' = Open(word + 1)
    BY <1>1 DEF Open, Window
  <2>4. held' \in Words \cup {None}
    BY <1>1 DEF IInv, HeldInv, UseTable, TakeUp
  <2>5. QED
    BY <1>1, <2>2, <2>3, <2>4 DEF HeldInv
<1>5. PrintInv'
  <2>1. \A w \in Words : Wanted(w)' = Wanted(w)
    BY <1>1 DEF Wanted, Text
  <2>2. Text(word, TakeUp(held)) = Wanted(word)
    BY <1>1, TextIsWanted DEF IInv
  <2>3. \A w \in Words : word + 1 <= w <=> word <= w /\ w # word
    BY <1>1 DEF Words
  <2>4. printed = [w \in Words |-> IF word <= w THEN <<>> ELSE Wanted(w)]
    BY <1>1 DEF IInv, PrintInv
  <2>5. printed' = [w \in Words |-> IF word + 1 <= w THEN <<>> ELSE Wanted(w)]
    BY <1>1, <2>2, <2>3, <2>4
  <2>6. QED
    BY <1>1, <2>1, <2>5 DEF PrintInv
<1>6. PlaceInv' /\ RegisterInv'
  BY <1>1, TranslationAssumption DEF IInv, PlaceInv, RegisterInv, PrintWord, Words
<1>7. QED
  BY <1>2, <1>4, <1>5, <1>6 DEF IInv

\* Enter keeps the invariant.
LEMMA EnterKeeps ==
  ASSUME IInv, Enter
  PROVE  IInv'
<1>1. /\ at = "print" /\ at' = "run" /\ word = Length /\ word' = 0 /\ 0 \in Words
      /\ code' = code /\ tables' = tables /\ held' = held /\ printed' = printed
  BY TranslationAssumption DEF Enter, Words
<1>2. ProgramInv' /\ HeldInv'
  BY <1>1 DEF IInv, ProgramInv, HeldInv
<1>3. PrintInv'
  <2>1. \A w \in Words : Wanted(w)' = Wanted(w)
    BY <1>1 DEF Wanted, Text
  <2>2. \A w \in Words : ~(word <= w)
    BY <1>1, TranslationAssumption DEF Words
  <2>3. printed = [w \in Words |-> Wanted(w)]
    BY <1>1, <2>2 DEF IInv, PrintInv
  <2>4. QED
    BY <1>1, <2>1, <2>3 DEF PrintInv
<1>4. PlaceInv' /\ RegisterInv'
  BY <1>1, TranslationAssumption DEF IInv, PlaceInv, RegisterInv, Enter, Words
<1>5. QED
  BY <1>2, <1>3, <1>4 DEF IInv

-----------------------------------------------------------------------------
(* Running keeps the invariant.                                            *)

\* Which words have a statement that does this or that.
LEMMA StatementKinds ==
  ASSUME IInv, HasStatement
  PROVE  LET i == code[word]
             s == Statement
         IN  /\ s.do = "compute" => i.op = "compute"
             /\ s.do = "decrement" => i.op \in {"bd", "bdzlr"} /\ stmt = 1
             /\ s.do = "call" => i.op = "bl" /\ s.to = i.target /\ IsCalled(i.target)
             /\ s.do = "callctr" => i.op = "bctrl"
             /\ s.do = "tailcall" =>
                  i.op \in {"b", "bc"} /\ s.to = i.target /\ i.target \notin Words
                  /\ IsCalled(i.target)
             /\ s.do = "tailcallctr" =>
                  \/ i.op = "bctr" /\ i.labels = <<>>
                  \/ i.op = "bnectr"
             /\ s.do = "return" =>
                  \/ i.op \in {"blr", "bclr"}
                  \/ i.op = "bdzlr" /\ stmt = 2
                  \/ i.op \in {"b", "bc"} /\ i.target \notin Words /\ ~IsCalled(i.target)
             /\ s.do = "goto" =>
                  /\ s.to = i.target
                  /\ s.to \in Words
                  /\ \/ i.op \in {"b", "bc"}
                     \/ i.op = "bd" /\ stmt = 2
             /\ s.do = "switch" =>
                  i.op = "bctr" /\ i.labels # <<>> /\ s.labels = i.labels
<1> DEFINE i == code[word]
<1>1. at = "run" /\ stmt <= Len(printed[word])
  BY DEF HasStatement
<1>2. word \in Words /\ i \in Instruction /\ stmt \in {1, 2}
  BY <1>1, StatementIs DEF IInv, PlaceInv
<1>3. CASE i.op \in {"compute", "bctrl", "bnectr", "blr", "bclr"}
  BY <1>1, <1>3, StatementIs DEF Do, If
<1>4. CASE i.op \in {"b", "bc"}
  <2>1. PICK test : Statement = To(test, i.target)
    BY <1>1, <1>4, StatementIs
  <2>2. CASE i.target \in Words
    <3>1. Statement.do = "goto" /\ Statement.to = i.target
      BY <2>1, <2>2, ToIs
    <3>2. QED
      BY <1>4, <2>2, <3>1
  <2>3. CASE i.target \notin Words /\ IsCalled(i.target)
    <3>1. Statement.do = "tailcall" /\ Statement.to = i.target
      BY <2>1, <2>3, ToIs
    <3>2. QED
      BY <1>4, <2>3, <3>1
  <2>4. CASE i.target \notin Words /\ ~IsCalled(i.target)
    <3>1. Statement.do = "return"
      BY <2>1, <2>4, ToIs
    <3>2. QED
      BY <1>4, <2>4, <3>1
  <2>5. QED
    BY <2>2, <2>3, <2>4
<1>5. CASE i.op \in {"bd", "bdzlr"}
  <2>1. CASE stmt = 1
    BY <1>1, <1>5, <2>1, StatementIs DEF Do
  <2>2. CASE i.op = "bd" /\ stmt = 2
    <3>1. i.target \in Words
      BY <1>2, <2>2, Fields
    <3>2. Statement = Goto(CountTest(i.mnemonic, i.bit), i.target)
      BY <1>1, <2>2, StatementIs
    <3>3. Statement.do = "goto" /\ Statement.to = i.target
      BY <3>2 DEF Goto
    <3>4. QED
      BY <2>2, <3>1, <3>3
  <2>3. CASE i.op = "bdzlr" /\ stmt = 2
    BY <1>1, <2>3, StatementIs DEF If
  <2>4. QED
    BY <1>2, <1>5, <2>1, <2>2, <2>3
<1>6. CASE i.op = "bl"
  <2>1. IsCalled(i.target)
    BY <1>1, <1>2, <1>6, StatementIs
  <2>2. QED
    BY <1>1, <1>6, <2>1, StatementIs
<1>7. CASE i.op = "bctr"
  BY <1>1, <1>7, StatementIs DEF Do
<1>8. QED
  BY <1>2, <1>3, <1>4, <1>5, <1>6, <1>7, Fields

\* The invariant's parts about the program and its text, kept by any step
\* that leaves these alone.
LEMMA TextKept ==
  ASSUME IInv, at = "run", at' # "print", UNCHANGED printVars, PlaceInv', RegisterInv'
  PROVE  IInv'
<1>1. code' = code /\ tables' = tables /\ held' = held /\ printed' = printed
  BY DEF printVars
<1>2. ProgramInv' /\ HeldInv'
  BY <1>1 DEF IInv, ProgramInv, HeldInv
<1>3. PrintInv'
  <2>1. \A w \in Words : Wanted(w)' = Wanted(w)
    BY <1>1 DEF Wanted, Text
  <2>2. printed = [w \in Words |-> Wanted(w)]
    BY DEF IInv, PrintInv
  <2>3. QED
    BY <1>1, <2>1, <2>2 DEF PrintInv
<1>4. QED
  BY <1>2, <1>3 DEF IInv

\* Where GoOn goes: behind the decrement of a branch on the count register to
\* the branch itself, otherwise to the next word.
LEMMA GoOnGoes ==
  ASSUME IInv, at = "run", GoOn, code' = code
  PROVE  /\ PlaceInv'
         /\ code[word].op \in {"bd", "bdzlr"} /\ stmt = 1 =>
              at' = "run" /\ word' = word /\ stmt' = 2
         /\ ~(code[word].op \in {"bd", "bdzlr"} /\ stmt = 1) =>
              /\ code[word].op \notin {"b", "blr", "bctr"} =>
                   at' = "run" /\ word' = word + 1 /\ word + 1 \in Words /\ stmt' = 1
              /\ word < Length - 1 =>
                   at' = "run" /\ word' = word + 1 /\ word + 1 \in Words /\ stmt' = 1
<1>1. word \in Words /\ stmt \in {1, 2} /\ Length \in Nat
  BY TranslationAssumption, StatementIs DEF IInv, PlaceInv
<1>2. CASE code[word].op \in {"bd", "bdzlr"} /\ stmt = 1
  <2>1. stmt < Len(printed[word])
    BY <1>2, StatementIs
  <2>2. QED
    BY <1>1, <1>2, <2>1 DEF GoOn, PlaceInv, IInv
<1>3. CASE ~(code[word].op \in {"bd", "bdzlr"} /\ stmt = 1)
  <2>1. ~(stmt < Len(printed[word]))
    <3>1. CASE code[word].op \in {"bd", "bdzlr"}
      <4>1. stmt = 2 /\ Len(printed[word]) = 2
        BY <1>1, <1>3, <3>1, StatementIs
      <4>2. QED
        BY <4>1
    <3>2. CASE code[word].op = "bl"
      <4>1. CASE IsCalled(code[word].target)
        <5>1. stmt = 1 /\ Len(printed[word]) = 1
          BY <3>2, <4>1, StatementIs
        <5>2. QED
          BY <5>1
      <4>2. CASE ~IsCalled(code[word].target)
        <5>1. stmt = 1 /\ Len(printed[word]) = 0
          BY <3>2, <4>2, StatementIs
        <5>2. QED
          BY <5>1
      <4>3. QED
        BY <4>1, <4>2
    <3>3. CASE code[word].op \notin {"bd", "bdzlr", "bl"}
      <4>1. stmt = 1 /\ Len(printed[word]) = 1
        BY <3>3, StatementIs
      <4>2. QED
        BY <4>1
    <3>4. QED
      BY <3>1, <3>2, <3>3
  <2>2. code[word].op \notin {"b", "blr", "bctr"} => word < Length - 1
    <3>1. code[Length - 1].op \in {"b", "bctr", "blr"}
      BY ProgramFacts DEF IInv
    <3>2. QED
      BY <1>1, <3>1 DEF Words
  <2>3. CASE word < Length - 1
    <3>1. at' = at /\ word' = word + 1 /\ stmt' = 1 /\ word + 1 \in Words
      BY <1>1, <2>1, <2>3 DEF GoOn, Words
    <3>2. PlaceInv'
      BY <1>1, <3>1, TranslationAssumption DEF PlaceInv, Words
    <3>3. QED
      BY <1>3, <3>1, <3>2
  <2>4. CASE ~(word < Length - 1)
    <3>1. at' = "returned" /\ word' = word /\ stmt' = stmt
      BY <2>1, <2>4 DEF GoOn
    <3>2. PlaceInv'
      BY <1>1, <3>1 DEF PlaceInv, IInv
    <3>3. QED
      BY <1>3, <2>2, <2>4, <3>2
  <2>5. QED
    BY <2>3, <2>4
<1>4. QED
  BY <1>2, <1>3

\* The count register stays in its range.
LEMMA DecrementInRange ==
  ASSUME ctr \in 0 .. Modulus - 1
  PROVE  (ctr + Modulus - 1) % Modulus \in 0 .. Modulus - 1
BY TranslationAssumption

\* The index of a jump table that is below its size selects a label.
LEMMA IndexInRange ==
  ASSUME NEW n \in 0 .. Modulus - 1, NEW k \in Addends, NEW size \in Nat,
         (n + k) % (Modulus * Modulus) < size
  PROVE  ((n + k) % (Modulus * Modulus)) + 1 \in 1 .. size
<1>1. Modulus \in Nat \ {0} /\ n \in Int /\ k \in Int
  BY TranslationAssumption
<1>2. Modulus * Modulus \in Nat \ {0}
  BY <1>1
<1>3. \A a \in Int, m \in Nat \ {0} : a % m \in 0 .. m - 1
  OBVIOUS
<1>4. (n + k) % (Modulus * Modulus) \in Nat
  BY <1>1, <1>2, <1>3
<1>5. QED
  BY <1>4

\* A switch goes to a label of its jump table, or where C++ says nothing.
LEMMA SwitchGoes ==
  ASSUME IInv, Switch
  PROVE  /\ code[word].op = "bctr" /\ code[word].labels # <<>>
         /\ stmt = 1
         /\ \/ /\ \E l \in DOMAIN code[word].labels : word' = code[word].labels[l]
               /\ word' \in Words /\ stmt' = 1 /\ at' = "run"
            \/ at' = "unreachable" /\ UNCHANGED <<word, stmt>>
<1> DEFINE labels == code[word].labels
<1>1. at = "run" /\ HasStatement /\ Statement.do = "switch"
  BY DEF Switch, Does, HasStatement
<1>2. code[word].op = "bctr" /\ labels # <<>> /\ Statement.labels = labels
  BY <1>1, StatementKinds
<1>3. stmt = 1 /\ labels \in Seq(Words)
  BY <1>1, <1>2, StatementIs, Fields
<1>4. PICK n \in 0 .. Modulus - 1, k \in Addends :
        LET index == (n + k) % (Modulus * Modulus)
        IN  IF index < Len(labels) THEN Jump(labels[index + 1])
            ELSE at' = "unreachable" /\ UNCHANGED <<word, stmt>>
  BY <1>2 DEF Switch
<1> DEFINE index == (n + k) % (Modulus * Modulus)
<1>5. CASE index < Len(labels)
  <2>1. index + 1 \in 1 .. Len(labels)
    BY <1>3, <1>5, IndexInRange
  <2>2. labels[index + 1] \in Words /\ index + 1 \in DOMAIN labels
    BY <1>3, <2>1
  <2>3. word' = labels[index + 1] /\ stmt' = 1 /\ at' = at
    BY <1>4, <1>5 DEF Jump
  <2>4. QED
    BY <1>1, <1>2, <1>3, <2>2, <2>3
<1>6. CASE ~(index < Len(labels))
  BY <1>2, <1>3, <1>4, <1>6
<1>7. QED
  BY <1>5, <1>6

\* A step of the running function keeps the invariant.
LEMMA RunKeeps ==
  ASSUME IInv, at = "run",
         Skip \/ Compute \/ Decrement \/ Call \/ TailCall \/ Return \/ TakeGoto \/ Switch
  PROVE  IInv'
<1>1. UNCHANGED printVars
  BY DEF Skip, Compute, Decrement, Call, TailCall, Return, TakeGoto, Switch
<1>2. code' = code
  BY <1>1 DEF printVars
<1>3. word \in Words /\ RegisterInv
  BY StatementIs DEF IInv
<1>4. CASE Skip \/ Compute \/ Decrement \/ Call
  <2>1. GoOn
    BY <1>4 DEF Skip, Compute, Decrement, Call
  <2>2. PlaceInv' /\ at' # "print"
    <3>1. PlaceInv'
      BY <1>2, <2>1, GoOnGoes
    <3>2. QED
      BY <2>1, <3>1 DEF GoOn
  <2>3. RegisterInv'
    <3>1. CASE Skip
      BY <1>3, <3>1 DEF Skip, RegisterInv
    <3>2. CASE Compute
      BY <1>3, <3>2 DEF Compute, RegisterInv
    <3>3. CASE Decrement
      BY <1>3, <3>3, DecrementInRange DEF Decrement, RegisterInv
    <3>4. CASE Call
      <4>1. Callee \in Int
        <5>1. CASE Statement.do = "callctr"
          BY <1>3, <5>1, TranslationAssumption DEF Callee, RegisterInv
        <5>2. CASE Statement.do = "call"
          BY <3>4, <5>2, StatementIs, StatementKinds, Fields DEF Callee, Call, Does
        <5>3. QED
          BY <3>4, <5>1, <5>2 DEF Call, Does
      <4>2. QED
        BY <1>3, <3>4, <4>1 DEF Call, Called, RegisterInv
    <3>5. QED
      BY <1>4, <3>1, <3>2, <3>3, <3>4
  <2>4. QED
    BY <1>1, <2>2, <2>3, TextKept
<1>5. CASE TailCall
  <2>1. Callee \in Int
    <3>1. CASE Statement.do = "tailcallctr"
      BY <1>3, <3>1, TranslationAssumption DEF Callee, RegisterInv
    <3>2. CASE Statement.do = "tailcall"
      BY <1>5, <3>2, StatementIs, StatementKinds, Fields DEF Callee, TailCall, Does
    <3>3. QED
      BY <1>5, <3>1, <3>2 DEF TailCall, Does
  <2>2. RegisterInv'
    BY <1>3, <1>5, <2>1 DEF TailCall, Called, RegisterInv
  <2>3. PlaceInv' /\ at' # "print"
    BY <1>2, <1>3, <1>5 DEF TailCall, IInv, PlaceInv
  <2>4. QED
    BY <1>1, <2>2, <2>3, TextKept
<1>6. CASE Return
  <2>1. RegisterInv' /\ PlaceInv' /\ at' # "print"
    BY <1>2, <1>3, <1>6 DEF Return, IInv, PlaceInv, RegisterInv
  <2>2. QED
    BY <1>1, <2>1, TextKept
<1>7. CASE TakeGoto
  <2>1. Statement.to \in Words
    BY <1>7, StatementKinds DEF TakeGoto, Does
  <2>2. RegisterInv' /\ PlaceInv' /\ at' # "print"
    BY <1>3, <1>7, <2>1, TranslationAssumption
       DEF TakeGoto, Jump, PlaceInv, RegisterInv, Words
  <2>3. QED
    BY <1>1, <2>2, TextKept
<1>8. CASE Switch
  <2>1. PlaceInv' /\ at' # "print"
    <3>1. CASE word' \in Words /\ stmt' = 1 /\ at' = "run"
      BY <3>1, TranslationAssumption DEF PlaceInv, Words
    <3>2. CASE at' = "unreachable" /\ UNCHANGED <<word, stmt>>
      BY <1>2, <1>3, <3>2 DEF IInv, PlaceInv
    <3>3. QED
      BY <1>8, <3>1, <3>2, SwitchGoes
  <2>2. RegisterInv'
    BY <1>3, <1>8 DEF Switch, RegisterInv
  <2>3. QED
    BY <1>1, <2>1, <2>2, TextKept
<1>9. QED
  BY <1>4, <1>5, <1>6, <1>7, <1>8

-----------------------------------------------------------------------------
(* The invariant holds.                                                    *)

\* The initial states satisfy the invariant.
LEMMA InitHolds == Init => IInv
<1> SUFFICES ASSUME Init PROVE IInv
  OBVIOUS
<1>1. ProgramInv /\ PlaceInv
  BY TranslationAssumption DEF Init, ProgramInv, PlaceInv
<1>2. HeldInv
  <2>1. Open(word) \ {word} = {}
    BY DEF Init, Open, Window
  <2>2. QED
    BY <2>1 DEF Init, HeldInv
<1>3. PrintInv
  <2>1. \A w \in Words : word <= w
    BY TranslationAssumption DEF Init, Words
  <2>2. QED
    BY <2>1 DEF Init, PrintInv
<1>4. RegisterInv
  BY DEF Init, RegisterInv
<1>5. QED
  BY <1>1, <1>2, <1>3, <1>4 DEF IInv

\* Every step keeps the invariant.
LEMMA NextKeeps == IInv /\ [Next]_vars => IInv'
<1> SUFFICES ASSUME IInv, [Next]_vars PROVE IInv'
  OBVIOUS
<1>1. CASE PrintWord
  BY <1>1, PrintWordKeeps
<1>2. CASE Enter
  BY <1>2, EnterKeeps
<1>3. CASE Skip \/ Compute \/ Decrement \/ Call \/ TailCall \/ Return \/ TakeGoto \/ Switch
  <2>1. at = "run"
    BY <1>3 DEF Skip, Compute, Decrement, Call, TailCall, Return, TakeGoto, Switch, Does,
                HasStatement
  <2>2. QED
    BY <1>3, <2>1, RunKeeps
<1>4. CASE UNCHANGED vars
  <2>1. \A w \in Words : Wanted(w)' = Wanted(w)
    BY <1>4 DEF vars, Wanted, Text
  <2>2. Open(word)' = Open(word)
    BY <1>4 DEF vars, Open, Window
  <2>3. PrintInv'
    BY <1>4, <2>1 DEF vars, IInv, PrintInv
  <2>4. ProgramInv' /\ HeldInv'
    BY <1>4, <2>2 DEF vars, IInv, ProgramInv, HeldInv
  <2>5. PlaceInv' /\ RegisterInv'
    BY <1>4 DEF vars, IInv, PlaceInv, RegisterInv
  <2>6. QED
    BY <2>3, <2>4, <2>5 DEF IInv
<1>5. QED
  BY <1>1, <1>2, <1>3, <1>4 DEF Next

\* The invariant of Translation.
LEMMA Invariance == Spec => []IInv
BY InitHolds, NextKeeps, PTL DEF Spec

-----------------------------------------------------------------------------
(* What is tested is what the guest tests.                                 *)

\* The condition printed for a branch on the condition field.
LEMMA TestIsTaken ==
  ASSUME NEW m \in CondMnemonics
  PROVE  Holds(Test(m)) <=> Guest!Taken(m)
<1>1. \A b : Holds(OnBit(b, TRUE)) <=> b \in cr
  BY DEF Holds, OnBit
<1>2. \A b : Holds(OnBit(b, FALSE)) <=> b \notin cr
  BY DEF Holds, OnBit
<1>3. CASE m = "beq"
  <2>1. Test(m) = OnBit("eq", TRUE)
    BY <1>3 DEF Test
  <2>2. Guest!Taken(m) <=> "eq" \in cr
    BY <1>3 DEF Guest!Taken
  <2>3. QED
    BY <1>1, <2>1, <2>2
<1>4. CASE m = "bne"
  <2>1. Test(m) = OnBit("eq", FALSE)
    BY <1>4 DEF Test
  <2>2. Guest!Taken(m) <=> "eq" \notin cr
    BY <1>4 DEF Guest!Taken
  <2>3. QED
    BY <1>2, <2>1, <2>2
<1>5. CASE m = "blt"
  <2>1. Test(m) = OnBit("lt", TRUE)
    BY <1>5 DEF Test
  <2>2. Guest!Taken(m) <=> "lt" \in cr
    BY <1>5 DEF Guest!Taken
  <2>3. QED
    BY <1>1, <2>1, <2>2
<1>6. CASE m = "bge"
  <2>1. Test(m) = OnBit("lt", FALSE)
    BY <1>6 DEF Test
  <2>2. Guest!Taken(m) <=> "lt" \notin cr
    BY <1>6 DEF Guest!Taken
  <2>3. QED
    BY <1>2, <2>1, <2>2
<1>7. CASE m = "bgt"
  <2>1. Test(m) = OnBit("gt", TRUE)
    BY <1>7 DEF Test
  <2>2. Guest!Taken(m) <=> "gt" \in cr
    BY <1>7 DEF Guest!Taken
  <2>3. QED
    BY <1>1, <2>1, <2>2
<1>8. CASE m = "ble"
  <2>1. Test(m) = OnBit("gt", FALSE)
    BY <1>8 DEF Test
  <2>2. Guest!Taken(m) <=> "gt" \notin cr
    BY <1>8 DEF Guest!Taken
  <2>3. QED
    BY <1>2, <2>1, <2>2
<1>9. CASE m = "bso"
  <2>1. Test(m) = OnBit("so", TRUE)
    BY <1>9 DEF Test
  <2>2. Guest!Taken(m) <=> "so" \in cr
    BY <1>9 DEF Guest!Taken
  <2>3. QED
    BY <1>1, <2>1, <2>2
<1>10. CASE m = "bns"
  <2>1. Test(m) = OnBit("so", FALSE)
    BY <1>10 DEF Test
  <2>2. Guest!Taken(m) <=> "so" \notin cr
    BY <1>10 DEF Guest!Taken
  <2>3. QED
    BY <1>2, <2>1, <2>2
<1>11. QED
  BY <1>3, <1>4, <1>5, <1>6, <1>7, <1>8, <1>9, <1>10 DEF CondMnemonics

\* The condition printed behind a decrement.
LEMMA CountTestIsTaken ==
  ASSUME NEW m \in CountMnemonics, NEW bit,
         m \in {"bdnzf", "bdnzt"} => bit = "eq"
  PROVE  Holds(CountTest(m, bit)) <=> Guest!TakenOnCount(m, bit, ctr)
<1>0. \A c, b, v :
        Holds([count |-> c, bits |-> {b}, set |-> v]) <=>
          /\ c = "zero" => ctr = 0
          /\ c = "nonzero" => ctr # 0
          /\ IF v THEN b \in cr ELSE b \notin cr
  BY DEF Holds
<1>1. CASE m = "bdz"
  BY <1>1 DEF CountTest, OnCount, Holds, Guest!TakenOnCount
<1>2. CASE m = "bdnz"
  BY <1>2 DEF CountTest, OnCount, Holds, Guest!TakenOnCount
<1>3. CASE m = "bdnzf"
  <2>1. CountTest(m, bit) = [count |-> "nonzero", bits |-> {bit}, set |-> FALSE]
    BY <1>3 DEF CountTest
  <2>2. Guest!TakenOnCount(m, bit, ctr) <=> ctr # 0 /\ bit \notin cr
    BY <1>3 DEF Guest!TakenOnCount
  <2>3. QED
    BY <1>0, <2>1, <2>2
<1>4. CASE m = "bdnzt"
  <2>1. CountTest(m, bit) = [count |-> "nonzero", bits |-> {bit}, set |-> TRUE]
    BY <1>4 DEF CountTest
  <2>2. Guest!TakenOnCount(m, bit, ctr) <=> ctr # 0 /\ bit \in cr
    BY <1>4 DEF Guest!TakenOnCount
  <2>3. QED
    BY <1>0, <2>1, <2>2
<1>5. CASE m = "bdzf"
  <2>1. CountTest(m, bit) = [count |-> "zero", bits |-> {bit}, set |-> FALSE]
    BY <1>5 DEF CountTest
  <2>2. Guest!TakenOnCount(m, bit, ctr) <=> ctr = 0 /\ bit \notin cr
    BY <1>5 DEF Guest!TakenOnCount
  <2>3. QED
    BY <1>0, <2>1, <2>2
<1>6. QED
  BY <1>1, <1>2, <1>3, <1>4, <1>5 DEF CountMnemonics

\* The unconditional statements, and those that look at the count only.
LEMMA PlainTests ==
  /\ Holds(Always)
  /\ Holds(OnCount("zero")) <=> ctr = 0
BY DEF Holds, Always, OnCount

-----------------------------------------------------------------------------
(* The refinement.  The mapped state is called atG, wordG and ctrG here.   *)

atG == IF at = "returned" THEN "returned" ELSE "running"

wordG == IF at = "print" THEN 0 ELSE word

ctrG == IF Decremented THEN (ctr + 1) % Modulus ELSE ctr

\* The state of the guest, by where the printed function is.
LEMMA MappedState ==
  ASSUME IInv
  PROVE  /\ at = "print" => atG = "running" /\ wordG = 0 /\ ctrG = ctr
         /\ at \in {"run", "unreachable"} => atG = "running"
         /\ at # "print" => wordG = word
         /\ at = "run" /\ stmt = 1 => ctrG = ctr
         /\ at = "run" /\ stmt = 2 => ctrG = (ctr + 1) % Modulus
         /\ at = "unreachable" => ctrG = ctr
         /\ at = "returned" => atG = "returned" /\ ctrG = ctr
<1>1. at = "run" /\ stmt = 2 => Decremented
  <2> SUFFICES ASSUME at = "run", stmt = 2 PROVE printed[word][1].do = "decrement"
    BY DEF Decremented
  <2>1. printed[word][1] = Do("decrement")
    BY StatementIs DEF IInv, PlaceInv
  <2>2. QED
    BY <2>1 DEF Do
<1>2. at # "run" \/ stmt = 1 => ~Decremented
  BY DEF Decremented
<1>3. QED
  BY <1>1, <1>2 DEF atG, wordG, ctrG

\* Decrementing and mapping back, and the other way around.
LEMMA CountBack ==
  ASSUME NEW c \in 0 .. Modulus - 1
  PROVE  /\ (((c + Modulus - 1) % Modulus) + 1) % Modulus = c
         /\ (((c + 1) % Modulus) + Modulus - 1) % Modulus = c
BY TranslationAssumption

\* A step of the printing is a stutter of the guest.
LEMMA PrintingStutters ==
  ASSUME IInv, IInv', PrintWord \/ Enter
  PROVE  UNCHANGED Guest!vars
<1>1. at = "print" /\ atG = "running" /\ wordG = 0 /\ ctrG = ctr
  BY MappedState DEF PrintWord, Enter
<1>2. code' = code /\ cr' = cr /\ ctr' = ctr /\ called' = called /\ stmt' = stmt
  BY DEF PrintWord, Enter
<1>3. at' = "print" \/ (at' = "run" /\ word' = 0)
  BY DEF PrintWord, Enter
<1>4. stmt = 1
  BY <1>1 DEF IInv, PlaceInv
<1>5. ~Decremented'
  BY <1>2, <1>4 DEF Decremented
<1>6. atG' = atG /\ wordG' = wordG /\ ctrG' = ctrG
  BY <1>1, <1>2, <1>3, <1>5 DEF atG, wordG, ctrG
<1>7. QED
  BY <1>2, <1>6 DEF Guest!vars, atG, wordG, ctrG

\* Where the guest is when GoOn has gone on to the next word.
LEMMA MappedGoOn ==
  ASSUME IInv, IInv', at = "run", GoOn, UNCHANGED printVars,
         ~(code[word].op \in {"bd", "bdzlr"} /\ stmt = 1),
         code[word].op \notin {"b", "blr", "bctr"}
  PROVE  /\ word + 1 \in 0 .. Length - 1
         /\ atG = "running" /\ wordG = word
         /\ atG' = "running" /\ wordG' = word + 1 /\ ctrG' = ctr'
<1>1. code' = code /\ printed' = printed
  BY DEF printVars
<1>2. at' = "run" /\ word' = word + 1 /\ word + 1 \in Words /\ stmt' = 1
  BY <1>1, GoOnGoes
<1>3. ~Decremented'
  BY <1>2 DEF Decremented
<1>4. QED
  BY <1>2, <1>3, MappedState DEF atG, wordG, ctrG, Words

\* Compute.
LEMMA ComputeSimulates ==
  ASSUME IInv, IInv', Compute
  PROVE  Guest!Compute
<1>1. at = "run" /\ HasStatement /\ Statement.do = "compute"
  BY DEF Compute, Does, HasStatement
<1>2. code[word].op = "compute" /\ stmt = 1
  BY <1>1, StatementKinds, StatementIs
<1>3. /\ word + 1 \in 0 .. Length - 1
      /\ atG = "running" /\ wordG = word
      /\ atG' = "running" /\ wordG' = word + 1 /\ ctrG' = ctr'
  BY <1>1, <1>2, MappedGoOn DEF Compute
<1>4. cr' \in Conditions /\ ctr' \in 0 .. Modulus - 1 /\ called' = called /\ code' = code
  BY DEF Compute, printVars
<1>5. QED
  BY <1>2, <1>3, <1>4 DEF Guest!Compute, Guest!At, Guest!Transfer, atG, wordG, ctrG

\* The decrement of a branch on the count register is a stutter.
LEMMA DecrementStutters ==
  ASSUME IInv, IInv', Decrement
  PROVE  UNCHANGED Guest!vars
<1>1. at = "run" /\ HasStatement /\ Statement.do = "decrement"
  BY DEF Decrement, Does, HasStatement
<1>2. code[word].op \in {"bd", "bdzlr"} /\ stmt = 1
  BY <1>1, StatementKinds
<1>3. code' = code /\ cr' = cr /\ called' = called /\ ctr' = (ctr + Modulus - 1) % Modulus
  BY DEF Decrement, printVars
<1>4. at' = "run" /\ word' = word /\ stmt' = 2
  BY <1>1, <1>2, <1>3, GoOnGoes DEF Decrement
<1>5. atG = "running" /\ wordG = word /\ ctrG = ctr
  BY <1>1, <1>2, MappedState
<1>6. atG' = "running" /\ wordG' = word /\ ctrG' = (ctr' + 1) % Modulus
  <2>1. printed[word][1].do = "decrement"
    <3>1. printed[word][1] = Do("decrement")
      BY <1>1, <1>2, StatementIs
    <3>2. QED
      BY <3>1 DEF Do
  <2>2. printed' = printed
    BY DEF Decrement, printVars
  <2>3. Decremented'
    BY <1>4, <2>1, <2>2 DEF Decremented
  <2>4. QED
    BY <1>4, <2>3 DEF atG, wordG, ctrG
<1>7. ctrG' = ctr
  BY <1>3, <1>6, CountBack DEF IInv, RegisterInv
<1>8. QED
  BY <1>3, <1>5, <1>6, <1>7 DEF Guest!vars, atG, wordG, ctrG

\* A callee is named, or the count register has its address.
LEMMA CalleeIs ==
  ASSUME IInv, HasStatement
  PROVE  /\ Statement.do \in {"call", "tailcall"} =>
              Callee = code[word].target /\ Callee \notin Elided
         /\ Statement.do \in {"callctr", "tailcallctr"} =>
              Callee = ctr /\ Callee \notin Elided
<1>1. CASE Statement.do \in {"call", "tailcall"}
  BY <1>1, StatementKinds DEF Callee, IsCalled
<1>2. CASE Statement.do \in {"callctr", "tailcallctr"}
  BY <1>2, TranslationAssumption DEF Callee, IInv, RegisterInv
<1>3. QED
  BY <1>1, <1>2

\* A call that comes back.
LEMMA CallSimulates ==
  ASSUME IInv, IInv', Call
  PROVE  Guest!BranchAndLink
<1>1. at = "run" /\ HasStatement /\ Statement.do \in {"call", "callctr"}
  BY DEF Call, Does, HasStatement
<1>2. code[word].op \in {"bl", "bctrl"} /\ stmt = 1
  BY <1>1, StatementKinds, StatementIs
<1>3. /\ atG = "running" /\ wordG = word
      /\ atG' = "running" /\ wordG' = word + 1 /\ ctrG' = ctr'
  BY <1>1, <1>2, MappedGoOn DEF Call
<1>4. ctrG = ctr
  BY <1>1, <1>2, MappedState
<1>5. cr' \in Conditions /\ ctr' \in 0 .. Modulus - 1 /\ code' = code
  BY DEF Call, printVars
<1>6. Callee = (IF code[word].op = "bl" THEN code[word].target ELSE ctr) /\ Callee \notin Elided
  <2>1. CASE Statement.do = "call"
    BY <1>1, <2>1, StatementKinds, CalleeIs
  <2>2. CASE Statement.do = "callctr"
    BY <1>1, <2>2, StatementKinds, CalleeIs
  <2>3. QED
    BY <1>1, <2>1, <2>2
<1>7. called' = Guest!After(IF code[word].op = "bl" THEN code[word].target ELSE ctr)
  BY <1>6 DEF Call, Called, Guest!After
<1>8. QED
  BY <1>2, <1>3, <1>4, <1>5, <1>7 DEF Guest!BranchAndLink, Guest!At, atG, wordG, ctrG

\* Where the guest is when the printed function has returned.
LEMMA MappedReturn ==
  ASSUME IInv, at = "run", at' = "returned", word' = word
  PROVE  /\ atG = "running" /\ wordG = word /\ word \in Words
         /\ atG' = "returned" /\ wordG' = word /\ ctrG' = ctr'
<1>1. ~Decremented'
  BY DEF Decremented
<1>2. QED
  BY <1>1, MappedState, StatementIs DEF atG, wordG, ctrG

\* A branch out of the function is a tail call.
LEMMA TailCallSimulates ==
  ASSUME IInv, IInv', TailCall
  PROVE  Guest!Branch \/ Guest!CondBranch \/ Guest!BranchToCount
<1> DEFINE i == code[word]
<1>1. at = "run" /\ HasStatement /\ Holds(Statement.when)
      /\ Statement.do \in {"tailcall", "tailcallctr"}
  BY DEF TailCall, Does, HasStatement
<1>2. at' = "returned" /\ word' = word /\ cr' = cr /\ ctr' = ctr /\ code' = code
  BY DEF TailCall, printVars
<1>3. /\ atG = "running" /\ wordG = word /\ word \in Words
      /\ atG' = "returned" /\ wordG' = word /\ ctrG' = ctr
  BY <1>1, <1>2, MappedReturn
<1>4. i.op \notin {"bd", "bdzlr"} => ctrG = ctr
  BY <1>1, StatementIs, MappedState
<1>5. called' = Guest!After(Callee)
  BY <1>1, CalleeIs DEF TailCall, Called, Guest!After
<1>6. CASE Statement.do = "tailcall"
  <2>1. /\ i.op \in {"b", "bc"} /\ Callee = i.target
        /\ i.target \notin 0 .. Length - 1
    BY <1>1, <1>6, StatementKinds, CalleeIs DEF Words
  <2>2. CASE i.op = "b"
    BY <1>2, <1>3, <1>4, <1>5, <2>1, <2>2
       DEF Guest!Branch, Guest!At, Guest!Transfer, atG, wordG, ctrG
  <2>3. CASE i.op = "bc"
    <3>1. Guest!Taken(i.mnemonic)
      <4>1. Statement.when = Test(i.mnemonic)
        BY <1>1, <2>3, StatementIs, ToIs
      <4>2. i.mnemonic \in CondMnemonics
        BY <1>1, <2>3, StatementIs, Fields
      <4>3. QED
        BY <1>1, <4>1, <4>2, TestIsTaken
    <3>2. QED
      BY <1>2, <1>3, <1>4, <1>5, <2>1, <2>3, <3>1
         DEF Guest!CondBranch, Guest!At, Guest!Transfer, atG, wordG, ctrG
  <2>4. QED
    BY <2>1, <2>2, <2>3
<1>7. CASE Statement.do = "tailcallctr"
  <2>1. Callee = ctr
    BY <1>1, <1>7, CalleeIs
  <2>2. CASE i.op = "bctr" /\ i.labels = <<>>
    BY <1>2, <1>3, <1>4, <1>5, <2>1, <2>2
       DEF Guest!BranchToCount, Guest!At, Guest!LeaveWith, atG, wordG, ctrG
  <2>3. CASE i.op = "bnectr"
    <3>1. Guest!Taken("bne")
      <4>1. Statement.when = Test("bne")
        BY <1>1, <2>3, StatementIs DEF If
      <4>2. QED
        BY <1>1, <4>1, TestIsTaken DEF CondMnemonics
    <3>2. QED
      BY <1>2, <1>3, <1>4, <1>5, <2>1, <2>3, <3>1
         DEF Guest!BranchToCount, Guest!At, Guest!LeaveWith, atG, wordG, ctrG
  <2>4. QED
    BY <1>1, <1>7, <2>2, <2>3, StatementKinds
<1>8. QED
  BY <1>1, <1>6, <1>7

\* What is returned from returns: a return of the guest, or a branch to a
\* function that would only have moved registers.
LEMMA ReturnSimulates ==
  ASSUME IInv, IInv', Return
  PROVE  Guest!Return \/ Guest!CondReturn \/ Guest!CountReturn \/ Guest!Branch \/ Guest!CondBranch
<1> DEFINE i == code[word]
<1>1. at = "run" /\ HasStatement /\ Holds(Statement.when) /\ Statement.do = "return"
  BY DEF Return, Does, HasStatement
<1>2. at' = "returned" /\ word' = word /\ cr' = cr /\ ctr' = ctr /\ code' = code /\ called' = called
  BY DEF Return, printVars
<1>3. /\ atG = "running" /\ wordG = word /\ word \in Words
      /\ atG' = "returned" /\ wordG' = word /\ ctrG' = ctr
  BY <1>1, <1>2, MappedReturn
<1>4. i.op \notin {"bd", "bdzlr"} => ctrG = ctr
  BY <1>1, StatementIs, MappedState
<1>5. CASE i.op = "blr"
  BY <1>2, <1>3, <1>4, <1>5 DEF Guest!Return, Guest!At, Guest!LeaveWith, atG, wordG, ctrG
<1>6. CASE i.op = "bclr"
  <2>1. Guest!Taken(i.mnemonic)
    <3>1. Statement.when = Test(i.mnemonic)
      BY <1>1, <1>6, StatementIs DEF If
    <3>2. i.mnemonic \in CondMnemonics
      BY <1>1, <1>6, StatementIs, Fields
    <3>3. QED
      BY <1>1, <3>1, <3>2, TestIsTaken
  <2>2. QED
    BY <1>2, <1>3, <1>4, <1>6, <2>1
       DEF Guest!CondReturn, Guest!At, Guest!LeaveWith, atG, wordG, ctrG
<1>7. CASE i.op = "bdzlr" /\ stmt = 2
  <2>1. ctr = 0
    <3>1. Statement.when = OnCount("zero")
      BY <1>1, <1>7, StatementIs DEF If
    <3>2. QED
      BY <1>1, <3>1, PlainTests
  <2>2. ctrG = (ctr + 1) % Modulus
    BY <1>1, <1>7, MappedState
  <2>3. (ctrG + Modulus - 1) % Modulus = ctr
    BY <2>2, CountBack DEF IInv, RegisterInv
  <2>4. QED
    BY <1>2, <1>3, <1>7, <2>1, <2>3
       DEF Guest!CountReturn, Guest!At, Guest!LeaveWith, atG, wordG, ctrG
<1>8. CASE i.op \in {"b", "bc"} /\ i.target \notin Words /\ ~IsCalled(i.target)
  <2>1. i.target \notin 0 .. Length - 1
    BY <1>8 DEF Words
  <2>2. i.target \in Elided
    BY <1>3, <1>8, ProgramFacts DEF IInv, IsCalled
  <2>3. called' = Guest!After(i.target)
    BY <1>2, <2>2 DEF Guest!After
  <2>4. CASE i.op = "b"
    BY <1>2, <1>3, <1>4, <2>1, <2>3, <2>4
       DEF Guest!Branch, Guest!At, Guest!Transfer, atG, wordG, ctrG
  <2>5. CASE i.op = "bc"
    <3>1. Guest!Taken(i.mnemonic)
      <4>1. Statement.when = Test(i.mnemonic)
        BY <1>1, <2>5, StatementIs, ToIs
      <4>2. i.mnemonic \in CondMnemonics
        BY <1>1, <2>5, StatementIs, Fields
      <4>3. QED
        BY <1>1, <4>1, <4>2, TestIsTaken
    <3>2. QED
      BY <1>2, <1>3, <1>4, <2>1, <2>3, <2>5, <3>1
         DEF Guest!CondBranch, Guest!At, Guest!Transfer, atG, wordG, ctrG
  <2>6. QED
    BY <1>8, <2>4, <2>5
<1>9. QED
  BY <1>1, <1>5, <1>6, <1>7, <1>8, StatementKinds

\* Where the guest is when control has passed to a word of the function.
LEMMA MappedJump ==
  ASSUME IInv, at = "run", at' = "run", stmt' = 1
  PROVE  /\ atG = "running" /\ wordG = word /\ word \in Words
         /\ atG' = "running" /\ wordG' = word' /\ ctrG' = ctr'
<1>1. ~Decremented'
  BY DEF Decremented
<1>2. QED
  BY <1>1, MappedState, StatementIs DEF atG, wordG, ctrG

\* The branch of a bd instruction tests what the guest tests.
LEMMA CountBranchTest ==
  ASSUME IInv, at = "run", code[word].op = "bd", stmt = 2
  PROVE  Holds(Statement.when) <=>
            Guest!TakenOnCount(code[word].mnemonic, code[word].bit, ctr)
<1> DEFINE i == code[word]
<1>1. Statement.when = CountTest(i.mnemonic, i.bit)
  BY StatementIs DEF Goto
<1>2. word \in Words /\ i \in Instruction
  BY StatementIs
<1>3. i.mnemonic \in CountMnemonics
  BY <1>2, Fields
<1>4. i.mnemonic \in {"bdnzf", "bdnzt"} => i.bit = "eq"
  BY <1>2, ProgramFacts DEF IInv
<1>5. QED
  BY <1>1, <1>3, <1>4, CountTestIsTaken

\* A goto is a branch that is taken.
LEMMA GotoSimulates ==
  ASSUME IInv, IInv', TakeGoto
  PROVE  Guest!Branch \/ Guest!CondBranch \/ Guest!CountBranch
<1> DEFINE i == code[word]
<1>1. at = "run" /\ HasStatement /\ Holds(Statement.when) /\ Statement.do = "goto"
  BY DEF TakeGoto, Does, HasStatement
<1>2. i.target \in 0 .. Length - 1 /\ Statement.to = i.target
  BY <1>1, StatementKinds DEF Words
<1>3. /\ at' = "run" /\ word' = i.target /\ stmt' = 1
      /\ cr' = cr /\ ctr' = ctr /\ code' = code /\ called' = called
  BY <1>1, <1>2 DEF TakeGoto, Jump, printVars
<1>4. /\ atG = "running" /\ wordG = word
      /\ atG' = "running" /\ wordG' = i.target /\ ctrG' = ctr
  BY <1>1, <1>3, MappedJump
<1>5. i.op \notin {"bd", "bdzlr"} => ctrG = ctr
  BY <1>1, StatementIs, MappedState
<1>6. CASE i.op = "b"
  BY <1>2, <1>3, <1>4, <1>5, <1>6
     DEF Guest!Branch, Guest!At, Guest!Transfer, atG, wordG, ctrG
<1>7. CASE i.op = "bc"
  <2>1. Guest!Taken(i.mnemonic)
    <3>1. Statement.when = Test(i.mnemonic)
      BY <1>1, <1>7, StatementIs, ToIs
    <3>2. i.mnemonic \in CondMnemonics
      BY <1>1, <1>7, StatementIs, Fields
    <3>3. QED
      BY <1>1, <3>1, <3>2, TestIsTaken
  <2>2. QED
    BY <1>2, <1>3, <1>4, <1>5, <1>7, <2>1
       DEF Guest!CondBranch, Guest!At, Guest!Transfer, atG, wordG, ctrG
<1>8. CASE i.op = "bd" /\ stmt = 2
  <2>1. Guest!TakenOnCount(i.mnemonic, i.bit, ctr)
    BY <1>1, <1>8, CountBranchTest
  <2>2. ctrG = (ctr + 1) % Modulus
    BY <1>1, <1>8, MappedState
  <2>3. (ctrG + Modulus - 1) % Modulus = ctr
    BY <2>2, CountBack DEF IInv, RegisterInv
  <2>4. QED
    BY <1>2, <1>3, <1>4, <1>8, <2>1, <2>3
       DEF Guest!CountBranch, Guest!At, Guest!Transfer, atG, wordG, ctrG
<1>9. QED
  BY <1>1, <1>6, <1>7, <1>8, StatementKinds

\* A switch that selects a label is the jump of the table.  What comes after
\* __builtin_unreachable is no step of the guest.
LEMMA SwitchSimulates ==
  ASSUME IInv, IInv', Switch
  PROVE  Guest!TableJump \/ UNCHANGED Guest!vars
<1> DEFINE labels == code[word].labels
<1>1. at = "run" /\ cr' = cr /\ ctr' = ctr /\ code' = code /\ called' = called
  BY DEF Switch, Does, HasStatement, printVars
<1>2. code[word].op = "bctr" /\ labels # <<>> /\ stmt = 1
  BY SwitchGoes
<1>3. atG = "running" /\ wordG = word /\ ctrG = ctr
  BY <1>1, <1>2, MappedState
<1>4. CASE /\ \E l \in DOMAIN labels : word' = labels[l]
           /\ word' \in Words /\ stmt' = 1 /\ at' = "run"
  <2>1. PICK l \in DOMAIN labels : word' = labels[l]
    BY <1>4
  <2>2. labels[l] \in 0 .. Length - 1
    BY <1>4, <2>1 DEF Words
  <2>3. atG' = "running" /\ wordG' = labels[l] /\ ctrG' = ctr
    BY <1>1, <1>4, <2>1, MappedJump
  <2>4. QED
    BY <1>1, <1>2, <1>3, <2>2, <2>3
       DEF Guest!TableJump, Guest!At, Guest!Transfer, atG, wordG, ctrG
<1>5. CASE at' = "unreachable" /\ UNCHANGED <<word, stmt>>
  <2>1. atG' = "running" /\ wordG' = word /\ ctrG' = ctr
    BY <1>1, <1>5 DEF Decremented, atG, wordG, ctrG
  <2>2. QED
    BY <1>1, <1>3, <2>1 DEF Guest!vars, atG, wordG, ctrG
<1>6. QED
  BY <1>4, <1>5, SwitchGoes

\* A statement whose condition does not hold is a branch that is not taken,
\* and a word for which nothing was printed a call that only moves registers.
LEMMA SkipSimulates ==
  ASSUME IInv, IInv', Skip
  PROVE  \/ Guest!CondBranch \/ Guest!CountBranch \/ Guest!BranchToCount
         \/ Guest!BranchAndLink \/ Guest!CondReturn \/ Guest!CountReturn
<1> DEFINE i == code[word]
<1>1. at = "run" /\ GoOn /\ UNCHANGED printVars /\ (HasStatement => ~Holds(Statement.when))
  BY DEF Skip
<1>2. cr' = cr /\ ctr' = ctr /\ code' = code /\ called' = called
  BY DEF Skip, printVars
<1>3. i \in Instruction /\ word \in Words /\ stmt \in {1, 2}
  BY <1>1, StatementIs DEF IInv, PlaceInv
<1>4. i.op \notin {"bd", "bdzlr"} => ctrG = ctr
  BY <1>1, StatementIs, MappedState
<1>5. i.op \in {"bd", "bdzlr"} => HasStatement
  <2> SUFFICES ASSUME i.op \in {"bd", "bdzlr"} PROVE stmt <= Len(printed[word])
    BY <1>1 DEF HasStatement
  <2>1. Len(printed[word]) = 2
    BY <1>1, StatementIs
  <2>2. 1 <= 2 /\ 2 <= 2
    OBVIOUS
  <2>3. QED
    BY <1>3, <2>1, <2>2
<1>6. i.op \notin {"bd", "bdzlr", "bl"} => HasStatement
  <2>1. i.op \notin {"bd", "bdzlr", "bl"} => Len(printed[word]) = 1 /\ stmt = 1
    BY <1>1, StatementIs
  <2>2. QED
    BY <1>1, <2>1 DEF HasStatement
<1>7. HasStatement => Statement.when # Always
  BY <1>1, PlainTests
<1>8. i.op \notin {"compute", "b", "bctrl", "bctr", "blr"}
  <2>1. i.op \in {"compute", "bctrl", "blr"} => Statement.when = Always
    BY <1>1, StatementIs DEF Do
  <2>2. i.op = "b" => Statement.when = Always
    BY <1>1, StatementIs, ToIs
  <2>3. i.op = "bctr" => Statement.when = Always
    BY <1>1, StatementIs DEF Do
  <2>4. QED
    BY <1>6, <1>7, <2>1, <2>2, <2>3
<1>9. ~(i.op \in {"bd", "bdzlr"} /\ stmt = 1)
  <2>1. i.op \in {"bd", "bdzlr"} /\ stmt = 1 => Statement.when = Always
    BY <1>1, StatementIs DEF Do
  <2>2. QED
    BY <1>5, <1>7, <2>1
<1>10. /\ word + 1 \in 0 .. Length - 1
       /\ atG = "running" /\ wordG = word
       /\ atG' = "running" /\ wordG' = word + 1 /\ ctrG' = ctr
  BY <1>1, <1>2, <1>8, <1>9, MappedGoOn
<1>11. CASE i.op \in {"bc", "bclr"}
  <2>1. ~Guest!Taken(i.mnemonic)
    <3>1. Statement.when = Test(i.mnemonic)
      <4>1. CASE i.op = "bc"
        BY <1>1, <4>1, StatementIs, ToIs
      <4>2. CASE i.op = "bclr"
        BY <1>1, <4>2, StatementIs DEF If
      <4>3. QED
        BY <1>11, <4>1, <4>2
    <3>2. i.mnemonic \in CondMnemonics
      BY <1>3, <1>11, Fields
    <3>3. QED
      BY <1>1, <1>6, <1>11, <3>1, <3>2, TestIsTaken
  <2>2. CASE i.op = "bc"
    BY <1>2, <1>4, <1>10, <2>1, <2>2
       DEF Guest!CondBranch, Guest!At, Guest!Transfer, atG, wordG, ctrG
  <2>3. CASE i.op = "bclr"
    BY <1>2, <1>4, <1>10, <2>1, <2>3
       DEF Guest!CondReturn, Guest!At, Guest!Transfer, atG, wordG, ctrG
  <2>4. QED
    BY <1>11, <2>2, <2>3
<1>12. CASE i.op = "bnectr"
  <2>1. ~Guest!Taken("bne")
    <3>1. Statement.when = Test("bne")
      BY <1>1, <1>12, StatementIs DEF If
    <3>2. QED
      BY <1>1, <1>6, <1>12, <3>1, TestIsTaken DEF CondMnemonics
  <2>2. QED
    BY <1>2, <1>4, <1>10, <1>12, <2>1
       DEF Guest!BranchToCount, Guest!At, Guest!Transfer, atG, wordG, ctrG
<1>13. CASE i.op \in {"bd", "bdzlr"}
  <2>1. stmt = 2
    BY <1>3, <1>9, <1>13
  <2>2. ctrG = (ctr + 1) % Modulus
    BY <1>1, <2>1, MappedState
  <2>3. (ctrG + Modulus - 1) % Modulus = ctr
    BY <2>2, CountBack DEF IInv, RegisterInv
  <2>4. CASE i.op = "bd"
    <3>1. ~Guest!TakenOnCount(i.mnemonic, i.bit, ctr)
      BY <1>1, <1>5, <2>1, <2>4, CountBranchTest
    <3>2. QED
      BY <1>2, <1>10, <2>3, <2>4, <3>1
         DEF Guest!CountBranch, Guest!At, Guest!Transfer, atG, wordG, ctrG
  <2>5. CASE i.op = "bdzlr"
    <3>1. ctr # 0
      <4>1. Statement.when = OnCount("zero")
        BY <1>1, <2>1, <2>5, StatementIs DEF If
      <4>2. QED
        BY <1>1, <1>5, <2>5, <4>1, PlainTests
    <3>2. QED
      BY <1>2, <1>10, <2>3, <2>5, <3>1
         DEF Guest!CountReturn, Guest!At, Guest!Transfer, atG, wordG, ctrG
  <2>6. QED
    BY <1>13, <2>4, <2>5
<1>14. CASE i.op = "bl"
  <2>1. ~IsCalled(i.target)
    <3> SUFFICES ASSUME IsCalled(i.target) PROVE FALSE
      OBVIOUS
    <3>1. Len(printed[word]) = 1 /\ stmt = 1 /\ Statement.when = Always
      BY <1>1, <1>14, StatementIs
    <3>2. QED
      BY <1>1, <1>7, <3>1 DEF HasStatement
  <2>2. i.target \in Elided
    BY <1>3, <1>14, <2>1, ProgramFacts DEF IInv, IsCalled
  <2>3. called' = Guest!After(i.target)
    BY <1>2, <2>2 DEF Guest!After
  <2>4. cr' \in Conditions /\ ctr' \in 0 .. Modulus - 1
    BY <1>2 DEF IInv, RegisterInv
  <2>5. QED
    BY <1>2, <1>10, <1>14, <2>3, <2>4 DEF Guest!BranchAndLink, Guest!At, atG, wordG, ctrG
<1>15. QED
  BY <1>3, <1>8, <1>11, <1>12, <1>13, <1>14, Fields

\* The printed function does what the guest function does.
THEOREM ImplementsGuest == Spec => DoesWhatTheGuestDoes
<1>1. Init => Guest!Init
  <2> SUFFICES ASSUME Init PROVE Guest!Init
    OBVIOUS
  <2>1. code \in Codes
    BY DEF Init, Codes
  <2>2. ~Decremented
    BY DEF Init, Decremented
  <2>3. QED
    BY <2>1, <2>2 DEF Init, Guest!Init
<1>2. IInv /\ IInv' /\ [Next]_vars => [Guest!Next]_Guest!vars
  <2> SUFFICES ASSUME IInv, IInv', [Next]_vars PROVE Guest!Next \/ UNCHANGED Guest!vars
    OBVIOUS
  <2>1. CASE PrintWord \/ Enter
    BY <2>1, PrintingStutters
  <2>2. CASE Skip
    BY <2>2, SkipSimulates DEF Guest!Next
  <2>3. CASE Compute
    BY <2>3, ComputeSimulates DEF Guest!Next
  <2>4. CASE Decrement
    BY <2>4, DecrementStutters
  <2>5. CASE Call
    BY <2>5, CallSimulates DEF Guest!Next
  <2>6. CASE TailCall
    BY <2>6, TailCallSimulates DEF Guest!Next
  <2>7. CASE Return
    BY <2>7, ReturnSimulates DEF Guest!Next
  <2>8. CASE TakeGoto
    BY <2>8, GotoSimulates DEF Guest!Next
  <2>9. CASE Switch
    BY <2>9, SwitchSimulates DEF Guest!Next
  <2>10. CASE UNCHANGED vars
    BY <2>10 DEF vars, Guest!vars, Decremented
  <2>11. QED
    BY <2>1, <2>2, <2>3, <2>4, <2>5, <2>6, <2>7, <2>8, <2>9, <2>10 DEF Next
<1>3. QED
  BY <1>1, <1>2, Invariance, PTL DEF Spec, DoesWhatTheGuestDoes, Guest!Spec

-----------------------------------------------------------------------------
(* Labels and types.                                                       *)

\* Every goto that is printed names a label of the function.
THEOREM GotosHaveLabels == Spec => []GotosResolve
<1>1. IInv => GotosResolve
  <2> SUFFICES ASSUME IInv,
                      NEW w \in Words, NEW k \in DOMAIN printed[w]
               PROVE  LET s == printed[w][k]
                      IN  /\ s.do = "goto" => s.to \in Labels \cap Words
                          /\ s.do = "switch" =>
                               \A l \in DOMAIN s.labels : s.labels[l] \in Labels \cap Words
    BY DEF GotosResolve
  <2> DEFINE i == code[w]
  <2>1. printed[w] = <<>> \/ printed[w] = Wanted(w)
    BY DEF IInv, PrintInv
  <2>2. i \in Instruction /\ printed[w] # <<>>
    BY ProgramFacts DEF IInv
  <2>3. printed[w] = Wanted(w)
    BY <2>1, <2>2
  <2>4. CASE i.op \in {"compute", "bclr", "bdzlr", "bctrl", "bnectr", "blr", "bl"}
    BY <2>3, <2>4, WantedStatements DEF Do, If
  <2>5. CASE i.op \in {"b", "bc"}
    <3>1. PICK test : printed[w] = <<To(test, i.target)>>
      BY <2>3, <2>5, WantedStatements
    <3>2. printed[w][k] = To(test, i.target)
      BY <3>1
    <3>3. i.target \in Words => i.target \in Labels
      BY <2>5 DEF Labels
    <3>4. CASE i.target \in Words
      BY <3>2, <3>3, <3>4, ToIs
    <3>5. CASE i.target \notin Words
      BY <3>2, <3>5, ToIs
    <3>6. QED
      BY <3>4, <3>5
  <2>6. CASE i.op = "bd"
    <3>1. printed[w] = <<Do("decrement"), Goto(CountTest(i.mnemonic, i.bit), i.target)>>
      BY <2>3, <2>6, WantedStatements
    <3>2. i.target \in Labels \cap Words
      BY <2>2, <2>6, Fields DEF Labels
    <3>3. \/ printed[w][k] = Do("decrement")
          \/ printed[w][k] = Goto(CountTest(i.mnemonic, i.bit), i.target)
      BY <3>1
    <3>4. QED
      BY <3>2, <3>3 DEF Do, Goto
  <2>7. CASE i.op = "bctr"
    <3>1. CASE i.labels = <<>>
      BY <2>3, <2>7, <3>1, WantedStatements DEF Do
    <3>2. CASE i.labels # <<>>
      <4>1. printed[w][k] = [do |-> "switch", when |-> Always, labels |-> i.labels]
        BY <2>3, <2>7, <3>2, WantedStatements
      <4>2. PICK b \in Open(w) : tables[b] = i.labels
        BY <2>7, <3>2, ProgramFacts DEF IInv
      <4>3. b \in DOMAIN tables
        BY DEF Open
      <4>4. \A l \in DOMAIN i.labels : i.labels[l] \in Labels
        BY <4>2, <4>3 DEF Labels
      <4>5. i.labels \in Seq(Words)
        BY <2>2, <2>7, Fields
      <4>6. \A l \in DOMAIN i.labels : i.labels[l] \in Words
        BY <4>5
      <4>7. QED
        BY <4>1, <4>4, <4>6
    <3>3. QED
      BY <3>1, <3>2
  <2>8. QED
    BY <2>2, <2>4, <2>5, <2>6, <2>7, Fields
<1>2. QED
  BY <1>1, Invariance, PTL

\* What is printed for a word is a sequence of statements.
LEMMA WantedTyped ==
  ASSUME ProgramInv, NEW w \in Words
  PROVE  Wanted(w) \in Seq(Statements)
<1> DEFINE i == code[w]
           Tests == [count : {"any", "zero", "nonzero"}, bits : SUBSET Bits, set : BOOLEAN]
<1>1. i \in Instruction
  BY ProgramFacts
<1>2. Always \in Tests /\ OnCount("zero") \in Tests
  BY DEF Always, OnCount
<1>3. i.op \in {"bc", "bclr"} => Test(i.mnemonic) \in Tests
  <2>1. \A b \in Bits, v \in BOOLEAN : OnBit(b, v) \in Tests
    BY DEF OnBit
  <2>2. "lt" \in Bits /\ "gt" \in Bits /\ "eq" \in Bits /\ "so" \in Bits
    BY DEF Bits
  <2>3. \A m \in CondMnemonics : Test(m) \in Tests
    <3> HIDE DEF Tests
    <3>1. QED
      BY <2>1, <2>2 DEF CondMnemonics, Test
  <2>4. QED
    BY <1>1, <2>3, Fields
<1>4. Test("bne") \in Tests
  BY DEF Test, OnBit, Bits
<1>5. i.op = "bd" => CountTest(i.mnemonic, i.bit) \in Tests
  <2>1. \A b \in Bits, v \in BOOLEAN, c \in {"any", "zero", "nonzero"} :
          [count |-> c, bits |-> {b}, set |-> v] \in Tests
    OBVIOUS
  <2>2. OnCount("nonzero") \in Tests
    BY DEF OnCount
  <2>3. "eq" \in Bits
    BY DEF Bits
  <2>4. \A m \in CountMnemonics, b \in Bits : CountTest(m, b) \in Tests
    BY <1>2, <2>1, <2>2, <2>3 DEF CountMnemonics, CountTest
  <2>5. QED
    BY <1>1, <2>4, Fields
<1> HIDE DEF Tests
<1>6. \A what \in {"compute", "decrement", "callctr", "tailcallctr", "return"}, test \in Tests :
        If(test, what) \in Statements /\ Do(what) \in Statements
  BY <1>2 DEF If, Do, Statements, Tests
<1>7. \A test \in Tests, t \in Int, what \in {"goto", "call", "tailcall"} :
        [do |-> what, when |-> test, to |-> t] \in Statements
  BY DEF Statements, Tests
<1>8. \A test \in Tests, t \in Int : Goto(test, t) \in Statements /\ To(test, t) \in Statements
  BY <1>6, <1>7 DEF Goto, To
<1>9. /\ <<>> \in Seq(Statements)
      /\ \A x \in Statements : <<x>> \in Seq(Statements)
      /\ \A x, y \in Statements : <<x, y>> \in Seq(Statements)
  OBVIOUS
<1>10. CASE i.op \in {"compute", "bctrl", "blr"}
  <2>1. \E what \in {"compute", "callctr", "return"} : Wanted(w) = <<Do(what)>>
    BY <1>10, WantedStatements
  <2>2. QED
    BY <1>2, <1>6, <1>9, <2>1
<1>11. CASE i.op \in {"b", "bc"}
  <2>1. Wanted(w) = <<To(IF i.op = "b" THEN Always ELSE Test(i.mnemonic), i.target)>>
    BY <1>11, WantedStatements
  <2>2. i.target \in Int
    BY <1>1, <1>11, Fields
  <2>3. To(IF i.op = "b" THEN Always ELSE Test(i.mnemonic), i.target) \in Statements
    BY <1>2, <1>3, <1>8, <1>11, <2>2
  <2>4. QED
    BY <1>9, <2>1, <2>3
<1>12. CASE i.op = "bclr"
  <2>1. If(Test(i.mnemonic), "return") \in Statements
    BY <1>3, <1>6, <1>12
  <2>2. QED
    BY <1>9, <1>12, <2>1, WantedStatements
<1>13. CASE i.op = "bd"
  <2>1. i.target \in Int
    BY <1>1, <1>13, Fields, TranslationAssumption DEF Words
  <2>2. Do("decrement") \in Statements
    BY <1>2, <1>6
  <2>3. Goto(CountTest(i.mnemonic, i.bit), i.target) \in Statements
    BY <1>5, <1>8, <1>13, <2>1
  <2>4. QED
    BY <1>9, <1>13, <2>2, <2>3, WantedStatements
<1>14. CASE i.op = "bdzlr"
  <2>1. Do("decrement") \in Statements /\ If(OnCount("zero"), "return") \in Statements
    BY <1>2, <1>6
  <2>2. QED
    BY <1>9, <1>14, <2>1, WantedStatements
<1>15. CASE i.op = "bl"
  <2>1. i.target \in Int
    BY <1>1, <1>15, Fields
  <2>2. [do |-> "call", when |-> Always, to |-> i.target] \in Statements
    BY <1>2, <1>7, <2>1
  <2>3. Wanted(w) = <<>> \/ Wanted(w) = <<[do |-> "call", when |-> Always, to |-> i.target]>>
    BY <1>15, WantedStatements
  <2>4. QED
    BY <1>9, <2>2, <2>3
<1>16. CASE i.op = "bctr"
  <2>1. i.labels \in Seq(Words)
    BY <1>1, <1>16, Fields
  <2>2. [do |-> "switch", when |-> Always, labels |-> i.labels] \in Statements
    BY <2>1 DEF Statements
  <2>3. Do("tailcallctr") \in Statements
    BY <1>2, <1>6
  <2>4. \/ Wanted(w) = <<[do |-> "switch", when |-> Always, labels |-> i.labels]>>
        \/ Wanted(w) = <<Do("tailcallctr")>>
    BY <1>16, WantedStatements
  <2>5. QED
    BY <1>9, <2>2, <2>3, <2>4
<1>17. CASE i.op = "bnectr"
  <2>1. If(Test("bne"), "tailcallctr") \in Statements
    BY <1>4, <1>6
  <2>2. QED
    BY <1>9, <1>17, <2>1, WantedStatements
<1>18. QED
  BY <1>1, <1>10, <1>11, <1>12, <1>13, <1>14, <1>15, <1>16, <1>17, Fields

\* Control never comes to a place that has no statement to be at.
THEOREM TypeCorrect == Spec => []TypeOK
<1>1. IInv => TypeOK
  <2> SUFFICES ASSUME IInv PROVE TypeOK
    OBVIOUS
  <2>1. at \in {"print", "run", "returned", "unreachable"} /\ word \in 0 .. Length
    BY DEF IInv, PlaceInv
  <2>2. held \in Words \cup {None}
    BY DEF IInv, HeldInv
  <2>3. printed \in [Words -> Seq(Statements)]
    <3>1. \A w \in Words : Wanted(w) \in Seq(Statements) /\ <<>> \in Seq(Statements)
      BY WantedTyped DEF IInv
    <3>2. QED
      BY <3>1 DEF IInv, PrintInv
  <2>4. ASSUME at # "print"
        PROVE  word \in Words
               /\ stmt \in 1 .. (IF printed[word] = <<>> THEN 1 ELSE Len(printed[word]))
    <3>1. word \in Words /\ printed[word] = Wanted(word)
      BY <2>4 DEF IInv, PlaceInv, PrintInv
    <3>2. CASE stmt = 1
      <4>1. printed[word] \in Seq(Statements)
        BY <2>3, <3>1
      <4>2. printed[word] # <<>> => Len(printed[word]) \in Nat \ {0}
        BY <4>1
      <4>3. QED
        BY <3>1, <3>2, <4>2
    <3>3. CASE stmt = 2
      <4>1. code[word].op \in {"bd", "bdzlr"}
        BY <3>3 DEF IInv, PlaceInv
      <4>2. printed[word] # <<>> /\ Len(printed[word]) = 2
        BY <3>1, <4>1, WantedStatements
      <4>3. QED
        BY <3>1, <3>3, <4>2
    <3>4. QED
      BY <3>2, <3>3 DEF IInv, PlaceInv
  <2>5. cr \in SUBSET Bits /\ ctr \in 0 .. Modulus - 1 /\ called \in [to : Int, parity : {0, 1}]
    BY TranslationAssumption DEF IInv, RegisterInv
  <2>6. QED
    BY <2>1, <2>2, <2>3, <2>4, <2>5 DEF TypeOK
<1>2. QED
  BY <1>1, Invariance, PTL
=============================================================================
