------------------------- MODULE RecompilationProofs -------------------------
(***************************************************************************)
(* What a run that ends leaves in the output directory, and that it has    *)
(* applied the title update, for all images, sizes of output files, faults *)
(* and edits.                                                              *)
(***************************************************************************)
EXTENDS Recompilation, SequenceTheorems, TLAPS

Printing == {"headers", "functions", "include", "recompile", "save", "write"}

\* The patched file is a patched one, and so is what a run with a title update
\* goes on with.
ImageInv ==
  /\ patched # Nothing => patched.patch # 0
  /\ pc \in {"openPatched", "writePatched"} => file.patch # 0
  /\ pc \in Printing \cup {"parse"} /\ config.patch => file.patch # 0

-----------------------------------------------------------------------------
(* How far a run has come: headers first, then the files of functions.     *)

Current(n) == n \in failed \/ disk[n] = Text(n, image)
HeaderName(h) == <<Headers[h], 0>>
HeadersDone(k) == \A h \in 1 .. k : Current(HeaderName(h))
Saved(c) == \A n \in 0 .. c - 1 : Current(Numbered(n))

\* Output file c up to function n.
Part(c, n, from) ==
  Include \o [k \in 1 .. n - c * PerFile |-> [of |-> {from}, function |-> c * PerFile + k]]

\* The text that is not saved yet is that of file c up to function n.
Begun(c, n) ==
  \/ n = 0 /\ c = 0 /\ out = <<>>
  \/ c * PerFile < n /\ n <= (c + 1) * PerFile /\ out = Part(c, n, image)

HeadersInv ==
  /\ pc = "headers" =>
       i \in 0 .. 4 /\ out = <<>> /\ cppFileIndex = 0 /\ HeadersDone(i)
  /\ pc \in {"save", "write"} /\ return = "headers" =>
       /\ i \in 1 .. 4 /\ name = HeaderName(i) /\ out = HeaderText(Headers[i], image)
       /\ cppFileIndex = 0 /\ HeadersDone(i - 1)

\* The headers are saved.
Functional ==
  \/ pc \in {"functions", "include", "recompile", "exit"}
  \/ pc \in {"save", "write"} /\ return # "headers"

\* Numbered files are saved up to the one in out.
BeginInv ==
  /\ pc = "functions" =>
       i <= Functions[image] /\ Begun(cppFileIndex, i) /\ Saved(cppFileIndex)
  /\ pc = "save" /\ return \in {"include", "exit"} =>
       /\ name = <<"", 0>> /\ Begun(cppFileIndex, i) /\ Saved(cppFileIndex)
       /\ return = "include" => i < Functions[image] /\ i % PerFile = 0
       /\ return = "exit" => i = Functions[image]

\* A file has been opened, or its text has not been begun.
FileInv ==
  /\ pc = "write" /\ return \in {"include", "exit"} =>
       \E c \in 0 .. Functions[image] :
         /\ cppFileIndex = c + 1 /\ name = Numbered(c) /\ out = Chunk(c, image)
         /\ c * PerFile < Functions[image] /\ Saved(c)
         /\ return = "include" => i = (c + 1) * PerFile /\ i < Functions[image]
         /\ return = "exit" => Functions[image] <= (c + 1) * PerFile
  /\ pc \in {"include", "recompile"} =>
       /\ i = cppFileIndex * PerFile /\ i < Functions[image] /\ Saved(cppFileIndex)
       /\ out = IF pc = "include" THEN <<>> ELSE Include
  /\ pc = "exit" => Saved(cppFileIndex) /\ Functions[image] <= cppFileIndex * PerFile

SaveInv ==
  /\ pc \in {"save", "write"} => return # "idle"
  /\ pc = "write" => disk[name] = Torn
  /\ pc = "exit" => image \in XexFile

\* A run begins with nothing printed.
LoadInv ==
  pc \in {"loadPatched", "loadFile", "apply", "openPatched", "writePatched", "parse"} =>
    i = 0 /\ out = <<>> /\ cppFileIndex = 0

OutputInv ==
  /\ LoadInv
  /\ HeadersInv
  /\ Functional => HeadersDone(4)
  /\ BeginInv
  /\ FileInv
  /\ SaveInv

IInv == TypeOK /\ ImageInv /\ OutputInv

-----------------------------------------------------------------------------
(* Files of PerFile functions.                                             *)

LEMMA Dist == ASSUME NEW c \in Int PROVE (c + 1) * PerFile = c * PerFile + PerFile /\ c * PerFile \in Int
BY RecompilationAssumption

LEMMA Mono == ASSUME NEW a \in Int, NEW b \in Int, a <= b PROVE a * PerFile <= b * PerFile
BY RecompilationAssumption

LEMMA Less == ASSUME NEW a \in Int, NEW b \in Int, a * PerFile < b * PerFile PROVE a < b
<1>1. CASE b <= a
  <2>1. b * PerFile <= a * PerFile
    BY <1>1, Mono
  <2> QED
    BY <2>1, Dist
<1> QED
  BY <1>1

LEMMA Multiple == ASSUME NEW n \in Nat, n % PerFile = 0 PROVE \E q \in Int : n = q * PerFile
<1> DEFINE q == n \div PerFile
<1>1. q \in Int /\ n = PerFile * q + (n % PerFile)
  BY RecompilationAssumption
<1> QED
  BY <1>1, RecompilationAssumption

LEMMA MultipleMod == ASSUME NEW c \in Int PROVE (c * PerFile) % PerFile = 0
BY RecompilationAssumption

\* A file is full where the number of functions is a multiple of PerFile.
LEMMA Full ==
  ASSUME NEW c \in Int, NEW n \in Nat, c * PerFile < n, n <= (c + 1) * PerFile
  PROVE  n % PerFile = 0 <=> n = (c + 1) * PerFile
<1>1. ASSUME n % PerFile = 0 PROVE n = (c + 1) * PerFile
  <2>1. PICK q \in Int : n = q * PerFile
    BY <1>1, Multiple
  <2>2. c < q
    BY <2>1, Less
  <2>3. (c + 1) * PerFile <= q * PerFile
    BY <2>2, Mono
  <2> QED
    BY <2>1, <2>3, Dist
<1> QED
  BY <1>1, MultipleMod

-----------------------------------------------------------------------------
(* Names and texts.                                                        *)

LEMMA HeaderFacts ==
  /\ Len(Headers) = 4
  /\ \A h \in 1 .. 4 : /\ HeaderName(h) \in Names
                       /\ HeaderName(h)[1] = Headers[h]
                       /\ Headers[h] # "" /\ Headers[h] # "ppc_recomp"
  /\ \A h \in 1 .. 4, k \in 1 .. 4 : HeaderName(h) = HeaderName(k) => h = k
<1>1. Len(Headers) = 4 /\ \A h \in 1 .. 4 : Headers[h] # "" /\ Headers[h] # "ppc_recomp"
  BY DEF Headers
<1>2. \A h \in 1 .. 4, k \in 1 .. 4 : Headers[h] = Headers[k] => h = k
  BY DEF Headers
<1> QED
  BY <1>1, <1>2 DEF HeaderName, Names

LEMMA HeaderTexts ==
  ASSUME NEW h \in 1 .. 4, NEW f \in XexFile
  PROVE  /\ Text(HeaderName(h), f) = HeaderText(Headers[h], f)
         /\ HeaderText(Headers[h], f) \in Seq(Piece)
         /\ HeaderText(Headers[h], f) # <<>>
<1>1. Text(HeaderName(h), f) = HeaderText(Headers[h], f)
  BY HeaderFacts DEF Text
<1>2. [of |-> IF Headers[h] = "ppc_context.h" THEN {} ELSE {f}, function |-> 0] \in Piece
  BY DEF Piece
<1> QED
  BY <1>1, <1>2 DEF HeaderText

LEMMA NumberFacts ==
  ASSUME NEW n \in Nat
  PROVE  /\ Numbered(n)[1] = "ppc_recomp"
         /\ \A m \in Nat : Numbered(m) = Numbered(n) => m = n
         /\ \A h \in 1 .. 4 : HeaderName(h) # Numbered(n)
         /\ Numbered(n) # <<"", 0>>
         /\ \A f \in XexFile : /\ n <= Functions[f] => Numbered(n) \in Names
                               /\ Text(Numbered(n), f) = Chunk(n, f)
<1>1. \A h \in 1 .. 4 : HeaderName(h) # Numbered(n)
  <2>1. Numbered(n)[1] = "ppc_recomp"
    BY DEF Numbered
  <2> QED
    BY <2>1, HeaderFacts
<1>2. \A f \in XexFile : n <= Functions[f] => Numbered(n) \in Names
  BY RecompilationAssumption DEF Names
<1>3. Numbered(n)[1] = "ppc_recomp" /\ Numbered(n)[2] = n /\ Numbered(n) # <<"", 0>>
  BY DEF Numbered
<1>4. \A m \in Nat : Numbered(m) = Numbered(n) => m = n
  BY DEF Numbered
<1>5. \A f \in XexFile : Text(Numbered(n), f) = Chunk(n, f)
  BY <1>3 DEF Text
<1> QED
  BY <1>1, <1>2, <1>3, <1>4, <1>5

LEMMA NoName == <<"", 0>>[1] = "" /\ <<"", 0>> \notin Names
BY HeaderFacts DEF Names, Numbered, HeaderName

LEMMA AppendToConcat ==
  ASSUME NEW s \in Seq(Piece), NEW t \in Seq(Piece), NEW e \in Piece
  PROVE  Append(s \o t, e) = s \o Append(t, e)
<1>1. Append(s \o t, e) = (s \o t) \o <<e>> /\ Append(t, e) = t \o <<e>>
  BY AppendIsConcat, ConcatProperties
<1>2. (s \o t) \o <<e>> = s \o (t \o <<e>>)
  BY ConcatAssociative
<1> QED
  BY <1>1, <1>2

\* The functions of a file, in front of which its #include is.
Pieces(x, m, f) == [k \in 1 .. m |-> [of |-> {f}, function |-> x + k]]

LEMMA PiecesFacts ==
  ASSUME NEW x \in Nat, NEW m \in Nat, NEW f \in XexFile
  PROVE  /\ Pieces(x, m, f) \in Seq(Piece)
         /\ Pieces(x, 0, f) = <<>>
         /\ [of |-> {f}, function |-> x + m + 1] \in Piece
         /\ Append(Pieces(x, m, f), [of |-> {f}, function |-> x + m + 1]) = Pieces(x, m + 1, f)
<1>1. \A k \in Nat : [of |-> {f}, function |-> x + k] \in Piece
  BY DEF Piece
<1>2. \A n \in Nat : Pieces(x, n, f) \in Seq(Piece) /\ Len(Pieces(x, n, f)) = n
  BY <1>1 DEF Pieces
<1>3. Pieces(x, 0, f) = <<>>
  BY <1>2
<1>4. [of |-> {f}, function |-> x + m + 1] \in Piece
  BY <1>1
<1>5. Append(Pieces(x, m, f), [of |-> {f}, function |-> x + m + 1]) = Pieces(x, m + 1, f)
  <2> DEFINE s == Append(Pieces(x, m, f), [of |-> {f}, function |-> x + m + 1])
  <2>1. /\ Len(s) = m + 1
        /\ \A k \in 1 .. m : s[k] = Pieces(x, m, f)[k]
        /\ s[m + 1] = [of |-> {f}, function |-> x + m + 1]
        /\ s \in Seq(Piece)
    BY <1>2, <1>4, AppendProperties
  <2> HIDE DEF s
  <2>2. ASSUME NEW k \in 1 .. m + 1 PROVE s[k] = Pieces(x, m + 1, f)[k]
    <3>1. CASE k \in 1 .. m
      BY <2>1, <3>1 DEF Pieces
    <3>2. CASE k = m + 1
      <4>1. Pieces(x, m + 1, f)[m + 1] = [of |-> {f}, function |-> x + (m + 1)]
        BY DEF Pieces
      <4>2. x + (m + 1) = x + m + 1
        OBVIOUS
      <4> QED
        BY <2>1, <3>2, <4>1, <4>2
    <3> QED
      BY <3>1, <3>2
  <2>3. s = Pieces(x, m + 1, f)
    BY <1>2, <2>1, <2>2, SeqEqual
  <2> QED
    BY <2>3 DEF s
<1> QED
  BY <1>2, <1>3, <1>4, <1>5

LEMMA PartFacts ==
  ASSUME NEW c \in Int, NEW n \in Int, NEW f \in XexFile, c >= 0, c * PerFile <= n
  PROVE  /\ Part(c, n, f) \in Seq(Piece)
         /\ Part(c, n, f) # <<>>
         /\ Part(c, c * PerFile, f) = Include
         /\ Append(Part(c, n, f), [of |-> {f}, function |-> n + 1]) = Part(c, n + 1, f)
<1>1. PICK x \in Nat : x = c * PerFile
  BY RecompilationAssumption
<1>2. PICK m \in Nat : n = x + m
  <2>1. n - x \in Nat /\ n = x + (n - x)
    BY <1>1
  <2> QED
    BY <2>1
<1>3. /\ Part(c, n, f) = Include \o Pieces(x, m, f)
      /\ Part(c, n + 1, f) = Include \o Pieces(x, m + 1, f)
      /\ Part(c, c * PerFile, f) = Include \o Pieces(x, 0, f)
  <2>1. n - x = m /\ (n + 1) - x = m + 1 /\ x - x = 0
    BY <1>2
  <2> QED
    BY <1>1, <2>1 DEF Part, Pieces
<1>4. Include \in Seq(Piece) /\ Include # <<>>
  BY DEF Include, Piece
<1>5. /\ Part(c, n, f) \in Seq(Piece)
      /\ Part(c, n, f) # <<>>
  <2>1. Pieces(x, m, f) \in Seq(Piece)
    BY PiecesFacts
  <2>2. Include \o Pieces(x, m, f) \in Seq(Piece)
    BY <2>1, <1>4, ConcatProperties
  <2>3. Include \o Pieces(x, m, f) # <<>>
    BY <2>1, <1>4, ConcatEqualIffEmpty
  <2> QED
    BY <1>3, <2>2, <2>3
<1>6. Part(c, c * PerFile, f) = Include
  BY <1>3, <1>4, PiecesFacts, ConcatEmptySeq
<1>7. Append(Part(c, n, f), [of |-> {f}, function |-> n + 1]) = Part(c, n + 1, f)
  <2> DEFINE e == [of |-> {f}, function |-> x + m + 1]
  <2>1. /\ Pieces(x, m, f) \in Seq(Piece) /\ e \in Piece
        /\ Append(Pieces(x, m, f), e) = Pieces(x, m + 1, f)
    BY PiecesFacts
  <2>2. e = [of |-> {f}, function |-> n + 1]
    BY <1>2
  <2> HIDE DEF e
  <2>3. Append(Include \o Pieces(x, m, f), e) = Include \o Append(Pieces(x, m, f), e)
    BY <1>4, <2>1, AppendToConcat
  <2> QED
    BY <1>3, <2>1, <2>2, <2>3
<1> QED
  BY <1>5, <1>6, <1>7

LEMMA PartIsChunk ==
  ASSUME NEW c \in Nat, NEW n \in Nat, NEW f \in XexFile, c * PerFile < n,
         n <= (c + 1) * PerFile, n <= Functions[f], n = Functions[f] \/ n = (c + 1) * PerFile
  PROVE  Part(c, n, f) = Chunk(c, f)
<1>1. n - c * PerFile = Least(PerFile, Functions[f] - c * PerFile)
  BY Dist, RecompilationAssumption DEF Least
<1> QED
  BY <1>1 DEF Part, Chunk

LEMMA ChunkNotEmpty ==
  ASSUME NEW c \in Nat, NEW f \in XexFile, c * PerFile < Functions[f]
  PROVE  Chunk(c, f) # <<>> /\ Chunk(c, f) \in Seq(Piece)
<1> DEFINE n == Least(Functions[f], (c + 1) * PerFile)
<1>1. /\ n \in Nat /\ c * PerFile < n /\ n <= (c + 1) * PerFile /\ n <= Functions[f]
      /\ n = Functions[f] \/ n = (c + 1) * PerFile
  BY Dist, RecompilationAssumption DEF Least
<1> HIDE DEF n
<1>2. Part(c, n, f) = Chunk(c, f)
  BY <1>1, PartIsChunk
<1>3. c * PerFile <= n
  BY <1>1, Dist
<1>4. Part(c, n, f) \in Seq(Piece) /\ Part(c, n, f) # <<>>
  <2>1. c \in Int /\ n \in Int /\ c >= 0
    BY <1>1
  <2> QED
    BY <1>3, <2>1, PartFacts
<1> QED
  BY <1>2, <1>4

-----------------------------------------------------------------------------
(* Types.                                                                  *)

LEMMA FunctionCount == \A f \in XexFile : Functions[f] \in Nat
BY RecompilationAssumption

LEMMA NotMore ==
  ASSUME NEW c \in Nat, NEW n \in Int, c * PerFile < n
  PROVE  c < n
<1>1. c <= c * PerFile
  BY RecompilationAssumption
<1> QED
  BY <1>1, Dist

\* The file that is saved next has a name.
LEMMA TargetIsName ==
  ASSUME TypeOK, OutputInv, pc = "save", out # <<>>
  PROVE  /\ image \in XexFile
         /\ name[1] = "" => /\ name = <<"", 0>> /\ return \in {"include", "exit"}
                            /\ cppFileIndex * PerFile < i /\ i <= Functions[image]
                            /\ i <= (cppFileIndex + 1) * PerFile
                            /\ out = Part(cppFileIndex, i, image)
                            /\ Numbered(cppFileIndex) \in Names
         /\ name[1] # "" => return = "headers" /\ name \in Names
<1>1. image \in XexFile /\ return \in {"headers", "include", "exit"}
  BY DEF TypeOK, OutputInv, SaveInv, Stopped
<1>2. CASE return = "headers"
  <2>1. i \in 1 .. 4 /\ name = HeaderName(i)
    BY <1>2 DEF OutputInv, HeadersInv
  <2> QED
    BY <1>1, <1>2, <2>1, HeaderFacts
<1>3. CASE return \in {"include", "exit"}
  <2>1. name = <<"", 0>> /\ name[1] = ""
    BY <1>3, NoName DEF OutputInv, BeginInv
  <2>2. /\ cppFileIndex * PerFile < i /\ i <= (cppFileIndex + 1) * PerFile
        /\ out = Part(cppFileIndex, i, image)
    BY <1>3 DEF OutputInv, BeginInv, Begun
  <2>3. cppFileIndex \in Nat /\ i \in Nat /\ Functions[image] \in Nat
    BY <1>1, FunctionCount DEF TypeOK
  <2>4. i <= Functions[image]
    <3>1. i < Functions[image] \/ i = Functions[image]
      BY <1>3 DEF OutputInv, BeginInv
    <3> QED
      BY <2>3, <3>1
  <2>5. cppFileIndex <= Functions[image]
    BY <2>2, <2>4, <2>3, NotMore
  <2> QED
    BY <1>1, <1>3, <2>1, <2>2, <2>4, <2>3, <2>5, NumberFacts
<1> QED
  BY <1>1, <1>2, <1>3

LEMMA NoText == <<>> \in Seq(Piece) /\ Torn \in Seq(Piece)
BY DEF Torn

LEMMA Bounds ==
  /\ Faults \in Nat /\ Edits \in Nat /\ 0 \in Nat
  /\ \A n \in 0 .. Faults : n < Faults => n + 1 \in 0 .. Faults
  /\ \A n \in 0 .. Edits : n < Edits => n + 1 \in 0 .. Edits
<1>1. Faults \in Nat /\ Edits \in Nat
  BY RecompilationAssumption
<1> QED
  BY <1>1

LEMMA NothingIsNoFile == Nothing \notin XexFile
BY RecompilationAssumption

LEMMA TypeInit == Init => TypeOK
<1> SUFFICES ASSUME Init PROVE TypeOK
  OBVIOUS
<1>1. disk \in [Names -> Seq(Piece)] /\ out \in Seq(Piece)
  BY NoText DEF Init
<1>2. faults \in 0 .. Faults /\ edits \in 0 .. Edits
  <2>1. 0 \in 0 .. Faults /\ 0 \in 0 .. Edits
    BY Bounds
  <2> QED
    BY <2>1 DEF Init
<1> QED
  BY <1>1, <1>2 DEF Init, TypeOK, Stopped

\* What the user and the steps of LoadConfig leave alone, and what they set.
LEMMA TypeStep == TypeOK /\ OutputInv /\ [Next]_vars => TypeOK'
<1> SUFFICES ASSUME TypeOK, OutputInv, [Next]_vars PROVE TypeOK'
  OBVIOUS
<1> USE DEF Stopped
<1>1. CASE Start
  <2>1. out' \in Seq(Piece)
    BY <1>1, NoText DEF Start
  <2> QED
    BY <1>1, <2>1 DEF TypeOK, Start, input, bounds
<1>2. CASE LoadPatched
  <2>1. pc' \in {"loadFile", "parse"} /\ file' \in XexFile \cup {Nothing}
    BY <1>2 DEF TypeOK, LoadPatched
  <2>2. pc' # "loadFile" => file' # Nothing
    BY <1>2 DEF LoadPatched
  <2> QED
    BY <1>2, <2>1, <2>2 DEF TypeOK, LoadPatched, input, bounds, saving
<1>3. CASE LoadExe
  <2>1. [exe |-> exe, patch |-> 0, whole |-> TRUE] \in XexFile
    BY DEF TypeOK, XexFile
  <2>2. file' \in XexFile /\ file' # Nothing /\ pc' \in {"apply", "parse"}
    BY <1>3, <2>1, RecompilationAssumption DEF LoadExe
  <2> QED
    BY <1>3, <2>2 DEF TypeOK, LoadExe, input, bounds, saving
<1>4. CASE ApplyPatch
  <2>1. file \in XexFile
    BY <1>4 DEF TypeOK, ApplyPatch
  <2>2. <<file.exe, patch>> \in Applies => [file EXCEPT !.patch = patch] \in XexFile
    BY <2>1, RecompilationAssumption DEF XexFile
  <2>3. file' \in XexFile /\ file' # Nothing
    BY <1>4, <2>1, <2>2, RecompilationAssumption DEF ApplyPatch
  <2>4. pc' \in {"openPatched", "parse", "refused"}
    BY <1>4 DEF ApplyPatch
  <2> QED
    BY <1>4, <2>3, <2>4 DEF TypeOK, ApplyPatch, input, bounds, saving
<1>5. CASE OpenPatched
  BY <1>5 DEF TypeOK, OpenPatched, input, bounds, saving
<1>6. CASE CannotOpenPatched
  <2>1. faults' \in 0 .. Faults
    BY <1>6, Bounds DEF CannotOpenPatched, TypeOK
  <2>2. /\ pc' = "parse" /\ UNCHANGED <<exe, patch, config, patched, disk, file, image, edits>>
        /\ UNCHANGED <<return, i, cppFileIndex, name, out, failed>>
    BY <1>6 DEF CannotOpenPatched, input, saving
  <2>3. file # Nothing
    BY <1>6 DEF CannotOpenPatched, TypeOK
  <2> QED
    BY <2>1, <2>2, <2>3 DEF TypeOK
<1>7. CASE WritePatched
  BY <1>7 DEF TypeOK, WritePatched, input, bounds, saving
<1>8. ASSUME file \in XexFile PROVE [file EXCEPT !.whole = FALSE] \in XexFile
  BY <1>8 DEF XexFile
<1>9. CASE WritePatchedFails
  <2>1. file \in XexFile
    BY <1>9 DEF TypeOK, WritePatchedFails
  <2>2. patched' \in XexFile \cup {Nothing}
    BY <1>8, <1>9, <2>1 DEF WritePatchedFails, Remains
  <2>3. faults' \in 0 .. Faults
    BY <1>9, Bounds DEF WritePatchedFails, TypeOK
  <2>4. /\ pc' = "parse" /\ UNCHANGED <<exe, patch, config, disk, file, image, edits>>
        /\ UNCHANGED <<return, i, cppFileIndex, name, out, failed>>
    BY <1>9 DEF WritePatchedFails, input, saving
  <2> QED
    BY <2>1, <2>2, <2>3, <2>4, NothingIsNoFile DEF TypeOK
<1>10. CASE Parse
  BY <1>10 DEF TypeOK, Parse, input, bounds, saving
<1>11. CASE PrintHeader
  <2>1. image \in XexFile /\ image = file
    BY <1>11 DEF TypeOK, PrintHeader
  <2>2. i + 1 \in 1 .. 4
    <3>1. Len(Headers) = 4
      BY HeaderFacts
    <3>2. i \in Nat /\ i < Len(Headers)
      BY <1>11 DEF TypeOK, PrintHeader
    <3> QED
      BY <3>1, <3>2
  <2>3. HeaderText(Headers[i + 1], image) \in Seq(Piece)
    BY <2>1, <2>2, HeaderTexts
  <2>4. <<Headers[i + 1], 0>> \in Names
    BY <2>2, HeaderFacts DEF HeaderName
  <2>5. /\ name' \in Names /\ out' \in Seq(Piece) /\ i' \in Nat /\ pc' = "save"
        /\ return' = "headers"
    BY <1>11, <2>3, <2>4, <2>2 DEF PrintHeader
  <2>6. UNCHANGED <<exe, patch, config, patched, disk, file, image, cppFileIndex, failed, faults, edits>>
    BY <1>11 DEF PrintHeader, input, bounds
  <2> QED
    BY <2>1, <2>5, <2>6, NothingIsNoFile DEF TypeOK
<1>12. CASE EndHeaders
  BY <1>12 DEF TypeOK, EndHeaders, input, bounds
<1>13. CASE BeginFile
  BY <1>13 DEF TypeOK, BeginFile, input, bounds
<1>14. CASE PrintInclude
  <2>1. Include \in Seq(Piece)
    BY DEF Include, Piece
  <2>2. out \o Include \in Seq(Piece)
    BY <2>1, ConcatProperties DEF TypeOK
  <2> QED
    BY <1>14, <2>2 DEF TypeOK, PrintInclude, input, bounds
<1>15. CASE RecompileFunction
  <2>1. image \in XexFile
    BY <1>15 DEF TypeOK, RecompileFunction
  <2>2. [of |-> {image}, function |-> i + 1] \in Piece
    <3>1. i \in Nat
      BY DEF TypeOK
    <3> QED
      BY <2>1, <3>1 DEF Piece
  <2>3. out' \in Seq(Piece)
    BY <1>15, <2>2, AppendProperties DEF RecompileFunction, TypeOK
  <2>4. file # Nothing /\ image = file /\ i' \in Nat /\ pc' = "functions"
    <3>1. pc \in {"recompile", "functions"} /\ i' = i + 1 /\ pc' = "functions"
      BY <1>15 DEF RecompileFunction
    <3>2. i \in Nat /\ file # Nothing /\ image = file
      BY <3>1 DEF TypeOK
    <3> QED
      BY <3>1, <3>2
  <2>5. /\ UNCHANGED <<exe, patch, config, patched, disk, return, file, image>>
        /\ UNCHANGED <<cppFileIndex, name, failed, faults, edits>>
    BY <1>15 DEF RecompileFunction, input, bounds
  <2> QED
    BY <2>3, <2>4, <2>5 DEF TypeOK
<1>16. CASE EndFunctions
  BY <1>16 DEF TypeOK, EndFunctions, input, bounds
<1>17. CASE SaveNothing
  <2>1. return # "idle"
    BY <1>17 DEF SaveNothing, OutputInv, SaveInv
  <2> QED
    BY <1>17, <2>1 DEF TypeOK, SaveNothing, input, bounds, saving
<1>18. CASE Save
  <2> DEFINE target == IF name[1] = "" THEN Numbered(cppFileIndex) ELSE name
  <2>1. target \in Names /\ return # "idle"
    BY <1>18, TargetIsName DEF Save, OutputInv, SaveInv
  <2>2. Torn \in Seq(Piece) /\ <<>> \in Seq(Piece)
    BY DEF Torn
  <2>3. cppFileIndex' \in Nat
    <3>1. cppFileIndex \in Nat
      BY DEF TypeOK
    <3>2. cppFileIndex' \in {cppFileIndex, cppFileIndex + 1}
      BY <1>18 DEF Save
    <3> QED
      BY <3>1, <3>2
  <2>4. name' \in Names \cup {<<"", 0>>} /\ disk' \in [Names -> Seq(Piece)]
    BY <1>18, <2>1, <2>2 DEF Save, TypeOK
  <2>5. out' \in Seq(Piece) /\ pc' \in {return, "write"}
    BY <1>18, NoText DEF Save, TypeOK
  <2> HIDE DEF target
  <2>6. UNCHANGED <<input, patched, return, file, image, i, failed, bounds>>
    BY <1>18 DEF Save
  <2> QED
    BY <1>18, <2>1, <2>3, <2>4, <2>5, <2>6 DEF TypeOK, Save, input, bounds
<1>19. CASE Write
  <2>1. return # "idle"
    BY <1>19 DEF Write, OutputInv, SaveInv
  <2>2. disk' \in [Names -> Seq(Piece)] /\ out' \in Seq(Piece)
    BY <1>19, NoText DEF Write, TypeOK
  <2> QED
    BY <1>19, <2>1, <2>2 DEF TypeOK, Write, input, bounds
<1>20. ASSUME pc = "write" PROVE name \in Names
  <2>1. CASE return = "headers"
    BY <1>20, <2>1, HeaderFacts DEF OutputInv, HeadersInv
  <2>2. CASE return \in {"include", "exit"}
    <3>1. PICK c \in 0 .. Functions[image] : name = Numbered(c)
      BY <1>20, <2>2 DEF OutputInv, FileInv
    <3>2. image \in XexFile
      BY <1>20 DEF TypeOK
    <3>3. Functions[image] \in Nat /\ c \in Nat /\ c <= Functions[image]
      BY <3>2, FunctionCount
    <3> QED
      BY <3>1, <3>2, <3>3, NumberFacts
  <2> QED
    BY <1>20, <2>1, <2>2 DEF TypeOK, OutputInv, SaveInv
<1>21. CASE WriteFails
  <2>1. return # "idle"
    BY <1>21 DEF WriteFails, OutputInv, SaveInv
  <2>2. failed' \subseteq Names /\ out' \in Seq(Piece)
    BY <1>20, <1>21, NoText DEF WriteFails, TypeOK
  <2>3. faults' \in 0 .. Faults
    BY <1>21, Bounds DEF WriteFails, TypeOK
  <2>4. image = file /\ file # Nothing
    BY <1>21 DEF WriteFails, TypeOK
  <2>5. /\ pc' = return /\ UNCHANGED <<exe, patch, config, patched, disk, return, file, image>>
        /\ UNCHANGED <<i, cppFileIndex, name, edits>>
    BY <1>21 DEF WriteFails, input
  <2> QED
    BY <2>1, <2>2, <2>3, <2>4, <2>5 DEF TypeOK
<1>22. CASE Kill
  <2>1. patched' \in XexFile \cup {Nothing}
    BY <1>8, <1>22 DEF Kill, TypeOK, Remains
  <2>2. disk' \in [Names -> Seq(Piece)]
    BY <1>22 DEF Kill, TypeOK
  <2>3. faults' \in 0 .. Faults
    BY <1>22, Bounds DEF Kill, TypeOK
  <2>4. /\ pc' = "idle" /\ UNCHANGED <<exe, patch, config, file, image, edits>>
        /\ UNCHANGED <<return, i, cppFileIndex, name, out, failed>>
    BY <1>22 DEF Kill, input, saving
  <2> QED
    BY <2>1, <2>2, <2>3, <2>4 DEF TypeOK
<1>23. CASE Edit
  <2>1. edits' \in 0 .. Edits
    BY <1>23, Bounds DEF Edit, TypeOK
  <2>2. exe' \in Exes /\ patch' \in Patches \cup {0} /\ patched' \in XexFile \cup {Nothing}
    BY <1>23 DEF Edit, input, TypeOK
  <2>3. config' \in [patch : BOOLEAN, patched : BOOLEAN]
    BY <1>23 DEF Edit, input, TypeOK
  <2>4. UNCHANGED <<disk, pc, file, image, return, i, cppFileIndex, name, out, failed, faults>>
    BY <1>23 DEF Edit, saving
  <2> QED
    BY <2>1, <2>2, <2>3, <2>4 DEF TypeOK
<1>24. CASE UNCHANGED vars
  <2>1. /\ exe' = exe /\ patch' = patch /\ config' = config /\ patched' = patched
        /\ disk' = disk /\ pc' = pc /\ return' = return /\ file' = file /\ image' = image
        /\ i' = i /\ cppFileIndex' = cppFileIndex /\ name' = name /\ out' = out
        /\ failed' = failed /\ faults' = faults /\ edits' = edits
    BY <1>24 DEF vars, input, bounds, saving
  <2> QED
    <3>1. /\ exe' \in Exes /\ patch' \in Patches \cup {0}
          /\ config' \in [patch : BOOLEAN, patched : BOOLEAN]
          /\ patched' \in XexFile \cup {Nothing} /\ disk' \in [Names -> Seq(Piece)]
          /\ file' \in XexFile \cup {Nothing} /\ image' \in XexFile \cup {Nothing}
      BY <2>1 DEF TypeOK
    <3>2. /\ i' \in Nat /\ cppFileIndex' \in Nat /\ name' \in Names \cup {<<"", 0>>}
          /\ out' \in Seq(Piece) /\ failed' \subseteq Names
          /\ faults' \in 0 .. Faults /\ edits' \in 0 .. Edits
      BY <2>1 DEF TypeOK
    <3>3. return' \in {"idle", "headers", "include", "exit"} /\ pc' = pc
      BY <2>1 DEF TypeOK
    <3> QED
      BY <2>1, <3>1, <3>2, <3>3 DEF TypeOK
<1> QED
  BY <1>1, <1>2, <1>3, <1>4, <1>5, <1>6, <1>7, <1>9, <1>10, <1>11, <1>12, <1>13, <1>14,
     <1>15, <1>16, <1>17, <1>18, <1>19, <1>21, <1>22, <1>23, <1>24 DEF Next, Run

-----------------------------------------------------------------------------
(* The title update.                                                       *)

LEMMA ImageInit == Init => ImageInv
BY DEF Init, ImageInv, Printing

\* Printing goes on with the file that was parsed.
LEMMA ImageKept ==
  ASSUME TypeOK, ImageInv, patched' = patched, file' = file, config' = config,
         pc \in Printing \cup {"parse"}, pc' \in Printing \cup {"exit", "idle"}
  PROVE  ImageInv'
BY DEF ImageInv, Printing

LEMMA ImageStep == TypeOK /\ ImageInv /\ [Next]_vars => ImageInv'
<1> SUFFICES ASSUME TypeOK, ImageInv, [Next]_vars PROVE ImageInv'
  OBVIOUS
<1>1. CASE Start
  BY <1>1 DEF ImageInv, Start, Printing
<1>2. CASE LoadPatched
  <2>1. pc' = "loadFile" \/ (pc' = "parse" /\ file' # Nothing)
    BY <1>2 DEF LoadPatched
  <2>2. file' # Nothing => file' = patched
    BY <1>2 DEF LoadPatched
  <2>3. patched' = patched
    BY <1>2 DEF LoadPatched
  <2> QED
    BY <2>1, <2>2, <2>3 DEF ImageInv, Printing
<1>3. CASE LoadExe
  BY <1>3 DEF ImageInv, LoadExe, Printing, input
<1>4. CASE ApplyPatch
  <2>1. file \in XexFile
    BY <1>4 DEF TypeOK, ApplyPatch, Stopped
  <2>2. <<file.exe, patch>> \in Applies => patch # 0
    BY RecompilationAssumption
  <2>3. pc' \in {"openPatched", "parse"} => file' = [file EXCEPT !.patch = patch] /\ patch # 0
    BY <1>4, <2>2 DEF ApplyPatch
  <2>4. pc' \in {"openPatched", "parse"} => file'.patch # 0
    BY <2>1, <2>3 DEF XexFile
  <2>5. patched' = patched /\ pc' \in {"openPatched", "parse", "refused"}
    BY <1>4 DEF ApplyPatch
  <2> QED
    BY <2>4, <2>5 DEF ImageInv, Printing
<1>5. CASE OpenPatched
  BY <1>5 DEF ImageInv, OpenPatched, Printing, input
<1>6. CASE CannotOpenPatched
  BY <1>6 DEF ImageInv, CannotOpenPatched, Printing, input
<1>7. CASE WritePatched
  BY <1>7 DEF ImageInv, WritePatched, Printing, input
<1>8. ASSUME pc = "writePatched", NEW p \in Remains \cup {file} PROVE p # Nothing => p.patch # 0
  <2>1. file \in XexFile /\ file.patch # 0
    BY <1>8 DEF TypeOK, ImageInv, Stopped
  <2> QED
    BY <1>8, <2>1 DEF Remains, XexFile
<1>9. CASE WritePatchedFails
  <2>1. patched' # Nothing => patched'.patch # 0
    BY <1>8, <1>9 DEF WritePatchedFails
  <2>2. file.patch # 0
    BY <1>9 DEF WritePatchedFails, ImageInv
  <2> QED
    BY <1>9, <2>1, <2>2 DEF ImageInv, WritePatchedFails, Printing, input
<1>10. CASE Parse \/ PrintHeader \/ EndHeaders \/ BeginFile \/ PrintInclude \/ RecompileFunction
            \/ EndFunctions
  <2>1. patched' = patched /\ file' = file /\ config' = config
    BY <1>10 DEF Parse, PrintHeader, EndHeaders, BeginFile, PrintInclude, RecompileFunction,
                 EndFunctions, input
  <2>2. pc \in Printing \cup {"parse"} /\ pc' \in Printing
    BY <1>10 DEF Parse, PrintHeader, EndHeaders, BeginFile, PrintInclude, RecompileFunction,
                 EndFunctions, Printing
  <2> QED
    BY <2>1, <2>2, ImageKept
<1>11. CASE SaveNothing \/ Save \/ Write \/ WriteFails
  <2>1. patched' = patched /\ file' = file /\ config' = config
    BY <1>11 DEF SaveNothing, Save, Write, WriteFails, input
  <2>2. pc \in Printing /\ pc' \in {return, "write"}
    BY <1>11 DEF SaveNothing, Save, Write, WriteFails, Printing
  <2>3. return \in {"idle", "headers", "include", "exit"}
    BY DEF TypeOK
  <2>4. pc' \in Printing \cup {"exit", "idle"}
    BY <2>2, <2>3 DEF Printing
  <2> QED
    BY <2>1, <2>2, <2>4, ImageKept
<1>12. CASE Kill
  <2>1. pc' = "idle"
    BY <1>12 DEF Kill
  <2>2. patched' # Nothing => patched'.patch # 0
    BY <1>8, <1>12 DEF Kill, ImageInv
  <2> QED
    BY <2>1, <2>2 DEF ImageInv, Printing
<1>13. CASE Edit
  <2>1. pc' \in Stopped
    BY <1>13 DEF Edit
  <2>2. patched' \in {patched, Nothing}
    BY <1>13 DEF Edit
  <2> QED
    BY <2>1, <2>2 DEF ImageInv, Printing, Stopped
<1>14. CASE UNCHANGED vars
  BY <1>14 DEF ImageInv, vars, input
<1> QED
  BY <1>1, <1>2, <1>3, <1>4, <1>5, <1>6, <1>7, <1>9, <1>10, <1>11, <1>12, <1>13, <1>14
  DEF Next, Run

-----------------------------------------------------------------------------
(* The output files.                                                       *)

LEMMA OutputInit == Init => OutputInv
BY DEF Init, OutputInv, LoadInv, HeadersInv, Functional, BeginInv, FileInv, SaveInv

\* A process that prints nothing.
LEMMA Outside ==
  ASSUME pc' \notin Printing \cup {"exit"}, LoadInv'
  PROVE  OutputInv'
BY DEF Printing, OutputInv, HeadersInv, Functional, BeginInv, FileInv, SaveInv

\* Nothing is taken back that was saved.
LEMMA Kept ==
  ASSUME disk' = disk, image' = image, failed \subseteq failed'
  PROVE  /\ \A k \in Nat : HeadersDone(k) => \A h \in 1 .. k : Current(HeaderName(h))'
         /\ \A c \in Nat : Saved(c) => \A n \in 0 .. c - 1 : Current(Numbered(n))'
BY DEF HeadersDone, Saved, Current

\* The file t is the next one in a run of which cppFileIndex will be c.
At(t, c) ==
  \/ return = "headers" /\ i \in 1 .. 4 /\ t = HeaderName(i) /\ c = 0 /\ HeadersDone(i - 1)
  \/ /\ return \in {"include", "exit"} /\ HeadersDone(4)
     /\ c - 1 \in 0 .. Functions[image] /\ c \in Nat /\ t = Numbered(c - 1)
     /\ (c - 1) * PerFile < Functions[image] /\ Saved(c - 1)
     /\ return = "include" => i = c * PerFile /\ i < Functions[image]
     /\ return = "exit" => Functions[image] <= c * PerFile

LEMMA AtFacts ==
  ASSUME TypeOK, image \in XexFile, NEW t, NEW c, At(t, c)
  PROVE  /\ t \in Names
         /\ \A h \in 1 .. 4 : return # "headers" \/ h < i => HeaderName(h) \in Names \ {t}
         /\ return # "headers" => \A n \in 0 .. c - 2 : Numbered(n) \in Names \ {t}
         /\ Text(t, image) # <<>>
<1>1. CASE return = "headers" /\ i \in 1 .. 4 /\ t = HeaderName(i)
  <2>1. HeaderName(i) \in Names /\ \A h \in 1 .. 4 : h < i => HeaderName(h) # HeaderName(i)
    <3>1. PICK k \in 1 .. 4 : k = i
      BY <1>1
    <3>2. ASSUME NEW h \in 1 .. 4, h < k PROVE HeaderName(h) # HeaderName(k)
      <4>1. h # k
        BY <3>2
      <4> QED
        BY <4>1, HeaderFacts
    <3>3. HeaderName(k) \in Names
      BY HeaderFacts
    <3> QED
      BY <3>1, <3>2, <3>3
  <2>2. Text(HeaderName(i), image) # <<>>
    BY <1>1, HeaderTexts
  <2>3. \A h \in 1 .. 4 : HeaderName(h) \in Names
    BY HeaderFacts
  <2> QED
    BY <1>1, <2>1, <2>2, <2>3
<1>2. CASE /\ return # "headers" /\ c - 1 \in 0 .. Functions[image] /\ c \in Nat
           /\ t = Numbered(c - 1) /\ (c - 1) * PerFile < Functions[image]
  <2>1. PICK m \in Nat : m = c - 1 /\ m <= Functions[image]
    BY <1>2
  <2>2. Functions[image] \in Nat
    BY FunctionCount
  <2>3. t = Numbered(m) /\ t \in Names /\ \A h \in 1 .. 4 : HeaderName(h) # t
    BY <1>2, <2>1, NumberFacts
  <2>4. ASSUME NEW n \in 0 .. c - 2 PROVE Numbered(n) \in Names \ {t}
    <3>1. n \in Nat /\ n <= Functions[image] /\ n # m
      BY <1>2, <2>1, <2>2
    <3> QED
      BY <2>3, <3>1, NumberFacts
  <2>5. Text(t, image) # <<>>
    <3>1. m * PerFile < Functions[image]
      BY <1>2, <2>1
    <3> QED
      BY <2>3, <3>1, NumberFacts, ChunkNotEmpty
  <2> QED
    BY <1>2, <2>3, <2>4, <2>5, HeaderFacts
<1> QED
  BY <1>1, <1>2 DEF At

\* What is saved stays when another file is written.
LEMMA OthersKept ==
  ASSUME TypeOK, image \in XexFile, NEW t, NEW c, At(t, c), image' = image,
         failed \subseteq failed', \A n \in Names \ {t} : disk'[n] = disk[n]
  PROVE  /\ return = "headers" => \A h \in 1 .. i - 1 : Current(HeaderName(h))'
         /\ return # "headers" => /\ \A h \in 1 .. 4 : Current(HeaderName(h))'
                                  /\ \A n \in 0 .. c - 2 : Current(Numbered(n))'
<1>1. ASSUME NEW n \in Names \ {t}, Current(n) PROVE Current(n)'
  BY <1>1 DEF Current
<1>2. CASE return = "headers"
  <2>1. i \in 1 .. 4 /\ HeadersDone(i - 1)
    BY <1>2 DEF At
  <2>2. ASSUME NEW h \in 1 .. i - 1 PROVE Current(HeaderName(h))'
    <3>1. h \in 1 .. 4 /\ h < i
      BY <2>1
    <3>2. HeaderName(h) \in Names \ {t}
      BY <3>1, AtFacts
    <3>3. Current(HeaderName(h))
      BY <2>1 DEF HeadersDone
    <3> QED
      BY <1>1, <3>2, <3>3
  <2> QED
    BY <1>2, <2>2
<1>3. CASE return # "headers"
  <2>1. HeadersDone(4) /\ Saved(c - 1) /\ c \in Nat
    BY <1>3 DEF At
  <2>2. ASSUME NEW h \in 1 .. 4 PROVE Current(HeaderName(h))'
    <3>1. HeaderName(h) \in Names \ {t}
      BY <1>3, AtFacts
    <3>2. Current(HeaderName(h))
      BY <2>1 DEF HeadersDone
    <3> QED
      BY <1>1, <3>1, <3>2
  <2>3. ASSUME NEW n \in 0 .. c - 2 PROVE Current(Numbered(n))'
    <3>1. Numbered(n) \in Names \ {t}
      BY <1>3, AtFacts
    <3>2. n \in 0 .. (c - 1) - 1
      BY <2>1
    <3>3. Current(Numbered(n))
      BY <2>1, <3>2 DEF Saved
    <3> QED
      BY <1>1, <3>1, <3>3
  <2> QED
    BY <1>3, <2>2, <2>3
<1> QED
  BY <1>2, <1>3

\* The file is saved, or the run knows that it is not.
LEMMA Advance ==
  ASSUME TypeOK, image \in XexFile, NEW t, NEW c, At(t, c), image' = image, i' = i,
         failed \subseteq failed', \A n \in Names \ {t} : disk'[n] = disk[n],
         Current(t)', pc' = return, out' = <<>>, cppFileIndex' = c
  PROVE  OutputInv'
<1>1. i \in Nat
  BY DEF TypeOK
<1>2. CASE return = "headers"
  <2>1. i \in 1 .. 4 /\ t = HeaderName(i) /\ c = 0
    BY <1>2 DEF At
  <2>2. ASSUME NEW h \in 1 .. i PROVE Current(HeaderName(h))'
    <3>1. h \in 1 .. i - 1 \/ h = i
      BY <2>1
    <3> QED
      BY <1>2, <2>1, <3>1, OthersKept
  <2>3. HeadersDone(i)'
    BY <2>2 DEF HeadersDone
  <2> QED
    BY <1>2, <2>1, <2>3
    DEF OutputInv, LoadInv, HeadersInv, Functional, BeginInv, FileInv, SaveInv
<1>3. CASE return \in {"include", "exit"}
  <2>1. /\ c \in Nat /\ t = Numbered(c - 1)
        /\ return = "include" => i = c * PerFile /\ i < Functions[image]
        /\ return = "exit" => Functions[image] <= c * PerFile
    BY <1>3 DEF At
  <2>2. ASSUME NEW n \in 0 .. c - 1 PROVE Current(Numbered(n))'
    <3>1. n \in 0 .. c - 2 \/ n = c - 1
      BY <2>1
    <3> QED
      BY <1>3, <2>1, <3>1, OthersKept
  <2>3. Saved(cppFileIndex)'
    BY <2>2 DEF Saved
  <2>4. HeadersDone(4)'
    BY <1>3, OthersKept DEF HeadersDone
  <2> QED
    BY <1>3, <2>1, <2>3, <2>4
    DEF OutputInv, LoadInv, HeadersInv, Functional, BeginInv, FileInv, SaveInv
<1> QED
  BY <1>2, <1>3 DEF At

\* The file is opened and emptied.
LEMMA Opened ==
  ASSUME TypeOK, image \in XexFile, NEW t, NEW c, At(t, c), image' = image, i' = i,
         return' = return, failed' = failed, disk' = [disk EXCEPT ![t] = Torn],
         out = Text(t, image), out' = out, pc' = "write", name' = t, cppFileIndex' = c
  PROVE  OutputInv'
<1>1. disk'[t] = Torn /\ \A n \in Names \ {t} : disk'[n] = disk[n]
  BY AtFacts DEF TypeOK
<1>2. CASE return = "headers"
  <2>1. i \in 1 .. 4 /\ t = HeaderName(i) /\ c = 0 /\ out = HeaderText(Headers[i], image)
    BY <1>2, HeaderTexts DEF At
  <2>2. HeadersDone(i - 1)'
    BY <1>1, <1>2, OthersKept DEF HeadersDone
  <2> QED
    BY <1>1, <1>2, <2>1, <2>2
    DEF OutputInv, LoadInv, HeadersInv, Functional, BeginInv, FileInv, SaveInv
<1>3. CASE return \in {"include", "exit"}
  <2>1. PICK m \in 0 .. Functions[image] : m = c - 1
    BY <1>3 DEF At
  <2>2. /\ c = m + 1 /\ t = Numbered(m) /\ m * PerFile < Functions[image]
        /\ return = "include" => i = (m + 1) * PerFile /\ i < Functions[image]
        /\ return = "exit" => Functions[image] <= (m + 1) * PerFile
    BY <1>3, <2>1 DEF At
  <2>3. out = Chunk(m, image)
    <3>1. m \in Nat
      BY <2>1
    <3> QED
      BY <2>2, <3>1, NumberFacts
  <2>4. ASSUME NEW n \in 0 .. m - 1 PROVE Current(Numbered(n))'
    <3>1. n \in 0 .. c - 2
      BY <2>1, <2>2
    <3> QED
      BY <1>1, <1>3, <3>1, OthersKept
  <2>5. Saved(m)'
    BY <2>4 DEF Saved
  <2>6. HeadersDone(4)'
    BY <1>1, <1>3, OthersKept DEF HeadersDone
  <2>7. FileInv'
    BY <1>3, <2>1, <2>2, <2>3, <2>5 DEF FileInv
  <2> QED
    BY <1>1, <1>3, <2>6, <2>7
    DEF OutputInv, LoadInv, HeadersInv, Functional, BeginInv, SaveInv
<1> QED
  BY <1>2, <1>3 DEF At

\* What SaveCurrentOutData saves under which name.
LEMMA SaveAt ==
  ASSUME TypeOK, OutputInv, Save
  PROVE  LET target == IF name[1] = "" THEN Numbered(cppFileIndex) ELSE name
         IN  At(target, cppFileIndex') /\ out = Text(target, image)
<1> DEFINE target == IF name[1] = "" THEN Numbered(cppFileIndex) ELSE name
<1>1. pc = "save" /\ out # <<>> /\ image \in XexFile
  BY TargetIsName DEF Save
<1>2. CASE name[1] # ""
  <2>1. return = "headers" /\ target = name /\ cppFileIndex' = cppFileIndex
    BY <1>1, <1>2, TargetIsName DEF Save
  <2>2. /\ i \in 1 .. 4 /\ name = HeaderName(i) /\ out = HeaderText(Headers[i], image)
        /\ cppFileIndex = 0 /\ HeadersDone(i - 1)
    BY <1>1, <2>1 DEF OutputInv, HeadersInv
  <2>3. out = Text(name, image)
    BY <1>1, <2>2, HeaderTexts
  <2> QED
    BY <2>1, <2>2, <2>3 DEF At
<1>3. CASE name[1] = ""
  <2>1. /\ return \in {"include", "exit"} /\ target = Numbered(cppFileIndex)
        /\ cppFileIndex * PerFile < i /\ i <= Functions[image]
        /\ i <= (cppFileIndex + 1) * PerFile /\ out = Part(cppFileIndex, i, image)
        /\ cppFileIndex' = cppFileIndex + 1
    BY <1>1, <1>3, TargetIsName DEF Save
  <2>2. PICK m \in Nat : m = cppFileIndex
    BY DEF TypeOK
  <2>3. PICK n \in Nat : n = i
    BY DEF TypeOK
  <2>4. HeadersDone(4) /\ Saved(m)
    BY <1>1, <2>1, <2>2 DEF OutputInv, Functional, BeginInv
  <2>5. /\ return = "include" => n < Functions[image] /\ n % PerFile = 0
        /\ return = "exit" => n = Functions[image]
    BY <1>1, <2>3 DEF OutputInv, BeginInv
  <2>6. m * PerFile < n /\ n <= Functions[image] /\ n <= (m + 1) * PerFile
    BY <2>1, <2>2, <2>3
  <2>7. return = "include" => n = (m + 1) * PerFile
    BY <2>2, <2>3, <2>5, <2>6, Full
  <2>8. Part(m, n, image) = Chunk(m, image)
    BY <1>1, <2>1, <2>5, <2>6, <2>7, PartIsChunk
  <2>9. out = Text(Numbered(m), image)
    BY <1>1, <2>1, <2>2, <2>3, <2>8, NumberFacts
  <2>10. Functions[image] \in Nat
    BY <1>1, FunctionCount
  <2>11. m * PerFile < Functions[image]
    BY <2>6, <2>10, Dist
  <2>12. m <= Functions[image]
    BY <2>10, <2>11, NotMore
  <2>13. /\ return = "include" => i = (m + 1) * PerFile /\ i < Functions[image]
         /\ return = "exit" => Functions[image] <= (m + 1) * PerFile
    BY <2>3, <2>5, <2>6, <2>7
  <2>14. (m + 1) - 1 = m /\ m + 1 \in Nat /\ m \in 0 .. Functions[image]
    BY <2>10, <2>12
  <2>15. At(Numbered(m), m + 1)
    BY <2>1, <2>4, <2>11, <2>13, <2>14 DEF At
  <2> QED
    BY <2>1, <2>2, <2>9, <2>15
<1> QED
  BY <1>2, <1>3

\* What is written under which name.
LEMMA WriteAt ==
  ASSUME TypeOK, OutputInv, pc = "write"
  PROVE  image \in XexFile /\ At(name, cppFileIndex) /\ out = Text(name, image)
<1>1. image \in XexFile /\ return \in {"headers", "include", "exit"}
  BY DEF TypeOK, OutputInv, SaveInv, Stopped
<1>2. CASE return = "headers"
  <2>1. /\ i \in 1 .. 4 /\ name = HeaderName(i) /\ out = HeaderText(Headers[i], image)
        /\ cppFileIndex = 0 /\ HeadersDone(i - 1)
    BY <1>2 DEF OutputInv, HeadersInv
  <2> QED
    BY <1>1, <1>2, <2>1, HeaderTexts DEF At
<1>3. CASE return \in {"include", "exit"}
  <2>1. PICK m \in 0 .. Functions[image] :
         /\ cppFileIndex = m + 1 /\ name = Numbered(m) /\ out = Chunk(m, image)
         /\ m * PerFile < Functions[image] /\ Saved(m)
         /\ return = "include" => i = (m + 1) * PerFile /\ i < Functions[image]
         /\ return = "exit" => Functions[image] <= (m + 1) * PerFile
    BY <1>3 DEF OutputInv, FileInv
  <2>2. HeadersDone(4)
    BY <1>3 DEF OutputInv, Functional
  <2>3. m \in Nat /\ (m + 1) - 1 = m /\ m + 1 \in Nat
    BY <2>1
  <2>4. out = Text(Numbered(m), image)
    BY <1>1, <2>1, <2>3, NumberFacts
  <2>5. At(Numbered(m), m + 1)
    BY <1>3, <2>1, <2>2, <2>3 DEF At
  <2> QED
    BY <1>1, <2>1, <2>4, <2>5
<1> QED
  BY <1>1, <1>2, <1>3

LEMMA OutputStep == TypeOK /\ TypeOK' /\ OutputInv /\ [Next]_vars => OutputInv'
<1> SUFFICES ASSUME TypeOK, TypeOK', OutputInv, [Next]_vars PROVE OutputInv'
  OBVIOUS
<1> DEFINE Loading == {"loadPatched", "loadFile", "apply", "openPatched", "writePatched", "parse"}
<1>1. CASE Start
  BY <1>1, Outside DEF Start, LoadInv, Printing
<1>2. CASE \/ LoadPatched \/ LoadExe \/ ApplyPatch \/ OpenPatched \/ CannotOpenPatched
           \/ WritePatched \/ WritePatchedFails
  <2>1. i' = i /\ out' = out /\ cppFileIndex' = cppFileIndex /\ pc \in Loading
    BY <1>2 DEF LoadPatched, LoadExe, ApplyPatch, OpenPatched, CannotOpenPatched,
                WritePatched, WritePatchedFails, saving
  <2>2. pc' \in Loading \cup {"refused"}
    BY <1>2 DEF LoadPatched, LoadExe, ApplyPatch, OpenPatched, CannotOpenPatched,
                WritePatched, WritePatchedFails
  <2>3. LoadInv'
    BY <2>1 DEF OutputInv, LoadInv
  <2> QED
    BY <2>2, <2>3, Outside DEF Printing
<1>3. CASE Parse
  <2>1. i' = 0 /\ out' = <<>> /\ cppFileIndex' = 0 /\ pc' = "headers"
    BY <1>3 DEF Parse, saving, OutputInv, LoadInv
  <2>2. HeadersDone(i)'
    BY <2>1 DEF HeadersDone
  <2>3. HeadersInv'
    BY <2>1, <2>2 DEF HeadersInv
  <2> QED
    BY <2>1, <2>3 DEF OutputInv, LoadInv, Functional, BeginInv, FileInv, SaveInv
<1>4. CASE PrintHeader
  <2>1. i \in 0 .. 4 /\ cppFileIndex = 0 /\ HeadersDone(i) /\ i < Len(Headers)
    BY <1>4 DEF PrintHeader, OutputInv, HeadersInv
  <2>2. i' = i + 1 /\ i' \in 1 .. 4 /\ i' - 1 = i
    <3>1. i < 4
      BY <2>1, HeaderFacts
    <3>2. i' = i + 1
      BY <1>4 DEF PrintHeader
    <3> QED
      BY <2>1, <3>1, <3>2
  <2>3. /\ pc' = "save" /\ return' = "headers" /\ cppFileIndex' = 0 /\ name' = HeaderName(i')
        /\ out' = HeaderText(Headers[i'], image')
    BY <1>4, <2>1, <2>2 DEF PrintHeader, HeaderName
  <2>4. \A h \in 1 .. i : Current(HeaderName(h))'
    BY <1>4, <2>1 DEF HeadersDone, Current, PrintHeader
  <2>5. HeadersDone(i - 1)'
    BY <2>2, <2>4 DEF HeadersDone
  <2> QED
    BY <2>2, <2>3, <2>5 DEF OutputInv, LoadInv, HeadersInv, Functional, BeginInv, FileInv, SaveInv
<1>5. ASSUME disk' = disk, image' = image, failed' = failed, HeadersDone(4), Saved(cppFileIndex)
      PROVE  HeadersDone(4)' /\ \A n \in 0 .. cppFileIndex - 1 : Current(Numbered(n))'
  BY <1>5 DEF HeadersDone, Saved, Current
<1>6. CASE EndHeaders
  <2>1. i = 4 /\ out = <<>> /\ cppFileIndex = 0 /\ HeadersDone(i)
    BY <1>6, HeaderFacts DEF EndHeaders, OutputInv, HeadersInv
  <2>2. i' = 0 /\ out' = <<>> /\ cppFileIndex' = 0 /\ pc' = "functions" /\ image' \in XexFile
    BY <1>6, <2>1 DEF EndHeaders, TypeOK, Stopped
  <2>3. HeadersDone(4)' /\ Saved(cppFileIndex)'
    BY <1>6, <2>1, <2>2 DEF EndHeaders, HeadersDone, Saved, Current
  <2>4. i' <= Functions[image']
    BY <2>2, FunctionCount
  <2>5. Begun(cppFileIndex, i)'
    BY <2>2 DEF Begun
  <2> QED
    BY <2>2, <2>3, <2>4, <2>5
    DEF OutputInv, LoadInv, HeadersInv, Functional, BeginInv, FileInv, SaveInv
<1>7. CASE BeginFile \/ EndFunctions
  <2>1. /\ pc = "functions" /\ pc' = "save" /\ return' \in {"include", "exit"}
        /\ name' = <<"", 0>>
        /\ return' = "include" => i < Functions[image] /\ i % PerFile = 0
        /\ return' = "exit" => i = Functions[image]
    BY <1>7 DEF BeginFile, EndFunctions
  <2>2. UNCHANGED <<disk, image, failed, i, out, cppFileIndex>>
    BY <1>7 DEF BeginFile, EndFunctions
  <2>3. Begun(cppFileIndex, i) /\ Saved(cppFileIndex) /\ HeadersDone(4)
    BY <2>1 DEF OutputInv, BeginInv, Functional
  <2>4. Begun(cppFileIndex, i)'
    BY <2>2, <2>3 DEF Begun
  <2>5. HeadersDone(4)' /\ Saved(cppFileIndex)'
    BY <1>5, <2>2, <2>3 DEF Saved
  <2> QED
    BY <2>1, <2>2, <2>4, <2>5
    DEF OutputInv, LoadInv, HeadersInv, Functional, BeginInv, FileInv, SaveInv
<1>8. CASE PrintInclude
  <2>1. /\ i = cppFileIndex * PerFile /\ i < Functions[image] /\ Saved(cppFileIndex)
        /\ out = <<>> /\ HeadersDone(4)
    BY <1>8 DEF PrintInclude, OutputInv, FileInv, Functional
  <2>2. /\ pc' = "recompile" /\ out' = <<>> \o Include
        /\ UNCHANGED <<disk, image, failed, i, cppFileIndex>>
    BY <1>8, <2>1 DEF PrintInclude
  <2>3. <<>> \o Include = Include
    BY ConcatEmptySeq DEF Include
  <2>4. HeadersDone(4)' /\ Saved(cppFileIndex)'
    BY <1>5, <2>1, <2>2 DEF Saved
  <2> QED
    BY <2>1, <2>2, <2>3, <2>4
    DEF OutputInv, LoadInv, HeadersInv, Functional, BeginInv, FileInv, SaveInv
<1>9. CASE RecompileFunction
  <2>1. /\ pc' = "functions" /\ i' = i + 1
        /\ out' = Append(out, [of |-> {image}, function |-> i + 1])
        /\ UNCHANGED <<disk, image, failed, cppFileIndex>>
    BY <1>9 DEF RecompileFunction
  <2>2. image \in XexFile
    BY <1>9 DEF RecompileFunction, TypeOK, Stopped
  <2>3. PICK c \in Nat : c = cppFileIndex
    BY DEF TypeOK
  <2>4. PICK n \in Nat : n = i
    BY DEF TypeOK
  <2>5. Functions[image] \in Nat
    BY <2>2, FunctionCount
  <2>6. /\ c * PerFile <= n /\ n < (c + 1) * PerFile /\ n < Functions[image]
        /\ out = Part(c, n, image) /\ Saved(c) /\ HeadersDone(4)
    <3>1. CASE pc = "recompile"
      <4>1. /\ n = c * PerFile /\ n < Functions[image] /\ Saved(c) /\ out = Include
            /\ HeadersDone(4)
        BY <2>3, <2>4, <3>1 DEF OutputInv, FileInv, Functional
      <4>2. c * PerFile <= n /\ n < (c + 1) * PerFile
        BY <4>1, Dist, RecompilationAssumption
      <4>3. Part(c, c * PerFile, image) = Include
        <5>1. c \in Int /\ c >= 0 /\ c * PerFile \in Int /\ c * PerFile <= c * PerFile
          BY Dist
        <5> QED
          BY <2>2, <5>1, PartFacts
      <4> QED
        BY <4>1, <4>2, <4>3
    <3>2. CASE pc = "functions" /\ i < Functions[image] /\ i % PerFile # 0
      <4>1. Begun(c, n) /\ Saved(c) /\ HeadersDone(4)
        BY <2>3, <2>4, <3>2 DEF OutputInv, BeginInv, Functional
      <4>2. n # 0
        <5>1. (0 * PerFile) % PerFile = 0 /\ 0 * PerFile = 0
          BY MultipleMod, RecompilationAssumption
        <5> QED
          BY <2>4, <3>2, <5>1
      <4>3. c * PerFile < n /\ n <= (c + 1) * PerFile /\ out = Part(c, n, image)
        BY <4>1, <4>2 DEF Begun
      <4>4. n # (c + 1) * PerFile
        BY <2>4, <3>2, <4>3, Full
      <4>5. c * PerFile <= n /\ n < (c + 1) * PerFile
        BY <4>3, <4>4, Dist
      <4> QED
        BY <2>4, <3>2, <4>1, <4>3, <4>5
    <3> QED
      BY <1>9, <3>1, <3>2 DEF RecompileFunction
  <2>7. Append(Part(c, n, image), [of |-> {image}, function |-> n + 1]) = Part(c, n + 1, image)
    BY <2>2, <2>6, PartFacts
  <2>8. c * PerFile < n + 1 /\ n + 1 <= (c + 1) * PerFile /\ n + 1 <= Functions[image]
    BY <2>5, <2>6, Dist
  <2>9. Begun(cppFileIndex, i)'
    BY <2>1, <2>3, <2>4, <2>6, <2>7, <2>8 DEF Begun
  <2>10. HeadersDone(4)' /\ Saved(cppFileIndex)'
    BY <1>5, <2>1, <2>3, <2>6 DEF Saved
  <2> QED
    BY <2>1, <2>4, <2>8, <2>9, <2>10
    DEF OutputInv, LoadInv, HeadersInv, Functional, BeginInv, FileInv, SaveInv
<1>10. CASE SaveNothing
  <2>1. pc = "save" /\ out = <<>> /\ pc' = return /\ return \in {"headers", "include", "exit"}
    BY <1>10 DEF SaveNothing, TypeOK, OutputInv, SaveInv
  <2>2. UNCHANGED <<disk, image, return, i, cppFileIndex, name, out, failed>>
    BY <1>10 DEF SaveNothing, saving
  <2>3. image \in XexFile
    BY <2>1 DEF TypeOK, Stopped
  <2>4. return # "headers"
    <3>1. ASSUME return = "headers" PROVE FALSE
      <4>1. i \in 1 .. 4 /\ out = HeaderText(Headers[i], image)
        BY <2>1, <3>1 DEF OutputInv, HeadersInv
      <4> QED
        BY <2>1, <2>3, <4>1, HeaderTexts
    <3> QED
      BY <3>1
  <2>5. /\ Begun(cppFileIndex, i) /\ Saved(cppFileIndex) /\ HeadersDone(4)
        /\ return = "include" => i < Functions[image]
        /\ return = "exit" => i = Functions[image]
    BY <2>1, <2>4 DEF OutputInv, BeginInv, Functional
  <2>6. i = 0 /\ cppFileIndex = 0
    <3>1. PICK c \in Nat, n \in Nat : c = cppFileIndex /\ n = i
      BY DEF TypeOK
    <3>2. c * PerFile < n => Part(c, n, image) # <<>>
      <4>1. c * PerFile < n => c * PerFile <= n
        BY Dist
      <4>2. c \in Int /\ n \in Int /\ c >= 0
        OBVIOUS
      <4> QED
        BY <2>3, <4>1, <4>2, PartFacts
    <3> QED
      BY <2>1, <2>5, <3>1, <3>2 DEF Begun
  <2>7. 0 * PerFile = 0
    BY RecompilationAssumption
  <2>8. HeadersDone(4)' /\ Saved(cppFileIndex)'
    BY <1>5, <2>2, <2>5 DEF Saved
  <2>9. /\ pc' = return /\ return \in {"include", "exit"} /\ out' = <<>>
        /\ i' = 0 /\ cppFileIndex' = 0 /\ image' = image
    BY <2>1, <2>2, <2>4, <2>6
  <2>10. /\ return = "include" => 0 < Functions[image]
         /\ return = "exit" => Functions[image] <= 0
    BY <2>3, <2>5, <2>6, FunctionCount
  <2>11. FileInv'
    BY <2>7, <2>8, <2>9, <2>10 DEF FileInv
  <2> QED
    BY <2>3, <2>8, <2>9, <2>11
    DEF OutputInv, LoadInv, HeadersInv, Functional, BeginInv, SaveInv
<1>11. CASE Save
  <2> DEFINE target == IF name[1] = "" THEN Numbered(cppFileIndex) ELSE name
  <2>1. PICK t : t = target
    OBVIOUS
  <2>2. PICK c : c = cppFileIndex'
    OBVIOUS
  <2>3. At(t, c) /\ out = Text(t, image)
    BY <1>11, <2>1, <2>2, SaveAt
  <2>4. image \in XexFile /\ UNCHANGED <<return, image, i, failed>>
    BY <1>11, TargetIsName DEF Save
  <2>5. CASE Identical(target)
    <3>1. out' = <<>> /\ pc' = return /\ disk' = disk
      BY <1>11, <2>5 DEF Save
    <3>2. Current(t)'
      BY <2>1, <2>3, <2>4, <2>5, <3>1 DEF Current, Identical
    <3> QED
      BY <2>2, <2>3, <2>4, <3>1, <3>2, Advance
  <2>6. CASE ~ Identical(target)
    <3>1. disk' = [disk EXCEPT ![t] = Torn] /\ name' = t /\ pc' = "write" /\ out' = out
      BY <1>11, <2>1, <2>6 DEF Save
    <3> QED
      BY <2>2, <2>3, <2>4, <3>1, Opened
  <2> QED
    BY <2>5, <2>6
<1>12. CASE Write \/ WriteFails
  <2>1. PICK t, c : t = name /\ c = cppFileIndex
    OBVIOUS
  <2>2. image \in XexFile /\ At(t, c) /\ out = Text(t, image)
    BY <1>12, <2>1, WriteAt DEF Write, WriteFails
  <2>3. /\ image' = image /\ i' = i /\ pc' = return /\ out' = <<>> /\ cppFileIndex' = c
        /\ failed \subseteq failed'
    BY <1>12, <2>1 DEF Write, WriteFails
  <2>4. Current(t)' /\ \A n \in Names \ {t} : disk'[n] = disk[n]
    <3>1. CASE Write
      <4>1. disk' = [disk EXCEPT ![t] = out] /\ t \in Names
        BY <2>1, <2>2, <3>1, AtFacts DEF Write
      <4> QED
        BY <2>2, <2>3, <4>1 DEF Current, TypeOK
    <3>2. CASE WriteFails
      BY <2>1, <3>2 DEF WriteFails, Current
    <3> QED
      BY <1>12, <3>1, <3>2
  <2> QED
    BY <2>2, <2>3, <2>4, Advance
<1>13. CASE Kill
  BY <1>13, Outside DEF Kill, LoadInv, Printing
<1>14. CASE Edit \/ UNCHANGED vars
  <2>1. UNCHANGED <<disk, pc, image, return, i, cppFileIndex, name, out, failed>>
    BY <1>14 DEF Edit, vars, saving
  <2>2. LoadInv' /\ HeadersInv' /\ (Functional => HeadersDone(4))'
    BY <2>1 DEF OutputInv, LoadInv, HeadersInv, Functional, HeadersDone, Current
  <2>3. BeginInv'
    BY <2>1 DEF OutputInv, BeginInv, Begun, Saved, Current
  <2>4. FileInv' /\ SaveInv'
    BY <2>1 DEF OutputInv, FileInv, SaveInv, Saved, Current
  <2> QED
    BY <2>2, <2>3, <2>4 DEF OutputInv
<1> QED
  BY <1>1, <1>2, <1>3, <1>4, <1>6, <1>7, <1>8, <1>9, <1>10, <1>11, <1>12, <1>13, <1>14
  DEF Next, Run

-----------------------------------------------------------------------------
(* Theorems.                                                               *)

\* The three parts are inductive together: names and counters are in range
\* because of how far the run has come.
LEMMA Inductive == Spec => []IInv
<1>1. Init => IInv
  BY TypeInit, ImageInit, OutputInit DEF IInv
<1>2. IInv /\ [Next]_vars => IInv'
  BY TypeStep, ImageStep, OutputStep DEF IInv
<1> QED
  BY <1>1, <1>2, PTL DEF Spec

\* Every state has the types that TypeOK gives, and a run that prints prints
\* the file that it has parsed.
THEOREM TypeCorrect == Spec => []TypeOK
<1>1. IInv => TypeOK
  BY DEF IInv
<1> QED
  BY <1>1, Inductive, PTL

\* Whatever the user changes between runs and wherever runs are killed: with
\* an XEXP file in the configuration, nothing is printed from an executable
\* without a title update.
THEOREM PatchAlwaysApplied == Spec => []PatchIsApplied
<1>1. IInv => PatchIsApplied
  <2> SUFFICES ASSUME IInv, pc \in Printing, config.patch PROVE image.patch # 0
    BY DEF PatchIsApplied, Printing
  <2>1. image = file
    BY DEF IInv, TypeOK, Printing
  <2> QED
    BY <2>1 DEF IInv, ImageInv
<1> QED
  BY <1>1, Inductive, PTL

\* The run that has ended has saved the whole text of every output file, each
\* function in one of them, for every number of functions and size of file.
THEOREM OutputsCurrent == Spec => []OutputsAreCurrent
<1>1. IInv => OutputsAreCurrent
  <2> SUFFICES ASSUME IInv, pc = "exit", NEW n \in Outputs(image) PROVE Current(n)
    BY DEF OutputsAreCurrent, Current
  <2>1. /\ image \in XexFile /\ HeadersDone(4) /\ Saved(cppFileIndex)
        /\ Functions[image] <= cppFileIndex * PerFile
    BY DEF IInv, OutputInv, Functional, FileInv, SaveInv
  <2>2. cppFileIndex \in Nat /\ Functions[image] \in Nat
    BY <2>1, FunctionCount DEF IInv, TypeOK
  <2>3. CASE n \in {<<Headers[h], 0>> : h \in 1 .. Len(Headers)}
    <3>1. PICK h \in 1 .. 4 : n = HeaderName(h)
      BY <2>3, HeaderFacts DEF HeaderName
    <3> QED
      BY <2>1, <3>1 DEF HeadersDone
  <2>4. CASE n \in {Numbered(m) : m \in {m \in 0 .. Functions[image] : m * PerFile < Functions[image]}}
    <3>1. PICK m \in Nat : m * PerFile < Functions[image] /\ n = Numbered(m)
      BY <2>2, <2>4
    <3>2. m * PerFile < cppFileIndex * PerFile
      BY <2>1, <2>2, <3>1, Dist
    <3>3. m < cppFileIndex
      BY <2>2, <3>2, Less
    <3>4. m \in 0 .. cppFileIndex - 1
      BY <2>2, <3>3
    <3> QED
      BY <2>1, <3>1, <3>4 DEF Saved
  <2> QED
    BY <2>3, <2>4 DEF Outputs
<1> QED
  BY <1>1, Inductive, PTL

LEMMA OutputsAreNames == \A f \in XexFile : Outputs(f) \subseteq Names
BY DEF Outputs, Names

\* No step of a run writes to an output file that says what the image says.
THEOREM IdenticalFilesUntouched == Spec => IdenticalUntouched
<1> DEFINE Touched == image # Nothing =>
      \A n \in Outputs(image) : disk'[n] # disk[n] => disk[n] # Text(n, image)
<1>1. IInv /\ [Next]_vars => Touched
  <2> SUFFICES ASSUME IInv, [Next]_vars, image # Nothing, NEW n \in Outputs(image),
                      disk'[n] # disk[n]
               PROVE  disk[n] # Text(n, image)
    OBVIOUS
  <2>1. n \in Names
    BY OutputsAreNames DEF IInv, TypeOK
  <2>2. disk' # disk
    OBVIOUS
  <2>3. CASE Save
    <3> DEFINE target == IF name[1] = "" THEN Numbered(cppFileIndex) ELSE name
    <3>1. out = Text(target, image)
      BY <2>3, SaveAt DEF IInv
    <3>2. disk' = [disk EXCEPT ![target] = Torn] /\ disk[target] # out
      BY <2>2, <2>3 DEF Save, Identical
    <3>3. n = target
      BY <2>1, <3>2 DEF IInv, TypeOK
    <3> QED
      BY <3>1, <3>2, <3>3
  <2>4. CASE Write \/ Kill
    <3>1. pc = "write" /\ disk' = [disk EXCEPT ![name] = out]
      BY <2>2, <2>4 DEF Write, Kill
    <3>2. n = name
      BY <2>1, <3>1 DEF IInv, TypeOK
    <3>3. disk[name] = Torn
      BY <3>1 DEF IInv, OutputInv, SaveInv
    <3>4. image \in XexFile /\ At(name, cppFileIndex)
      BY <3>1, WriteAt DEF IInv
    <3>5. Text(name, image) # <<>>
      BY <3>4, AtFacts DEF IInv
    <3> QED
      BY <3>2, <3>3, <3>5 DEF Torn
  <2>5. ASSUME ~ Save, ~ Write, ~ Kill PROVE disk' = disk
    BY <2>5 DEF Next, Run, Start, LoadPatched, LoadExe, ApplyPatch, OpenPatched,
       CannotOpenPatched, WritePatched, WritePatchedFails, Parse, PrintHeader, EndHeaders,
       BeginFile, PrintInclude, RecompileFunction, EndFunctions, SaveNothing, WriteFails,
       Edit, vars
  <2> QED
    BY <2>2, <2>3, <2>4, <2>5
<1>2. IInv /\ [Next]_vars => [Touched]_vars
  BY <1>1
<1> QED
  BY <1>2, Inductive, PTL DEF Spec, IdenticalUntouched
=============================================================================
