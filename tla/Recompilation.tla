--------------------------- MODULE Recompilation ---------------------------
(***************************************************************************)
(* XenonRecomp as a process that is run again and again over one           *)
(* directory: it loads the executable, applies the title update or reuses  *)
(* the patched file of an earlier run, and saves its output files.         *)
(* Between runs the user replaces inputs; a run may be killed at any step  *)
(* and a write may fail, and the next run finds what is left.              *)
(***************************************************************************)
EXTENDS Integers, Sequences, FiniteSets

CONSTANTS
  Exes,      \* versions of the executable
  Patches,   \* versions of the XEXP file, positive numbers
  Applies,   \* the pairs that XexPatcher::apply accepts
  Nothing,   \* a file that is missing or empty: LoadFile answers an empty vector
  Functions, \* how many functions Analyse finds in an XEX file
  PerFile,   \* functions in one output file (256)
  Faults,    \* bound on kills and on failed writes
  Edits      \* bound on the user's changes

\* The bytes of an XEX file.  patch is 0 without a title update; whole is
\* FALSE if the file breaks off somewhere.
XexFile == [exe : Exes, patch : Patches \cup {0}, whole : BOOLEAN]

ASSUME RecompilationAssumption ==
  /\ Patches \subseteq Nat \ {0}
  /\ Applies \subseteq Exes \X Patches
  /\ Nothing \notin XexFile
  /\ Functions \in [XexFile -> Nat]
  /\ PerFile \in Nat \ {0}
  /\ Faults \in Nat
  /\ Edits \in Nat

\* The header files that are saved, in this order.
Headers ==
  <<"ppc_config.h", "ppc_context.h", "ppc_recomp_shared.h", "ppc_func_mapping.cpp">>

\* A piece of text: what it is printed from, and the function it is (0: a
\* header's text or an #include).
Piece == [of : SUBSET XexFile, function : Nat]

\* An output file that is missing or incomplete.  (No empty text is saved.)
Torn == <<>>

\* The names of output files; ppc_recomp.n.cpp for as many n as there may be
\* functions.
Numbered(n) == <<"ppc_recomp", n>>

Names == {<<Headers[h], 0>> : h \in 1 .. Len(Headers)}
           \cup {Numbered(n) : n \in UNION {0 .. Functions[f] : f \in XexFile}}

VARIABLES
  \* The directory and the TOML file.
  exe, patch,   \* version of the executable; of the XEXP file
  config,       \* patch: patch_file_path is set; patched: patched_file_path is
  patched,      \* the file at patched_file_path
  disk,         \* the output files, by name
  \* The process.
  pc,
  return,       \* where SaveCurrentOutData returns to
  file,         \* the vector of LoadConfig
  image,        \* what it was parsed from
  i,            \* headers saved, or functions recompiled
  cppFileIndex,
  name,         \* argument of SaveCurrentOutData
  out,          \* the text that is not saved yet
  failed,       \* files that this run failed to write
  \* Bounds.
  faults, edits

input == <<exe, patch, config>>
saving == <<return, i, cppFileIndex, name, out, failed>>
bounds == <<faults, edits>>
vars == <<input, patched, disk, pc, file, image, saving, bounds>>

Stopped == {"idle", "refused", "exit"}

-----------------------------------------------------------------------------
(* LoadConfig.                                                             *)

Start ==
  /\ pc \in Stopped
  /\ pc' = "loadPatched"
  /\ return' = "idle"
  /\ file' = Nothing
  /\ image' = Nothing
  /\ i' = 0
  /\ cppFileIndex' = 0
  /\ name' = <<"", 0>>
  /\ out' = <<>>
  /\ failed' = {}
  /\ UNCHANGED <<input, patched, disk, bounds>>

LoadPatched ==
  /\ pc = "loadPatched"
  /\ file' = IF config.patched THEN patched ELSE Nothing
  /\ pc' = IF file' = Nothing THEN "loadFile" ELSE "parse"
  /\ UNCHANGED <<input, patched, disk, image, saving, bounds>>

LoadExe ==
  /\ pc = "loadFile"
  /\ file' = [exe |-> exe, patch |-> 0, whole |-> TRUE]
  /\ pc' = IF config.patch THEN "apply" ELSE "parse"
  /\ UNCHANGED <<input, patched, disk, image, saving, bounds>>

\* A faulty variant that goes on with the unpatched file.
ApplyOrIgnore ==
  /\ pc = "apply"
  /\ IF <<file.exe, patch>> \in Applies
     THEN /\ file' = [file EXCEPT !.patch = patch]
          /\ pc' = IF config.patched THEN "openPatched" ELSE "parse"
     ELSE pc' = "parse" /\ UNCHANGED file
  /\ UNCHANGED <<input, patched, disk, image, saving, bounds>>

\* An XEXP file that cannot be loaded or applied ends the run.
ApplyPatch ==
  /\ pc = "apply"
  /\ IF <<file.exe, patch>> \in Applies
     THEN /\ file' = [file EXCEPT !.patch = patch]
          /\ pc' = IF config.patched THEN "openPatched" ELSE "parse"
     ELSE pc' = "refused" /\ UNCHANGED file
  /\ UNCHANGED <<input, patched, disk, image, saving, bounds>>

\* The stream truncates the file when it opens it.
OpenPatched ==
  /\ pc = "openPatched"
  /\ patched' = Nothing
  /\ pc' = "writePatched"
  /\ UNCHANGED <<input, disk, file, image, saving, bounds>>

CannotOpenPatched ==
  /\ pc = "openPatched"
  /\ faults < Faults
  /\ faults' = faults + 1
  /\ pc' = "parse"
  /\ UNCHANGED <<input, patched, disk, file, image, saving, edits>>

\* What a write that is cut short leaves of the patched file.
Remains == {Nothing, [file EXCEPT !.whole = FALSE]}

WritePatched ==
  /\ pc = "writePatched"
  /\ patched' = file
  /\ pc' = "parse"
  /\ UNCHANGED <<input, disk, file, image, saving, bounds>>

\* Nobody looks at the stream after the write.
WritePatchedFails ==
  /\ pc = "writePatched"
  /\ faults < Faults
  /\ faults' = faults + 1
  /\ patched' \in Remains
  /\ pc' = "parse"
  /\ UNCHANGED <<input, disk, file, image, saving, edits>>

\* ParseImage and Analyse.
Parse ==
  /\ pc = "parse"
  /\ image' = file
  /\ pc' = "headers"
  /\ UNCHANGED <<input, patched, disk, file, saving, bounds>>

-----------------------------------------------------------------------------
(* Recompile.                                                              *)

\* ppc_context.h is a copy of the header file, the others tell of the image.
HeaderText(header, from) ==
  <<[of |-> IF header = "ppc_context.h" THEN {} ELSE {from}, function |-> 0]>>

Include == <<[of |-> {}, function |-> 0]>>

PrintHeader ==
  /\ pc = "headers"
  /\ i < Len(Headers)
  /\ out' = HeaderText(Headers[i + 1], image)
  /\ name' = <<Headers[i + 1], 0>>
  /\ i' = i + 1
  /\ pc' = "save"
  /\ return' = "headers"
  /\ UNCHANGED <<input, patched, disk, file, image, cppFileIndex, failed, bounds>>

EndHeaders ==
  /\ pc = "headers"
  /\ i = Len(Headers)
  /\ i' = 0
  /\ pc' = "functions"
  /\ UNCHANGED <<input, patched, disk, return, file, image, cppFileIndex, name, out, failed, bounds>>

\* The last file is full: save it, and begin the next one.
BeginFile ==
  /\ pc = "functions"
  /\ i < Functions[image]
  /\ i % PerFile = 0
  /\ name' = <<"", 0>>
  /\ pc' = "save"
  /\ return' = "include"
  /\ UNCHANGED <<input, patched, disk, file, image, i, cppFileIndex, out, failed, bounds>>

PrintInclude ==
  /\ pc = "include"
  /\ out' = out \o Include
  /\ pc' = "recompile"
  /\ UNCHANGED <<input, patched, disk, return, file, image, i, cppFileIndex, name, failed, bounds>>

RecompileFunction ==
  /\ \/ pc = "recompile"
     \/ pc = "functions" /\ i < Functions[image] /\ i % PerFile # 0
  /\ out' = Append(out, [of |-> {image}, function |-> i + 1])
  /\ i' = i + 1
  /\ pc' = "functions"
  /\ UNCHANGED <<input, patched, disk, return, file, image, cppFileIndex, name, failed, bounds>>

\* A faulty variant that forgets to save the last file.
EndWithoutSave ==
  /\ pc = "functions"
  /\ i = Functions[image]
  /\ name' = <<"", 0>>
  /\ pc' = "exit"
  /\ return' = "exit"
  /\ UNCHANGED <<input, patched, disk, file, image, i, cppFileIndex, out, failed, bounds>>

EndFunctions ==
  /\ pc = "functions"
  /\ i = Functions[image]
  /\ name' = <<"", 0>>
  /\ pc' = "save"
  /\ return' = "exit"
  /\ UNCHANGED <<input, patched, disk, file, image, i, cppFileIndex, out, failed, bounds>>

-----------------------------------------------------------------------------
(* SaveCurrentOutData.                                                     *)

\* A faulty comparison, of sizes only.
SameSize(target) == Len(disk[target]) = Len(out)

\* A faulty variant that does not compare.
NeverIdentical(target) == FALSE

\* The file has the text's size and hash.
Identical(target) == disk[target] = out

SaveNothing ==
  /\ pc = "save"
  /\ out = <<>>
  /\ pc' = return
  /\ UNCHANGED <<input, patched, disk, file, image, saving, bounds>>

\* A file without a name gets the next number.  name is the file's name from
\* here on.
Save ==
  /\ pc = "save"
  /\ out # <<>>
  /\ LET target == IF name[1] = "" THEN Numbered(cppFileIndex) ELSE name IN
     /\ cppFileIndex' = IF name[1] = "" THEN cppFileIndex + 1 ELSE cppFileIndex
     /\ IF Identical(target)
        THEN /\ out' = <<>>
             /\ pc' = return
             /\ UNCHANGED <<name, disk>>
        ELSE /\ disk' = [disk EXCEPT ![target] = Torn]
             /\ name' = target
             /\ pc' = "write"
             /\ UNCHANGED out
  /\ UNCHANGED <<input, patched, return, file, image, i, failed, bounds>>

Write ==
  /\ pc = "write"
  /\ disk' = [disk EXCEPT ![name] = out]
  /\ out' = <<>>
  /\ pc' = return
  /\ UNCHANGED <<input, patched, return, file, image, i, cppFileIndex, name, failed, bounds>>

WriteFails ==
  /\ pc = "write"
  /\ faults < Faults
  /\ faults' = faults + 1
  /\ failed' = failed \cup {name}
  /\ out' = <<>>
  /\ pc' = return
  /\ UNCHANGED <<input, patched, disk, return, file, image, i, cppFileIndex, name, edits>>

-----------------------------------------------------------------------------
(* What happens to a run from outside, and between runs.                   *)

\* The process is killed.  Part of a write or all of it may have reached the
\* disk.
Kill ==
  /\ pc \notin Stopped
  /\ faults < Faults
  /\ faults' = faults + 1
  /\ pc' = "idle"
  /\ IF pc = "writePatched" THEN patched' \in Remains \cup {file} ELSE UNCHANGED patched
  /\ IF pc = "write"
     THEN disk' \in {disk, [disk EXCEPT ![name] = out]}
     ELSE UNCHANGED disk
  /\ UNCHANGED <<input, file, image, saving, edits>>

\* The user replaces a file, deletes the patched one, or edits the paths.
Edit ==
  /\ pc \in Stopped
  /\ edits < Edits
  /\ edits' = edits + 1
  /\ \/ exe' \in Exes /\ UNCHANGED <<patch, config, patched>>
     \/ patch' \in Patches \cup {0} /\ UNCHANGED <<exe, config, patched>>
     \/ config' \in [patch : BOOLEAN, patched : BOOLEAN] /\ UNCHANGED <<exe, patch, patched>>
     \/ patched' = Nothing /\ UNCHANGED input
  /\ UNCHANGED <<disk, pc, file, image, saving, faults>>

Init ==
  /\ exe \in Exes
  /\ patch \in Patches \cup {0}
  /\ config \in [patch : BOOLEAN, patched : BOOLEAN]
  /\ patched = Nothing
  /\ disk = [n \in Names |-> Torn]
  /\ pc = "idle"
  /\ return = "idle"
  /\ file = Nothing
  /\ image = Nothing
  /\ i = 0
  /\ cppFileIndex = 0
  /\ name = <<"", 0>>
  /\ out = <<>>
  /\ failed = {}
  /\ faults = 0
  /\ edits = 0

\* The steps of the process.
Run ==
  \/ LoadPatched
  \/ LoadExe
  \/ ApplyPatch
  \/ OpenPatched
  \/ CannotOpenPatched
  \/ WritePatched
  \/ WritePatchedFails
  \/ Parse
  \/ PrintHeader
  \/ EndHeaders
  \/ BeginFile
  \/ PrintInclude
  \/ RecompileFunction
  \/ EndFunctions
  \/ SaveNothing
  \/ Save
  \/ Write
  \/ WriteFails

Next == Start \/ Run \/ Kill \/ Edit

Spec == Init /\ [][Next]_vars

\* The process is scheduled, and the user runs it again.
FairSpec == Spec /\ WF_vars(Run) /\ WF_vars(Start)

-----------------------------------------------------------------------------
(* Properties.                                                             *)

\* The type of every variable, the ranges of the two counters, and what a run
\* has loaded and parsed by then.
TypeOK ==
  /\ exe \in Exes /\ patch \in Patches \cup {0}
  /\ config \in [patch : BOOLEAN, patched : BOOLEAN]
  /\ patched \in XexFile \cup {Nothing}
  /\ disk \in [Names -> Seq(Piece)]
  /\ pc \in Stopped \cup {"loadPatched", "loadFile", "apply", "openPatched", "writePatched",
                          "parse", "headers", "functions", "include", "recompile", "save",
                          "write"}
  /\ return \in {"idle", "headers", "include", "exit"}
  /\ file \in XexFile \cup {Nothing}
  /\ image \in XexFile \cup {Nothing}
  /\ i \in Nat
  /\ pc \notin Stopped \cup {"loadPatched", "loadFile"} => file # Nothing
  /\ pc \in {"headers", "functions", "include", "recompile", "save", "write"} => image = file
  /\ cppFileIndex \in Nat
  /\ name \in Names \cup {<<"", 0>>}
  /\ out \in Seq(Piece)
  /\ failed \subseteq Names
  /\ faults \in 0 .. Faults
  /\ edits \in 0 .. Edits

Least(a, b) == IF a < b THEN a ELSE b

\* The functions of the output file n of an XEX file, after the #include.
Chunk(n, from) ==
  Include \o [k \in 1 .. Least(PerFile, Functions[from] - n * PerFile) |->
                [of |-> {from}, function |-> n * PerFile + k]]

\* What the output files of an XEX file are, and what they say.
Outputs(from) ==
  {<<Headers[h], 0>> : h \in 1 .. Len(Headers)}
    \cup {Numbered(n) : n \in {m \in 0 .. Functions[from] : m * PerFile < Functions[from]}}

Text(n, from) ==
  IF n[1] = "ppc_recomp" THEN Chunk(n[2], from) ELSE HeaderText(n[1], from)

\* When a run has ended, each output file says what the image says, each
\* function once, whatever earlier runs left behind; unless this run failed
\* to write it.
OutputsAreCurrent ==
  pc = "exit" => \A n \in Outputs(image) : n \in failed \/ disk[n] = Text(n, image)

\* "Check if an identical file already exists first to not trigger
\* recompilation" (recompiler.cpp:3789): a file that says what it should is
\* not opened for writing.
IdenticalUntouched ==
  [][image # Nothing =>
       \A n \in Outputs(image) : disk'[n] # disk[n] => disk[n] # Text(n, image)]_vars

\* With an XEXP file in the configuration, an executable that is not patched
\* is never recompiled, also not when the patch is missing or refused.
PatchIsApplied ==
  pc \in {"headers", "functions", "include", "recompile", "save", "write"} /\ config.patch =>
    image.patch # 0

\* What the output files should say: the executable, with the title update if
\* there is one in the configuration.  If that does not fit, the run is refused.
Wanted == [exe |-> exe, patch |-> IF config.patch THEN patch ELSE 0, whole |-> TRUE]

Refused == config.patch /\ <<exe, patch>> \notin Applies

\* There is a patched file, it is reused, and it is not what is wanted.
Misleading == config.patched /\ patched \notin {Nothing, Wanted}

\* If the recompiler is run again and again, the output directory comes to say
\* what the executable and its title update say and stays so, whatever else was
\* killed or failed in between; unless the title update is refused, or the
\* patched file misleads.  The latter has two causes only: that file's own write
\* was cut short, or the user changed what it was made from.
OutputsBecomeCurrent ==
  /\ <>[](Refused \/ Misleading \/ \A n \in Outputs(Wanted) : disk[n] = Text(n, Wanted))
  /\ [][~Misleading /\ Misleading' =>
           (pc = "writePatched" /\ faults' > faults) \/ edits' > edits]_vars

\* "XenonRecomp will create this file automatically if it is missing and
\* reuse it in subsequent recompilations" (README.md:221): what is reused has
\* been created.
ImageIsWhole == pc = "headers" => image.whole
=============================================================================
