------------------------------ MODULE XexLoading ------------------------------
(***************************************************************************)
(* Recompiler::LoadConfig with XexPatcher and Xex2LoadImage: the file, or   *)
(* what a title update makes of it, is loaded. A file that cannot be        *)
(* patched ends the run. Files that cannot be read and the patched file of  *)
(* an earlier run are in Recompilation.                                     *)
(***************************************************************************)
EXTENDS XexPatcher, XexImage

loadingVars == <<vars, lvars>>

LoadInit ==
    /\ Init
    /\ lstage = "idle" /\ file = << >> /\ image = << >>
    /\ sections = {} /\ symbols = {} /\ left = <<>>

Patch == /\ input.usePatch
         /\ Next
         /\ UNCHANGED lvars

ParseImage ==
    /\ lstage = "idle"
    /\ \/ ~input.usePatch /\ file' = base
       \/ input.usePatch /\ result = "Success" /\ file' = out
    /\ lstage' = "decode"
    /\ UNCHANGED <<vars, image, sections, symbols, left>>

Load == LNext /\ UNCHANGED vars

LoadNext == Patch \/ ParseImage \/ Load

LoadSpec == LoadInit /\ [][LoadNext]_loadingVars /\ WF_loadingVars(LoadNext)

=============================================================================
