-------------------------- MODULE MCRecompilation --------------------------
(***************************************************************************)
(* Instances of Recompilation: two versions of the executable, one patch   *)
(* that applies to one of them, and images with few functions.             *)
(***************************************************************************)
EXTENDS Recompilation

MCApplies == {<<1, 1>>}

\* A whole number of output files, one begun, and none; a broken file holds
\* fewer functions.
MCFunctions ==
  [f \in XexFile |-> IF ~f.whole THEN 1 ELSE IF f.patch # 0 THEN 3 ELSE IF f.exe = 1 THEN 4 ELSE 0]
=============================================================================
