------------------------------ MODULE FitFiles ------------------------------
(***************************************************************************)
(* What musrfit promises about the files of a fit (musrfit.cpp, the help   *)
(* text): at the end of a fit the msr-file holds its results, and the      *)
(* mlog-file what the msr-file held before.  Both happen at once.          *)
(***************************************************************************)
CONSTANTS
  Files,   \* the fits, each with its msr- and its mlog-file
  Text     \* what a file may hold

VARIABLES
  msr,     \* the content of the msr-files
  mlog     \* the content of the mlog-files

Promised == <<msr, mlog>>

Finish(f) ==
  /\ msr[f] \in Text
  /\ msr'[f] \in Text \ {msr[f]} /\ msr' = [msr EXCEPT ![f] = msr'[f]]
  /\ mlog' = [mlog EXCEPT ![f] = msr[f]]

Init == DOMAIN msr = Files /\ DOMAIN mlog = Files

Next == \E f \in Files : Finish(f)

Spec == Init /\ [][Next]_Promised
=============================================================================
