------------------------------ MODULE ChiSquare ------------------------------
(***************************************************************************)
(* What the CalcChiSquare of a run is to give Minuit2: in every bin of the *)
(* fit range the theory for the parameters it is called with.  Nothing is  *)
(* promised of a theory whose calculation is not safe with the threads     *)
(* there are.                                                              *)
(***************************************************************************)
CONSTANTS
  Bins,            \* the bins of the fit range
  Params,          \* the parameter sets Minuit2 calls it with
  Value(_, _, _)   \* what a theory gives in a bin for a parameter set

VARIABLES
  theory,          \* the theory of the run
  safe,            \* its calculation is thread-safe
  busy,            \* a call is under way
  par,             \* its parameters
  chisq            \* what the last call that has returned summed up

Promised == <<theory, safe, busy, par, chisq>>

Init == ~busy

Call == ~busy /\ busy' /\ par' \in Params /\ UNCHANGED <<theory, safe, chisq>>

Return ==
  /\ busy /\ ~busy'
  /\ safe => chisq' = [i \in Bins |-> Value(theory, i, par)]
  /\ UNCHANGED <<theory, safe, par>>

Next == Call \/ Return

Spec == Init /\ [][Next]_Promised
=============================================================================
