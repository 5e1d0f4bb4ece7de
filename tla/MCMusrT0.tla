------------------------------ MODULE MCMusrT0 ------------------------------
(***************************************************************************)
(* musrt0 before, between or after fits of runs with addruns and groups.   *)
(* The user of a setup sets either t0's or ranges.                         *)
(***************************************************************************)
EXTENDS MusrT0

Setup(single, detectors, addRuns, isis, keys) ==
  [single |-> single, detectors |-> detectors, addRuns |-> addRuns,
   header |-> [r \in 0..addRuns |-> [d \in 1..detectors |-> IF d = 2 THEN 0 ELSE 19 + r + d]],
   peak |-> [r \in 0..addRuns |-> [d \in 1..detectors |-> 17 + 2*r + 3*d]],
   packing |-> 1, isis |-> isis, bkgKnown |-> FALSE, period |-> 0, keys |-> keys]

T0Keys == {"t", "T"}
DataKeys == {"d", "D"}
BkgKeys == {"b", "B"}

MCSetups ==
  {Setup(TRUE, 1, 0, FALSE, {"T", "d", "D"}), Setup(TRUE, 1, 0, FALSE, {"t", "b", "B"}),
   Setup(FALSE, 2, 0, FALSE, DataKeys), Setup(FALSE, 2, 0, FALSE, BkgKeys),
   Setup(TRUE, 2, 0, TRUE, {"T", "d"}), Setup(TRUE, 2, 1, FALSE, {"T"}), Setup(FALSE, 4, 0, FALSE, {"T"}),
   Setup(FALSE, 2, 1, FALSE, {"T"}), Setup(TRUE, 1, 2, FALSE, {"t"})}

MCKeys == [s \in Setups |-> s.keys]

T0s(s) == [d \in 1..s.detectors |-> 18 + d]
AddT0s(s) == FlattenSeq([k \in 1..s.addRuns |-> <<Line("addt0", [d \in 1..s.detectors |-> 20 + 2*k - d])>>])
Data(s) == Line("data", IF s.single THEN <<23, 35>> ELSE <<23, 35, 24, 36>>)
Fit_ == Line("fit", <<2, 9>>)

(* The lines that matter for the t0's, or for the ranges.                  *)
MCUserFiles ==
  [s \in Setups |->
    IF s.keys \subseteq T0Keys
    THEN [run : {<<Fit_>>, <<Line("t0", T0s(s))>> \o AddT0s(s) \o <<Fit_>>, <<Fit_>> \o AddT0s(s),
                 <<>>, <<Line("t0", <<19>>), Fit_>>},
          global : {<<Line("fit", <<1, 8>>)>>, <<Line("t0", T0s(s)), Line("fit", <<1, 8>>)>>}]
    ELSE [run : {<<Fit_>>, <<Line("t0", T0s(s)), Data(s), Fit_>>},
          global : {<<Line("fit", <<1, 8>>)>>}]]

MCCursor == {12, 30}
MCOffsets == {None}
=============================================================================
