---------------------------- MODULE MCTheoryCache ----------------------------
(***************************************************************************)
(* Instances of TheoryCache for TLC: the warm-up is at 1 us, a shift of 2  *)
(* us is behind it.                                                        *)
(***************************************************************************)
EXTENDS TheoryCache, TLC

CONSTANTS T1, T2, Zero, Closed, P, Q

MCTime == <<0, 1, 2, 3>>
MCForm == Zero :> "zero" @@ Closed :> "closed" @@ P :> "integral" @@ Q :> "integral"

AllTheories == [kind : Kinds, shift : {0, 2}]
=============================================================================
