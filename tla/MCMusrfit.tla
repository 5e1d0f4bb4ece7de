------------------------------ MODULE MCMusrfit ------------------------------
(***************************************************************************)
(* Instances of Musrfit for TLC.                                           *)
(***************************************************************************)
EXTENDS Musrfit, TLC

CONSTANTS P1, P2, F1, F2, D1, D2

ApartFiles == P1 :> F1 @@ P2 :> F2
ApartDirs == P1 :> D1 @@ P2 :> D2

(* A file that cannot be written, beside those of the swap.                 *)
KeptUnwritable == {<<"kept", F2>>}
=============================================================================
