------------------------------ MODULE MCFitter ------------------------------
(***************************************************************************)
(* Instance of Fitter for TLC: the COMMANDS blocks which show that a       *)
(* FIT_RANGE in bins is not followed.                                      *)
(***************************************************************************)
EXTENDS Fitter

CONSTANTS R1, RO, RS, RG   \* fit ranges

MCRanges == {R1}

Cmd0(c) == [cmd |-> c, pars |-> <<>>, range |-> RO, bins |-> FALSE,
            ok |-> TRUE, comment |-> FALSE]

BinRangeLines ==
  {Cmd0("MINIMIZE"), Cmd0("SAVE"), [Cmd0("FIT_RANGE") EXCEPT !.range = R1, !.bins = TRUE]}
=============================================================================
