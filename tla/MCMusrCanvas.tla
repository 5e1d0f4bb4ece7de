---------------------------- MODULE MCMusrCanvas ----------------------------
(***************************************************************************)
(* Instances of MusrCanvas for TLC: users with all the keys, with keys and *)
(* menu, and such who press d and f only, in one window or in two.         *)
(***************************************************************************)
EXTENDS MusrCanvas

MCSetups ==
  {[tag |-> "REAL", sets |-> 2, phase |-> TRUE, startFourier |-> FALSE, startAvg |-> FALSE],
   [tag |-> "PWR", sets |-> 1, phase |-> FALSE, startFourier |-> TRUE, startAvg |-> FALSE],
   [tag |-> "PWR", sets |-> 2, phase |-> TRUE, startFourier |-> TRUE, startAvg |-> TRUE],
   [tag |-> "PHASE_OPT_REAL", sets |-> 2, phase |-> FALSE, startFourier |-> FALSE, startAvg |-> FALSE],
   [tag |-> "REAL", sets |-> 0, phase |-> FALSE, startFourier |-> FALSE, startAvg |-> FALSE]}

Plain == [canvases |-> {0}, keys |-> {"d", "f"}, entries |-> {}]
MCUsers ==
  {Plain,
   [canvases |-> {0}, keys |-> {"d", "f", "u", "a"}, entries |-> {}],
   [canvases |-> {0}, keys |-> {"d", "f", "+", "-", "other", "q"}, entries |-> {}],
   [canvases |-> {0}, keys |-> {"f", "a"},
    entries |-> {"DATA", "PHASE_OPT_REAL", "DIFFERENCE", "EXPORT", "other"}],
   [canvases |-> {0}, keys |-> {},
    entries |-> {"DATA", "REAL", "PWR", "DIFFERENCE", "AVERAGE", "PHASE"}],
   [canvases |-> {0, 1}, keys |-> {"d"}, entries |-> {"REAL"}]}
=============================================================================
