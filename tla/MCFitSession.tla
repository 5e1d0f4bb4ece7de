---------------------------- MODULE MCFitSession ----------------------------
(***************************************************************************)
(* Instance of FitSession for TLC: which lines a COMMANDS block is made    *)
(* of, and how long it is.                                                 *)
(***************************************************************************)
EXTENDS FitSession

CONSTANTS R1, R2, RO, RS, RG   \* fit ranges

MCRanges == {R1, R2}

Cmd0(c) == [cmd |-> c, pars |-> <<>>, range |-> RO, bins |-> FALSE,
            ok |-> TRUE, comment |-> FALSE]
CmdP(c, ps) == [Cmd0(c) EXCEPT !.pars = ps]
CmdR(r, b) == [Cmd0("FIT_RANGE") EXCEPT !.range = r, !.bins = b]
Wrong(l) == [l EXCEPT !.ok = FALSE]
Commented(l) == [l EXCEPT !.comment = TRUE]

(* Every kind of line, right or wrong.                                     *)
AllLines ==
  {Cmd0(c) : c \in {"HEADER", "NOT_IMPLEMENTED", "MINIMIZE", "SIMPLEX",
                    "HESSE", "MINOS", "MNPLOT", "PRINT_LEVEL", "RESTORE",
                    "SAVE", "SECTOR", "UNKNOWN", "SCAN"}}
  \cup {CmdP("FIX", <<1>>), CmdP("RELEASE", <<1>>), CmdP("SCAN", <<2>>),
        CmdP("CONTOURS", <<1, 2>>), CmdR(RO, FALSE), CmdR(R1, FALSE),
        CmdR(R2, TRUE)}
  \cup {Wrong(Cmd0(c)) : c \in {"CONTOURS", "FIT_RANGE", "FIX", "RELEASE",
                                "SCAN", "SECTOR", "PRINT_LEVEL"}}
  \cup {Commented(CmdP("FIX", <<1>>)), Commented(CmdR(RO, FALSE)),
        Commented(CmdR(R1, FALSE)), Commented(CmdR(R2, TRUE))}

(* The lines which fit, fix, free, save and scan, one which fails when it  *)
(* is executed, and one which is rejected.                                 *)
SessionLines ==
  {Cmd0(c) : c \in {"MINIMIZE", "HESSE", "MINOS", "RESTORE", "SAVE", "SCAN",
                    "UNKNOWN"}}
  \cup {CmdP("FIX", <<1>>), Wrong(Cmd0("PRINT_LEVEL"))}

(* Up to three lines of any kind, or up to five of these.                  *)
LongEnough == pc = "check" /\ Len(lines) >= 3 /\ \E i \in DOMAIN lines : lines[i] \notin SessionLines
MCNext ==
  IF LongEnough THEN EndCheck /\ UNCHANGED sessionVars
  ELSE SessionNext /\ (Len(lines') > 3 => lines'[Len(lines')] \in SessionLines)
MCSpec == SessionInit /\ [][MCNext]_allVars
=============================================================================
