----------------------------- MODULE FitSession -----------------------------
(***************************************************************************)
(* What musrfit's main (src/src/musrfit.cpp) makes of the fit: whether it  *)
(* reports it as converged, writes the mlog-file, and which MINUIT2.OUTPUT *)
(* -k keeps.  The fit is that of Fitter; the files themselves are those of *)
(* Musrfit.                                                                *)
(***************************************************************************)
EXTENDS Fitter

VARIABLES
  keepMn2,   \* the option -k
  report,    \* what main has done with the fit
  kept       \* the sections of <msr-file>-mn2.output

sessionVars == <<keepMn2, report, kept>>
allVars == <<vars, sessionVars>>

NoReport == [made |-> FALSE, written |-> FALSE, converged |-> FALSE]

SessionInit ==
  /\ Init
  /\ keepMn2 \in BOOLEAN
  /\ report = NoReport
  /\ kept = <<>>

(* SetMsrStatisticConverged after DoFit; a rejected block, for which DoFit *)
(* is not called, keeps what has been read from the msr-file.              *)
BlockRejected == \E i \in DOMAIN lines : Rejected(lines[i])

ConvergedAsOfStatistic == stat.valid   \* mutant
Converged == IF BlockRejected \/ fIsScanOnly THEN stat.valid ELSE fConverged

WritesLog == ~chisqOnly /\ ~fIsScanOnly

Report ==
  /\ pc = "done" /\ ~report.made
  /\ report' = [made |-> TRUE, written |-> WritesLog, converged |-> Converged]
  /\ kept' = IF keepMn2 /\ WritesLog THEN output ELSE kept
  /\ UNCHANGED <<vars, keepMn2>>

SessionNext ==
  \/ Report
  \/ ~report.made /\ Next /\ UNCHANGED sessionVars
  \/ (report.made \/ pc = "crashed") /\ UNCHANGED allVars

SessionSpec == SessionInit /\ [][SessionNext]_allVars

-----------------------------------------------------------------------------
(* Properties. *)

Ran(cmd) == \E i \in DOMAIN cmdList : i < k /\ CmdAt(i).cmd = cmd

(* A minimum that has been found is never logged as a failed fit, however  *)
(* the commands after it have ended; and apart from a SCAN nothing but a   *)
(* minimum of this session is logged as a converged fit.                   *)
LogTellsOfMinimum ==
  report.written /\ ~BlockRejected =>
    /\ fcnMin # NoMin => report.converged
    /\ report.converged /\ ~Ran("SCAN") => fcnMin # NoMin /\ stat.min = value

(* What -k keeps is the MINUIT2.OUTPUT of an earlier session as a whole,   *)
(* or of this one as a whole, and in that case its last section is that of *)
(* a minimum of this session.                                              *)
KeptIsOfOneSession ==
  kept # <<>> =>
    \/ kept = <<Stale>>
    \/ \A i \in DOMAIN kept : kept[i] \in 1..value
=============================================================================
