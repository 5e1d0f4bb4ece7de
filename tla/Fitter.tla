------------------------------- MODULE Fitter -------------------------------
(***************************************************************************)
(* PFitter (src/src/classes/PFitter.cpp): musrfit's interface to Minuit2.  *)
(* The constructor checks the COMMANDS block of the msr-file line by line  *)
(* and fills the queue fCmdList; DoFit then walks through the queue until  *)
(* it ends or a command fails.  Minuit2 itself is external: whether it     *)
(* finds a minimum, a Hesse matrix or a Minos error is a nondeterministic  *)
(* outcome of the command that calls it.                                   *)
(*                                                                         *)
(* Numbers are replaced by where they come from.  Every successful         *)
(* minimisation gets the next number; a parameter value, an error or a     *)
(* chi^2 is the number of the minimum it was computed for (0: it was read  *)
(* from the msr-file).  A fit range is a model value.                      *)
(***************************************************************************)
EXTENDS Naturals, Sequences

CONSTANTS
  NoOfParams,   \* fParams.size(), the parameters of the FITPARAMETER block
  Consts,       \* the parameters with STEP 0 in the msr-file
  Unused,       \* the parameters no theory, function or map refers to
  RunType,      \* what kind of runs is fitted
  NoOfRuns,     \* the number of RUN blocks
  Ranges,       \* the fit ranges a FIT_RANGE line can ask for
  Orig,         \* fOriginalFitRange, the fit range of the RUN/GLOBAL block
  SectorRange,  \* the fit range of the last sector of a SECTOR line
  Garbage,      \* the fit range read from the words of a trailing comment
  Lines,        \* the lines a COMMANDS block is made of
  MaxLines      \* bound: the length of a COMMANDS block

Params == 1..NoOfParams

AllRanges == Ranges \cup {Orig, SectorRange, Garbage}

(* MINIMIZE stands for MIGRAD too, NOT_IMPLEMENTED for INTERACTIVE, EIGEN, *)
(* MACHINE_PRECISION, USER_COVARIANCE and USER_PARAM_STATE, and HEADER for *)
(* the lines which queue nothing (COMMANDS, SET BATCH, STRATEGY, ...).     *)
Minimizers == {"MINIMIZE", "SIMPLEX"}

Commands == Minimizers \cup
  {"HEADER", "NOT_IMPLEMENTED", "CONTOURS", "FIT_RANGE", "FIX", "HESSE",
   "MINOS", "MNPLOT", "PRINT_LEVEL", "RELEASE", "RESTORE", "SAVE", "SCAN",
   "SECTOR", "UNKNOWN"}

(* A line: its command, the parameters it names, the fit range it asks for *)
(* (Orig: RESET), whether that range is given in bins (fgb/lgb), whether   *)
(* its arguments are fine, and whether a comment follows on the same line. *)
Line == [cmd : Commands, pars : Seq(Params), range : AllRanges,
         bins : BOOLEAN, ok : BOOLEAN, comment : BOOLEAN]

ASSUME FitterAssumption ==
  /\ NoOfParams \in Nat
  /\ Consts \subseteq Params
  /\ Unused \subseteq Params
  /\ RunType \in {"singleHisto", "asymmetry", "nonMusr"}
  /\ NoOfRuns \in Nat \ {0}
  /\ Lines \subseteq Line
  /\ MaxLines \in Nat

VARIABLES
  lines,        \* fCmdLines: the COMMANDS block, chosen while it is checked
  pc,           \* where the fitter is
  k,            \* the queued command to execute
  line,         \* number of the line held by the local variable `line`
  cmdList,      \* fCmdList, as line numbers
  warned,       \* CheckCommands issued its RELEASE/RESTORE warning
  chisqOnly,    \* fChisqOnly
  fIsValid, fIsScanOnly, fConverged, fSectorFlag,
  scan,         \* fScanAll and fScanParameter
  fixed,        \* the parameters of fMnUserParams which are fixed
  noErr,        \* the parameters of fMnUserParams whose error is 0
  fcnMin,       \* fFcnMin
  value,        \* the minimum the msr parameter values stem from
  step,         \* STEP of the msr parameters
  posErr,       \* the msr parameters with a positive error
  stat,         \* the msr STATISTIC structure
  perHisto,     \* fMinPerHisto, fNdfPerHisto of that structure
  fitTime,      \* fFitStartTime, fFitEndTime of the runs
  fitBins,      \* fStartTimeBin, fEndTimeBin of the runs, derived from it
  firstSave,    \* DoFit's local variable
  output        \* the sections of MINUIT2.OUTPUT

checkVars == <<lines, line, cmdList, warned, chisqOnly, fIsScanOnly,
               fSectorFlag, scan>>
userParams == <<fixed, noErr>>
msrParams == <<value, step, posErr>>
statVars == <<stat, perHisto>>
rangeVars == <<fitTime, fitBins>>
saveVars == <<firstSave, output>>
vars == <<checkVars, pc, k, fIsValid, fConverged, userParams, fcnMin,
          msrParams, statVars, rangeVars, saveVars>>

NoMin == [id |-> 0, bins |-> Orig, held |-> {}]
StepOffByOne(by) == [by |-> by, min |-> fcnMin.id - 1]   \* mutant
Step(by) == [by |-> by, min |-> fcnMin.id]
Zero == [by |-> "zero", min |-> 0]
Stale == 0   \* a MINUIT2.OUTPUT section of an earlier musrfit session

-----------------------------------------------------------------------------
(* The constructor. *)

Init ==
  /\ lines = <<>>
  /\ chisqOnly \in BOOLEAN
  /\ pc = "check" /\ k = 1 /\ line = 0 /\ cmdList = <<>> /\ warned = FALSE
  /\ fIsValid = TRUE /\ fIsScanOnly = TRUE
  /\ fConverged = FALSE /\ fSectorFlag = FALSE
  /\ scan = [all |-> TRUE, par |-> <<1, 1>>]
  /\ fixed = {} /\ noErr = {}
  /\ fcnMin = NoMin
  /\ value = 0
  /\ step = [p \in Params |->
               IF p \in Consts THEN Zero ELSE [by |-> "file", min |-> 0]]
  /\ posErr = Params \ Consts
  /\ \E valid \in BOOLEAN :
       stat = [valid |-> valid, min |-> 0, bins |-> Orig, ndfBins |-> Orig]
  /\ perHisto = [min |-> 0, bins |-> Orig, ndfBins |-> Orig]
  /\ fitTime = Orig /\ fitBins = Orig
  /\ firstSave = TRUE /\ output = <<Stale>>

-----------------------------------------------------------------------------
(* CheckCommands. *)

Rejected(l) == \/ l.cmd = "UNKNOWN"
               \/ ~l.ok /\ l.cmd \in {"CONTOURS", "FIT_RANGE", "FIX",
                                      "RELEASE", "SCAN", "SECTOR"}

Queued(l) == /\ l.cmd \notin {"HEADER", "UNKNOWN"}
             /\ l.cmd = "FIT_RANGE" => l.ok

(* An unknown command and a wrong FIT_RANGE end the check.  A wrong SECTOR *)
(* does unless the time stamp is not a number; any other wrong argument    *)
(* only ends the scan of its own line.                                     *)
MustEnd(l) == Rejected(l) /\ l.cmd \in {"UNKNOWN", "FIT_RANGE"}
MayEnd(l) == Rejected(l) /\ l.cmd \in {"UNKNOWN", "FIT_RANGE", "SECTOR"}

(* All SCAN and CONTOURS lines share fScanParameter.                       *)
ScanAfter(l) ==
  IF l.cmd \in {"SCAN", "CONTOURS"} /\ l.ok /\ l.pars # <<>>
  THEN [all |-> FALSE,
        par |-> IF l.cmd = "CONTOURS" /\ Len(l.pars) = 2 THEN l.pars
                ELSE [scan.par EXCEPT ![1] = l.pars[1]]]
  ELSE scan

StillValidLastLine(l) == ~Rejected(l)   \* mutant
StillValid(l) == fIsValid /\ ~Rejected(l)

CheckLine ==
  /\ pc = "check"
  /\ Len(lines) < MaxLines
  /\ \E l \in Lines :
       /\ lines' = Append(lines, l)
       /\ line' = Len(lines')
       /\ cmdList' = IF Queued(l) THEN Append(cmdList, line') ELSE cmdList
       /\ fIsValid' = StillValid(l)
       /\ fIsScanOnly' = (fIsScanOnly /\ l.cmd \notin {"HESSE", "MINIMIZE", "MINOS"})
       /\ fSectorFlag' = IF l.cmd = "SECTOR" THEN l.ok ELSE fSectorFlag
       /\ scan' = ScanAfter(l)
       /\ \/ ~MustEnd(l) /\ UNCHANGED pc
          \/ MayEnd(l) /\ pc' = "checked"
  /\ UNCHANGED <<k, warned, chisqOnly, fConverged, userParams, fcnMin,
                 msrParams, statVars, rangeVars, saveVars>>

(* The loop which looks for a MINOS after a RELEASE or RESTORE without a   *)
(* minimiser in between, over the lines it looks at.                       *)
NoFlags == [fix |-> FALSE, release |-> FALSE, minimizer |-> FALSE,
            warned |-> FALSE]

WarnStep(w, cmd) ==
  CASE cmd = "FIX" -> [w EXCEPT !.fix = TRUE]
    [] cmd \in {"RELEASE", "RESTORE"} -> [w EXCEPT !.release = TRUE]
    [] cmd \in Minimizers -> [w EXCEPT !.minimizer = @ \/ w.release]
    [] cmd = "MINOS" ->
         [NoFlags EXCEPT !.warned = \/ w.warned
                                    \/ w.fix /\ w.release /\ ~w.minimizer]
    [] OTHER -> w

Warns(looked) ==
  LET flags[n \in 0..Len(looked)] ==
        IF n = 0 THEN NoFlags ELSE WarnStep(flags[n - 1], looked[n].cmd)
  IN  flags[Len(looked)].warned = TRUE

(* The loop runs over the block with `it`, but looks at the line which the *)
(* first loop has left in `line`.                                          *)
LookedAt == [i \in 1..Len(lines) |-> lines[line]]

(* IsValid() decides whether main calls DoFit.                             *)
EndCheck ==
  /\ pc \in {"check", "checked"}
  /\ warned' = Warns(LookedAt)
  /\ pc' = IF fIsValid THEN "ready" ELSE "done"
  /\ UNCHANGED <<lines, line, cmdList, chisqOnly, k, fIsValid, fIsScanOnly,
                 fConverged, fSectorFlag, scan, userParams, fcnMin, msrParams,
                 statVars, rangeVars, saveVars>>

-----------------------------------------------------------------------------
(* The fit range of the runs.  A run keeps it in time, and in bins for the *)
(* loop over the data.  Setting a time range updates the bins, setting a   *)
(* bin range does not; they follow when the number of fitted bins is next  *)
(* asked for.  A non-muSR run computes its bins once, when its data are    *)
(* prepared, and ignores a bin range.                                      *)

SetFitRangeTime(r) == fitTime' = r /\ UNCHANGED fitBins   \* mutant
SetFitRange(r) ==
  /\ fitTime' = r
  /\ fitBins' = IF RunType = "nonMusr" THEN fitBins ELSE r

SetFitRangeBin(r) ==
  /\ fitTime' = IF RunType = "nonMusr" THEN fitTime ELSE r
  /\ UNCHANGED fitBins

GetNoOfFitBins ==
  /\ fitBins' = IF RunType = "nonMusr" THEN fitBins ELSE fitTime
  /\ UNCHANGED fitTime

-----------------------------------------------------------------------------
(* DoFit. *)

(* SetParameters: a parameter which is not in use is fixed.                *)
SetParameters ==
  /\ fixed' = Unused \ Consts
  /\ noErr' = Consts

(* SetMsrParamPosErrorPresent(i, false) for all the parameters.            *)
KeepPosErrors == UNCHANGED posErr   \* mutant
ClearPosErrors == posErr' = {}

(* chi^2 only: nothing is fitted, the sectors leave their range behind.    *)
CalcChisqOnly ==
  /\ pc = "ready" /\ chisqOnly
  /\ SetParameters
  /\ IF fSectorFlag THEN SetFitRange(SectorRange) ELSE GetNoOfFitBins
  /\ pc' = "done"
  /\ UNCHANGED <<checkVars, k, fIsValid, fConverged, fcnMin, msrParams,
                 statVars, saveVars>>

StartFit ==
  /\ pc = "ready" /\ ~chisqOnly
  /\ SetParameters
  /\ ClearPosErrors
  /\ pc' = "exec"
  /\ UNCHANGED <<checkVars, k, fIsValid, fConverged, fcnMin, value, step,
                 statVars, rangeVars, saveVars>>

Cmd == lines[cmdList[k]]

Executes(cmds) == pc = "exec" /\ k <= Len(cmdList) /\ Cmd.cmd \in cmds

(* The command has been executed: go on with the next one.                 *)
Continue == k' = k + 1 /\ UNCHANGED <<pc, fIsValid, stat>>

(* The loop over the commands ends, early or not: fStatistic.fValid is set.*)
Finish(valid) ==
  /\ pc' = "done"
  /\ fIsValid' = valid
  /\ stat' = [stat EXCEPT !.valid = valid]
  /\ UNCHANGED k

EndFit ==
  /\ pc = "exec" /\ k > Len(cmdList)
  /\ Finish(fIsValid)
  /\ UNCHANGED <<checkVars, fConverged, userParams, fcnMin, msrParams,
                 perHisto, rangeVars, saveVars>>

(* The command returned false.                                             *)
Fails(valid) ==
  /\ Finish(valid)
  /\ UNCHANGED <<checkVars, fConverged, userParams, fcnMin, msrParams,
                 perHisto, rangeVars, saveVars>>

-----------------------------------------------------------------------------
(* The commands. *)

(* ExecuteMigrad, ExecuteMinimize, ExecuteSimplex: an invalid minimum      *)
(* invalidates the fit; a valid one replaces all the results.  The number  *)
(* of degrees of freedom asks for the number of fitted bins.               *)
Minimize ==
  /\ Executes(Minimizers)
  /\ \/ Fails(FALSE)
     \/ /\ fcnMin' = [id |-> fcnMin.id + 1, bins |-> fitBins,
                      held |-> fixed \cup Consts]
        /\ value' = fcnMin'.id
        /\ step' = [p \in Params |-> IF p \in Consts THEN Zero ELSE
                                     [by |-> "fit", min |-> fcnMin'.id]]
        /\ ClearPosErrors
        /\ stat' = [stat EXCEPT !.min = fcnMin'.id, !.bins = fitBins,
                                !.ndfBins = fitTime]
        /\ GetNoOfFitBins
        /\ noErr' = Consts
        /\ fConverged' = TRUE
        /\ k' = k + 1
        /\ UNCHANGED <<checkVars, pc, fIsValid, fixed, perHisto, saveVars>>

(* ExecuteHesse: parabolic errors at the current parameters.               *)
Hesse ==
  /\ Executes({"HESSE"})
  /\ \/ Fails(fIsValid)
     \/ /\ step' = [p \in Params |-> IF p \in noErr THEN Zero ELSE Step("hesse")]
        /\ ClearPosErrors
        /\ Continue
        /\ UNCHANGED <<checkVars, fConverged, userParams, fcnMin, value,
                       perHisto, rangeVars, saveVars>>

(* ExecuteMinos: asymmetric errors around fFcnMin for every parameter      *)
(* which is not fixed now; STEP 0 for the fixed ones.                      *)
MinosParams == Params \ (noErr \cup Unused \cup fixed)

MinosStep(p, valid) ==
  IF p \in fixed THEN Zero ELSE IF p \in valid THEN Step("minos") ELSE step[p]

Minos ==
  /\ Executes({"MINOS"})
  /\ IF fcnMin = NoMin THEN Fails(fIsValid) ELSE
     \E valid \in SUBSET MinosParams :
        /\ step' = [p \in Params |-> MinosStep(p, valid)]
        /\ posErr' = (posErr \ (MinosParams \cup fixed)) \cup valid
        /\ Continue
        /\ UNCHANGED <<checkVars, fConverged, userParams, fcnMin, value,
                       perHisto, rangeVars, saveVars>>

(* ExecuteScan, ExecuteContours and ExecutePlot only produce a plot; but a *)
(* scan counts as a converged fit.                                         *)
Scan ==
  /\ Executes({"SCAN"})
  /\ fConverged' = TRUE
  /\ Continue
  /\ UNCHANGED <<checkVars, userParams, fcnMin, msrParams, perHisto,
                 rangeVars, saveVars>>

Contours ==
  /\ Executes({"CONTOURS"})
  /\ IF fcnMin = NoMin THEN Fails(fIsValid) ELSE
        /\ Continue
        /\ UNCHANGED <<checkVars, fConverged, userParams, fcnMin, msrParams,
                       perHisto, rangeVars, saveVars>>

(* MNPLOT, the commands which only issue a warning, SECTOR (handled by     *)
(* SAVE), and PRINT_LEVEL, whose argument is checked only now.             *)
Other ==
  /\ Executes({"MNPLOT", "NOT_IMPLEMENTED", "SECTOR", "PRINT_LEVEL"})
  /\ IF Cmd.cmd = "PRINT_LEVEL" /\ ~Cmd.ok THEN Fails(fIsValid) ELSE
        /\ Continue
        /\ UNCHANGED <<checkVars, fConverged, userParams, fcnMin, msrParams,
                       perHisto, rangeVars, saveVars>>

(* The check strips a trailing comment, the execution tokenises the line   *)
(* with it: the words of the comment count as arguments.                   *)

(* ExecuteFitRange: with more tokens than expected, RESET is read as a     *)
(* pair of numbers, a range may reach the first run only, and a bin range  *)
(* may be ignored.                                                         *)
RangesReadNoReset == IF Cmd.range = Orig THEN {fitTime} ELSE {Cmd.range}   \* mutant

RangesRead ==
  IF ~Cmd.comment THEN {Cmd.range}
  ELSE IF Cmd.range = Orig THEN {Garbage}
  ELSE (IF Cmd.bins THEN {Cmd.range, fitTime} ELSE {Cmd.range})
       \cup (IF NoOfRuns > 1 THEN {Garbage} ELSE {})

FitRange ==
  /\ Executes({"FIT_RANGE"})
  /\ \E r \in RangesRead :
        IF Cmd.bins THEN SetFitRangeBin(r) ELSE SetFitRange(r)
  /\ Continue
  /\ UNCHANGED <<checkVars, fConverged, userParams, fcnMin, msrParams,
                 perHisto, saveVars>>

Named == {Cmd.pars[i] : i \in DOMAIN Cmd.pars}

(* Undefined behaviour, of which a crash is one outcome: the name `#` of   *)
(* no parameter is looked up, a token behind the last one is read, or, by  *)
(* PrepareSector, the expected chi^2 of a run which is no single histogram.*)
Undefined ==
  \/ Cmd.comment /\ Cmd.cmd \in {"FIX", "RELEASE"}
  \/ Cmd.comment /\ Cmd.cmd = "FIT_RANGE" /\ ~Cmd.bins /\ NoOfRuns > 1
  \/ Cmd.cmd = "SAVE" /\ fcnMin # NoMin /\ fSectorFlag
     /\ RunType # "singleHisto"

Crash ==
  /\ Executes({"FIX", "RELEASE", "FIT_RANGE", "SAVE"})
  /\ Undefined
  /\ pc' = "crashed"
  /\ UNCHANGED <<checkVars, k, fIsValid, fConverged, userParams, fcnMin,
                 msrParams, statVars, rangeVars, saveVars>>

Fix ==
  /\ Executes({"FIX"})
  /\ fixed' = fixed \cup Named
  /\ Continue
  /\ UNCHANGED <<checkVars, fConverged, noErr, fcnMin, msrParams, perHisto,
                 rangeVars, saveVars>>

(* ExecuteRelease, ExecuteRestore: a released parameter gets an error of   *)
(* 2% of its value.                                                        *)
Release ==
  /\ Executes({"RELEASE", "RESTORE"})
  /\ LET freed == IF Cmd.cmd = "RESTORE" THEN fixed ELSE Named IN
       /\ fixed' = fixed \ freed
       /\ noErr' = noErr \ freed
  /\ Continue
  /\ UNCHANGED <<checkVars, fConverged, fcnMin, msrParams, perHisto,
                 rangeVars, saveVars>>

(* ExecuteSave: chi^2 per run (if it applies), then the sectors, then the  *)
(* section of MINUIT2.OUTPUT, whose file may not open.                     *)
SavePerHisto ==
  perHisto' = IF RunType = "singleHisto" \/ NoOfRuns > 1
              THEN [min |-> fcnMin.id, bins |-> fitBins, ndfBins |-> fitTime]
              ELSE perHisto

PrepareSector ==
  IF fSectorFlag THEN SetFitRange(SectorRange)
  ELSE IF RunType = "singleHisto" \/ NoOfRuns > 1 THEN GetNoOfFitBins
  ELSE UNCHANGED rangeVars

SavedAppending == Append(output, fcnMin.id)   \* mutant
Saved == IF firstSave THEN <<fcnMin.id>> ELSE Append(output, fcnMin.id)

Save ==
  /\ Executes({"SAVE"})
  /\ IF fcnMin = NoMin THEN Fails(fIsValid) ELSE
        /\ SavePerHisto
        /\ PrepareSector
        /\ firstSave' = FALSE
        /\ \/ output' = Saved /\ Continue
           \/ Finish(fIsValid) /\ UNCHANGED output
        /\ UNCHANGED <<checkVars, fConverged, userParams, fcnMin, msrParams>>

Execute == \/ Minimize \/ Hesse \/ Minos \/ Scan \/ Contours \/ Other
           \/ FitRange \/ Fix \/ Release \/ Save \/ Crash

Terminated == pc \in {"done", "crashed"} /\ UNCHANGED vars

Next == \/ CheckLine \/ EndCheck \/ CalcChisqOnly \/ StartFit
        \/ Execute \/ EndFit \/ Terminated

Spec == Init /\ [][Next]_vars

-----------------------------------------------------------------------------
(* Properties. *)

Min == [id : Nat, bins : AllRanges, held : SUBSET Params]
Stat == [valid : BOOLEAN, min : Nat, bins : AllRanges, ndfBins : AllRanges]
MinStat == [min : Nat, bins : AllRanges, ndfBins : AllRanges]
StepBy == {"file", "fit", "hesse", "minos", "zero"}

(* The type invariant of PFitter's members and of the structures of the    *)
(* msr-file handler and of the runs which it changes.                      *)
BlockTypeOK ==
  /\ lines \in Seq(Lines)
  /\ line \in 0..Len(lines)
  /\ cmdList \in Seq(1..Len(lines))
  /\ k \in Nat \ {0}
  /\ pc \in {"check", "checked", "ready", "exec", "done", "crashed"}
  /\ scan \in [all : BOOLEAN, par : [1..2 -> Nat]]

FlagsTypeOK ==
  /\ warned \in BOOLEAN /\ chisqOnly \in BOOLEAN
  /\ fIsValid \in BOOLEAN /\ fIsScanOnly \in BOOLEAN
  /\ fConverged \in BOOLEAN /\ fSectorFlag \in BOOLEAN
  /\ firstSave \in BOOLEAN

ParamTypeOK ==
  /\ fixed \subseteq Params /\ noErr \subseteq Params
  /\ fcnMin \in Min
  /\ value \in Nat
  /\ step \in [Params -> [by : StepBy, min : Nat]]
  /\ posErr \subseteq Params

ResultTypeOK ==
  /\ stat \in Stat
  /\ perHisto \in MinStat
  /\ fitTime \in AllRanges /\ fitBins \in AllRanges
  /\ output \in Seq(Nat)

TypeOK == BlockTypeOK /\ FlagsTypeOK /\ ParamTypeOK /\ ResultTypeOK

(* Whatever the order of the commands and wherever they fail, the values,  *)
(* the errors and the chi^2 which the msr-file gets stem from one and the  *)
(* same minimum, the one fFcnMin holds, and a positive error stands only   *)
(* beside the negative one MINOS found with it.                            *)
ResultsOfOneMinimum ==
  /\ value = fcnMin.id /\ stat.min = fcnMin.id
  /\ \A p \in Params :
       /\ step[p].by \notin {"file", "zero"} => step[p].min = fcnMin.id
       /\ fcnMin.id # 0 => step[p].by # "file"
       /\ p \in posErr => step[p].by \in {"file", "minos"}

(* If the check rejects any line, even one long before the last, no        *)
(* command runs: not a value, not MINUIT2.OUTPUT, not the fit range is     *)
(* touched.                                                                *)
RejectedBlockRunsNothing ==
  (\E i \in DOMAIN lines : Rejected(lines[i])) =>
    /\ pc \in {"check", "checked", "done"}
    /\ ~fIsValid
    /\ value = 0 /\ output = <<Stale>> /\ fitTime = Orig /\ fitBins = Orig
    /\ \A p \in Params : step[p].by \in {"file", "zero"}

(* The commands which have been executed.                                  *)
Executed == {i \in DOMAIN cmdList : i < k /\ pc \in {"exec", "done", "crashed"}}
CmdAt(i) == lines[cmdList[i]]
RangeSet(i) == CmdAt(i).cmd = "FIT_RANGE"
IsLast(i, S) == i \in S /\ \A j \in S : j <= i

(* The fit range the COMMANDS block asks for at this point.                *)
Commanded ==
  LET set == {i \in Executed : RangeSet(i)} IN
  IF set = {} THEN Orig ELSE CmdAt(CHOOSE i \in set : IsLast(i, set)).range

(* The bins the data loops run over differ from the fit range only between *)
(* a FIT_RANGE given in bins and the next command which asks for the       *)
(* number of fitted bins: neither a minimum nor a SAVE leaves them stale.  *)
BinsFollowRange ==
  pc = "exec" /\ RunType # "nonMusr" /\ fitBins # fitTime =>
    \E i \in Executed :
      /\ RangeSet(i) /\ CmdAt(i).bins
      /\ \A j \in Executed : j > i =>
           /\ ~(CmdAt(j).cmd = "FIT_RANGE" /\ ~CmdAt(j).bins)
           /\ CmdAt(j).cmd \notin Minimizers
           /\ CmdAt(j).cmd = "SAVE" => RunType # "singleHisto" /\ NoOfRuns = 1

(* The fit range is the one the block asked for last, unless a comment has *)
(* been read as part of that line or a SAVE has walked through the sectors.*)
RangeLeaksOnlyBySector ==
  pc = "exec" /\ RunType # "nonMusr" /\ fitTime # Commanded =>
    \E i \in Executed :
      /\ \/ CmdAt(i).cmd = "SAVE" /\ fSectorFlag
         \/ RangeSet(i) /\ CmdAt(i).comment
      /\ \A j \in Executed : j > i => ~(RangeSet(j) /\ ~CmdAt(j).comment)

-----------------------------------------------------------------------------
(* What the comments and the manual say, and the code does not do.         *)

(* "changes the current fit range for all the runs" (user-manual): a       *)
(* minimum is that of the data in the fit range asked for last.            *)
MinimizesCommandedRange ==
  [][fcnMin' # fcnMin => fcnMin'.bins = Commanded]_vars
=============================================================================
