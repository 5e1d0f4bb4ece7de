------------------------------ MODULE FitProofs ------------------------------
(***************************************************************************)
(* Theorems about a fit.  First about Fitter, for every COMMANDS block,    *)
(* every set of parameters and every kind of run, and FitSession: what     *)
(* main reports and keeps of a fit, for every outcome of Minuit2.  Then    *)
(* about TheoryCache, the loops in which the fit evaluates its theory, for *)
(* any number of threads and bins, any parameters, and wherever the loop   *)
(* is interrupted.                                                         *)
(***************************************************************************)
EXTENDS FitSession, TheoryCache, SequenceTheorems, TLAPS

USE FitterAssumption DEF Params

(* The queued command is a line of the block.                              *)
LEMMA CmdIsLine ==
  ASSUME BlockTypeOK, NEW C, Executes(C)
  PROVE  Cmd \in Line /\ Cmd \in Lines
<1>1. k \in 1..Len(cmdList) /\ cmdList[k] \in 1..Len(lines)
  BY DEF BlockTypeOK, Executes
<1>2. lines[cmdList[k]] \in Lines
  BY <1>1 DEF BlockTypeOK
<1> QED
  BY <1>2 DEF Cmd

LEMMA InitTypeOK == Init => TypeOK
<1> SUFFICES ASSUME Init PROVE TypeOK
  OBVIOUS
<1>1. BlockTypeOK
  BY DEF Init, BlockTypeOK
<1>2. FlagsTypeOK
  BY Zenon DEF Init, FlagsTypeOK
<1>3. ParamTypeOK
  BY DEF Init, ParamTypeOK, NoMin, Min, AllRanges, Zero, StepBy
<1>4. ResultTypeOK
  BY DEF Init, ResultTypeOK, Stat, MinStat, AllRanges, Stale
<1> QED
  BY <1>1, <1>2, <1>3, <1>4 DEF TypeOK

(* CheckLine and EndCheck.                                                 *)
LEMMA CheckLineBlock == BlockTypeOK /\ CheckLine => BlockTypeOK'
<1> SUFFICES ASSUME BlockTypeOK, CheckLine PROVE BlockTypeOK'
  OBVIOUS
<1>1. PICK l \in Lines :
        /\ lines' = Append(lines, l)
        /\ line' = Len(lines')
        /\ cmdList' = IF Queued(l) THEN Append(cmdList, line') ELSE cmdList
        /\ scan' = ScanAfter(l)
        /\ UNCHANGED pc \/ pc' = "checked"
  BY DEF CheckLine
<1>2. lines' \in Seq(Lines) /\ Len(lines') = Len(lines) + 1
  BY <1>1 DEF BlockTypeOK
<1>3. cmdList' \in Seq(1..Len(lines'))
  <2>1. cmdList \in Seq(1..Len(lines'))
    BY <1>2 DEF BlockTypeOK
  <2>2. line' \in 1..Len(lines')
    BY <1>1, <1>2 DEF BlockTypeOK
  <2>3. Append(cmdList, line') \in Seq(1..Len(lines'))
    BY <2>1, <2>2
  <2> QED
    BY <1>1, <2>1, <2>3, Zenon
<1>4. scan' \in [all : BOOLEAN, par : [1..2 -> Nat]]
  <2>1. l.pars \in Seq(Nat) /\ scan.par \in [1..2 -> Nat] /\ scan \in [all : BOOLEAN, par : [1..2 -> Nat]]
    <3>1. l.pars \in Seq(Params)
      BY <1>1 DEF Line
    <3> QED
      BY <3>1 DEF BlockTypeOK
  <2>2. CASE l.pars # <<>>
    <3>1. l.pars[1] \in Nat
      BY <2>1, <2>2
    <3>2. [scan.par EXCEPT ![1] = l.pars[1]] \in [1..2 -> Nat]
      BY <2>1, <3>1
    <3>3. Len(l.pars) = 2 => l.pars \in [1..2 -> Nat]
      BY <2>1, LenProperties
    <3> QED
      BY <1>1, <2>1, <3>2, <3>3 DEF ScanAfter
  <2>3. CASE l.pars = <<>>
    BY <1>1, <2>1, <2>3 DEF ScanAfter
  <2> QED
    BY <2>2, <2>3
<1>5. k' = k
  BY DEF CheckLine
<1> QED
  BY <1>1, <1>2, <1>3, <1>4, <1>5 DEF BlockTypeOK

LEMMA CheckLineFlags == FlagsTypeOK /\ CheckLine => FlagsTypeOK'
<1> SUFFICES ASSUME FlagsTypeOK, CheckLine PROVE FlagsTypeOK'
  OBVIOUS
<1>1. PICK l \in Lines :
        /\ fIsValid' = StillValid(l)
        /\ fIsScanOnly' = (fIsScanOnly /\ l.cmd \notin {"HESSE", "MINIMIZE", "MINOS"})
        /\ fSectorFlag' = IF l.cmd = "SECTOR" THEN l.ok ELSE fSectorFlag
  BY Zenon DEF CheckLine
<1>2. l.ok \in BOOLEAN
  BY <1>1 DEF Line
<1>3. fIsValid' \in BOOLEAN /\ fIsScanOnly' \in BOOLEAN
  BY <1>1, Zenon DEF StillValid
<1>4. fSectorFlag' \in BOOLEAN
  BY <1>1, <1>2 DEF FlagsTypeOK
<1> QED
  BY <1>3, <1>4, Zenon DEF FlagsTypeOK, CheckLine, saveVars

(* A command leaves the block alone, and either goes on or ends the fit.   *)
LEMMA ExecuteControl ==
  ASSUME Execute
  PROVE  /\ pc = "exec"
         /\ UNCHANGED checkVars
         /\ pc' \in {"exec", "done", "crashed"}
         /\ k' = k \/ k' = k + 1
         /\ fIsValid' \in {fIsValid, FALSE}
         /\ fConverged' \in {fConverged, TRUE}
         /\ firstSave' \in {firstSave, FALSE}
<1> USE DEF Executes, Fails, Finish, Continue
<1>1. CASE Minimize
  BY <1>1 DEF Minimize, saveVars
<1>2. CASE Hesse
  BY <1>2 DEF Hesse, saveVars
<1>3. CASE Minos
  BY <1>3 DEF Minos, saveVars
<1>4. CASE Scan
  BY <1>4 DEF Scan, saveVars
<1>5. CASE Contours
  BY <1>5 DEF Contours, saveVars
<1>6. CASE Other
  BY <1>6 DEF Other, saveVars
<1>7. CASE FitRange
  BY <1>7 DEF FitRange, saveVars
<1>8. CASE Fix
  BY <1>8 DEF Fix, saveVars
<1>9. CASE Release
  BY <1>9 DEF Release, saveVars
<1>10. CASE Save
  BY <1>10 DEF Save, saveVars
<1>11. CASE Crash
  BY <1>11 DEF Crash, saveVars
<1> QED
  BY <1>1, <1>2, <1>3, <1>4, <1>5, <1>6, <1>7, <1>8, <1>9, <1>10, <1>11
     DEF Execute

LEMMA NextBlock ==
  ASSUME BlockTypeOK, [Next]_vars
  PROVE  BlockTypeOK'
<1>1. CASE CheckLine
  BY <1>1, CheckLineBlock
<1>2. CASE EndCheck
  BY <1>2 DEF EndCheck, BlockTypeOK
<1>3. CASE CalcChisqOnly
  BY <1>3 DEF CalcChisqOnly, BlockTypeOK, checkVars
<1>4. CASE StartFit
  BY <1>4 DEF StartFit, BlockTypeOK, checkVars
<1>5. CASE Execute
  BY <1>5, ExecuteControl DEF BlockTypeOK, checkVars
<1>6. CASE EndFit
  BY <1>6 DEF EndFit, Finish, BlockTypeOK, checkVars
<1>7. CASE UNCHANGED vars
  BY <1>7 DEF BlockTypeOK, vars, checkVars
<1> QED
  BY <1>1, <1>2, <1>3, <1>4, <1>5, <1>6, <1>7 DEF Next, Terminated

LEMMA NextFlags ==
  ASSUME FlagsTypeOK, [Next]_vars
  PROVE  FlagsTypeOK'
<1>1. CASE CheckLine
  BY <1>1, CheckLineFlags
<1>2. CASE EndCheck
  <2>1. warned' \in BOOLEAN
    BY <1>2, Zenon DEF EndCheck, Warns
  <2> QED
    BY <1>2, <2>1, Zenon DEF EndCheck, FlagsTypeOK, saveVars
<1>3. CASE CalcChisqOnly
  BY <1>3, Zenon DEF CalcChisqOnly, FlagsTypeOK, checkVars, saveVars
<1>4. CASE StartFit
  BY <1>4, Zenon DEF StartFit, FlagsTypeOK, checkVars, saveVars
<1>5. CASE Execute
  <2>1. UNCHANGED <<warned, chisqOnly, fIsScanOnly, fSectorFlag>>
    BY <1>5, ExecuteControl, Zenon DEF checkVars
  <2>2. fIsValid' \in BOOLEAN /\ fConverged' \in BOOLEAN /\ firstSave' \in BOOLEAN
    BY <1>5, ExecuteControl, Zenon DEF FlagsTypeOK
  <2> QED
    BY <2>1, <2>2, Zenon DEF FlagsTypeOK
<1>6. CASE EndFit
  BY <1>6, Zenon DEF EndFit, Finish, FlagsTypeOK, checkVars, saveVars
<1>7. CASE UNCHANGED vars
  BY <1>7, Zenon DEF FlagsTypeOK, vars, checkVars, saveVars
<1> QED
  BY <1>1, <1>2, <1>3, <1>4, <1>5, <1>6, <1>7 DEF Next, Terminated

(* What a minimum, a Hesse matrix and MINOS do to the parameters.          *)
LEMMA MinimizeParams == ParamTypeOK /\ fitBins \in AllRanges /\ Minimize => ParamTypeOK'
<1> SUFFICES ASSUME ParamTypeOK, fitBins \in AllRanges, Minimize PROVE ParamTypeOK'
  OBVIOUS
<1>1. CASE Fails(FALSE)
  BY <1>1 DEF Fails, ParamTypeOK, userParams, msrParams
<1>2. CASE ~Fails(FALSE)
  <2>1. /\ fcnMin' = [id |-> fcnMin.id + 1, bins |-> fitBins,
                      held |-> fixed \cup Consts]
        /\ value' = fcnMin'.id
        /\ step' = [p \in Params |-> IF p \in Consts THEN Zero ELSE
                                     [by |-> "fit", min |-> fcnMin'.id]]
        /\ posErr' = {} /\ noErr' = Consts /\ fixed' = fixed
    BY <1>2 DEF Minimize, ClearPosErrors
  <2>2. fcnMin' \in Min /\ fcnMin'.id \in Nat
    BY <2>1 DEF ParamTypeOK, Min
  <2>3. step' \in [Params -> [by : StepBy, min : Nat]]
    BY <2>1, <2>2 DEF Zero, StepBy
  <2> QED
    BY <2>1, <2>2, <2>3 DEF ParamTypeOK
<1> QED
  BY <1>1, <1>2

LEMMA HesseParams == ParamTypeOK /\ Hesse => ParamTypeOK'
<1> SUFFICES ASSUME ParamTypeOK, Hesse PROVE ParamTypeOK'
  OBVIOUS
<1>1. CASE Fails(fIsValid)
  BY <1>1 DEF Fails, ParamTypeOK, userParams, msrParams
<1>2. CASE ~Fails(fIsValid)
  <2>1. /\ step' = [p \in Params |-> IF p \in noErr THEN Zero ELSE Step("hesse")]
        /\ posErr' = {} /\ UNCHANGED <<userParams, fcnMin, value>>
    BY <1>2 DEF Hesse, ClearPosErrors
  <2>2. step' \in [Params -> [by : StepBy, min : Nat]]
    BY <2>1 DEF ParamTypeOK, Min, Zero, Step, StepBy
  <2> QED
    BY <2>1, <2>2 DEF ParamTypeOK, userParams
<1> QED
  BY <1>1, <1>2

LEMMA MinosParamTypes == ParamTypeOK /\ Minos => ParamTypeOK'
<1> SUFFICES ASSUME ParamTypeOK, Minos PROVE ParamTypeOK'
  OBVIOUS
<1>1. CASE fcnMin = NoMin
  BY <1>1 DEF Minos, Fails, ParamTypeOK, userParams, msrParams
<1>2. CASE fcnMin # NoMin
  <2>1. PICK valid \in SUBSET MinosParams :
          /\ step' = [p \in Params |-> MinosStep(p, valid)]
          /\ posErr' = (posErr \ (MinosParams \cup fixed)) \cup valid
          /\ UNCHANGED <<userParams, fcnMin, value>>
    BY <1>2 DEF Minos
  <2>2. step' \in [Params -> [by : StepBy, min : Nat]]
    BY <2>1 DEF ParamTypeOK, Min, Zero, Step, StepBy, MinosStep
  <2>3. posErr' \subseteq Params
    BY <2>1 DEF ParamTypeOK, MinosParams
  <2> QED
    BY <2>1, <2>2, <2>3 DEF ParamTypeOK, userParams
<1> QED
  BY <1>1, <1>2

LEMMA NextParams ==
  ASSUME BlockTypeOK, ParamTypeOK, ResultTypeOK, [Next]_vars
  PROVE  ParamTypeOK'
<1> USE DEF ParamTypeOK, userParams, msrParams
<1>1. CASE CheckLine
  BY <1>1 DEF CheckLine
<1>2. CASE EndCheck
  BY <1>2 DEF EndCheck
<1>3. CASE CalcChisqOnly
  BY <1>3 DEF CalcChisqOnly, SetParameters
<1>4. CASE StartFit
  BY <1>4 DEF StartFit, SetParameters, ClearPosErrors
<1>5. CASE Minimize
  BY <1>5, MinimizeParams DEF ResultTypeOK
<1>6. CASE Hesse
  BY <1>6, HesseParams
<1>7. CASE Minos
  BY <1>7, MinosParamTypes
<1>8. CASE Scan \/ Contours \/ Other \/ FitRange \/ Save \/ Crash \/ EndFit
  BY <1>8 DEF Scan, Contours, Other, FitRange, Save, Crash, EndFit, Fails
<1>9. CASE Fix
  <2>1. Executes({"FIX"}) /\ fixed' = fixed \cup Named
        /\ UNCHANGED <<noErr, fcnMin, msrParams>>
    BY <1>9 DEF Fix
  <2>2. Named \subseteq Params
    <3>1. Cmd.pars \in Seq(Params)
      BY <2>1, CmdIsLine DEF Line
    <3> QED
      BY <3>1 DEF Named
  <2> QED
    BY <2>1, <2>2
<1>10. CASE Release
  BY <1>10 DEF Release
<1>11. CASE UNCHANGED vars
  BY <1>11 DEF vars
<1> QED
  BY <1>1, <1>2, <1>3, <1>4, <1>5, <1>6, <1>7, <1>8, <1>9, <1>10, <1>11
     DEF Next, Terminated, Execute

LEMMA SetRangeTypeOK ==
  ASSUME ResultTypeOK, NEW r \in AllRanges,
         SetFitRange(r) \/ SetFitRangeBin(r) \/ GetNoOfFitBins
  PROVE  fitTime' \in AllRanges /\ fitBins' \in AllRanges
BY DEF ResultTypeOK, SetFitRange, SetFitRangeBin, GetNoOfFitBins

LEMMA NextResults ==
  ASSUME BlockTypeOK, FlagsTypeOK, ParamTypeOK, ResultTypeOK, [Next]_vars
  PROVE  ResultTypeOK'
<1> USE DEF statVars, rangeVars, saveVars
<1>0. SectorRange \in AllRanges /\ Garbage \in AllRanges
  BY DEF AllRanges
<1>1. CASE CheckLine \/ EndCheck \/ StartFit \/ Crash
  BY <1>1 DEF CheckLine, EndCheck, StartFit, Crash, ResultTypeOK
<1>2. CASE CalcChisqOnly
  <2>1. fitTime' \in AllRanges /\ fitBins' \in AllRanges
    BY <1>0, <1>2, SetRangeTypeOK DEF CalcChisqOnly
  <2> QED
    BY <1>2, <2>1 DEF CalcChisqOnly, ResultTypeOK
<1>3. CASE Minimize
  <2>1. CASE Fails(FALSE)
    BY <2>1 DEF Fails, Finish, ResultTypeOK, Stat
  <2>2. CASE ~Fails(FALSE)
    <3>1. /\ fcnMin'.id \in Nat
          /\ GetNoOfFitBins /\ UNCHANGED <<perHisto, output>>
      <4>1. ParamTypeOK'
        BY <1>3, MinimizeParams DEF ResultTypeOK
      <4> QED
        BY <1>3, <2>2, <4>1 DEF Minimize, ParamTypeOK, Min
    <3>2. fitTime' \in AllRanges /\ fitBins' \in AllRanges
      BY <1>0, <3>1, SetRangeTypeOK
    <3>3. stat' = [stat EXCEPT !.min = fcnMin'.id, !.bins = fitBins,
                              !.ndfBins = fitTime]
      BY <1>3, <2>2, Zenon DEF Minimize
    <3>4. stat' \in Stat
      BY <3>1, <3>3 DEF ResultTypeOK, Stat
    <3> QED
      BY <3>1, <3>2, <3>4 DEF ResultTypeOK
  <2> QED
    BY <2>1, <2>2
<1>4. CASE Hesse \/ Minos \/ Scan \/ Contours \/ Other \/ EndFit
  <2>1. stat' \in Stat
    BY <1>4 DEF Hesse, Minos, Scan, Contours, Other, EndFit, Fails, Finish,
                Continue, ResultTypeOK, FlagsTypeOK, Stat
  <2> QED
    BY <1>4, <2>1 DEF Hesse, Minos, Scan, Contours, Other, EndFit, Fails,
                      ResultTypeOK
<1>5. CASE FitRange
  <2>1. Executes({"FIT_RANGE"})
    BY <1>5 DEF FitRange
  <2>2. RangesRead \subseteq AllRanges
    <3>1. Cmd.range \in AllRanges
      BY <2>1, CmdIsLine DEF Line
    <3> QED
      BY <1>0, <3>1 DEF RangesRead, ResultTypeOK
  <2>3. fitTime' \in AllRanges /\ fitBins' \in AllRanges
    BY <1>5, <2>2, SetRangeTypeOK DEF FitRange
  <2> QED
    BY <1>5, <2>3 DEF FitRange, Continue, ResultTypeOK
<1>6. CASE Fix \/ Release
  BY <1>6 DEF Fix, Release, Continue, ResultTypeOK
<1>7. CASE Save
  <2>1. CASE fcnMin = NoMin
    <3>1. stat' \in Stat
      BY <1>7, <2>1 DEF Save, Fails, Finish, ResultTypeOK, FlagsTypeOK, Stat
    <3> QED
      BY <1>7, <2>1, <3>1 DEF Save, Fails, ResultTypeOK
  <2>2. CASE fcnMin # NoMin
    <3>1. perHisto' \in MinStat
      BY <1>7, <2>2 DEF Save, SavePerHisto, ResultTypeOK, MinStat, ParamTypeOK, Min
    <3>2. fitTime' \in AllRanges /\ fitBins' \in AllRanges
      <4>1. PrepareSector
        BY <1>7, <2>2 DEF Save
      <4> QED
        BY <1>0, <4>1, SetRangeTypeOK DEF PrepareSector, ResultTypeOK
    <3>3. stat' \in Stat
      BY <1>7, <2>2 DEF Save, Continue, Finish, ResultTypeOK, FlagsTypeOK, Stat
    <3>4. output' \in Seq(Nat)
      <4>1. output' \in {Saved, output}
        BY <1>7, <2>2 DEF Save
      <4>2. fcnMin.id \in Nat /\ output \in Seq(Nat)
        BY DEF ResultTypeOK, ParamTypeOK, Min
      <4>3. <<fcnMin.id>> \in Seq(Nat) /\ Append(output, fcnMin.id) \in Seq(Nat)
        BY <4>2
      <4> QED
        BY <4>1, <4>2, <4>3, Zenon DEF Saved
    <3> QED
      BY <3>1, <3>2, <3>3, <3>4 DEF ResultTypeOK
  <2> QED
    BY <2>1, <2>2
<1>8. CASE UNCHANGED vars
  BY <1>8 DEF vars, ResultTypeOK
<1> QED
  BY <1>1, <1>2, <1>3, <1>4, <1>5, <1>6, <1>7, <1>8
     DEF Next, Terminated, Execute

(* Whatever the COMMANDS block and the outcomes of Minuit2, the state of   *)
(* the fitter keeps its type.                                              *)
THEOREM TypeCorrect == Spec => []TypeOK
<1>1. Init => TypeOK
  BY InitTypeOK
<1>2. TypeOK /\ [Next]_vars => TypeOK'
  BY NextBlock, NextFlags, NextParams, NextResults DEF TypeOK
<1> QED
  BY <1>1, <1>2, PTL DEF Spec

-----------------------------------------------------------------------------
(* ResultsOfOneMinimum is inductive.                                       *)

LEMMA InitOneMinimum == Init => ResultsOfOneMinimum
BY DEF Init, ResultsOfOneMinimum, NoMin, Zero

LEMMA MinimizeOneMinimum ==
  ASSUME TypeOK, ResultsOfOneMinimum, Minimize
  PROVE  ResultsOfOneMinimum'
<1>1. CASE Fails(FALSE)
  BY <1>1 DEF Fails, Finish, ResultsOfOneMinimum, msrParams
<1>2. CASE ~Fails(FALSE)
  <2>1. stat' = [stat EXCEPT !.min = fcnMin'.id, !.bins = fitBins,
                            !.ndfBins = fitTime]
    BY <1>2 DEF Minimize
  <2>2. /\ value' = fcnMin'.id
        /\ step' = [p \in Params |-> IF p \in Consts THEN Zero ELSE
                                     [by |-> "fit", min |-> fcnMin'.id]]
        /\ posErr' = {}
    BY <1>2 DEF Minimize, ClearPosErrors
  <2>3. stat'.min = fcnMin'.id
    BY <2>1 DEF TypeOK, ResultTypeOK, Stat
  <2> QED
    BY <2>2, <2>3 DEF ResultsOfOneMinimum, Zero
<1> QED
  BY <1>1, <1>2

LEMMA HesseOneMinimum ==
  ASSUME TypeOK, ResultsOfOneMinimum, Hesse
  PROVE  ResultsOfOneMinimum'
<1>1. CASE Fails(fIsValid)
  BY <1>1 DEF Fails, Finish, ResultsOfOneMinimum, msrParams, TypeOK,
              ResultTypeOK, Stat
<1>2. CASE ~Fails(fIsValid)
  <2>1. /\ step' = [p \in Params |-> IF p \in noErr THEN Zero ELSE Step("hesse")]
        /\ posErr' = {} /\ UNCHANGED <<stat, fcnMin, value>>
    BY <1>2 DEF Hesse, ClearPosErrors, Continue
  <2> QED
    BY <2>1 DEF ResultsOfOneMinimum, Zero, Step
<1> QED
  BY <1>1, <1>2

LEMMA MinosOneMinimum ==
  ASSUME TypeOK, ResultsOfOneMinimum, Minos
  PROVE  ResultsOfOneMinimum'
<1>1. CASE fcnMin = NoMin
  BY <1>1 DEF Minos, Fails, Finish, ResultsOfOneMinimum, msrParams, TypeOK,
              ResultTypeOK, Stat
<1>2. CASE fcnMin # NoMin
  <2>1. PICK valid \in SUBSET MinosParams :
          /\ step' = [p \in Params |-> MinosStep(p, valid)]
          /\ posErr' = (posErr \ (MinosParams \cup fixed)) \cup valid
          /\ UNCHANGED <<stat, fcnMin, value>>
    BY <1>2 DEF Minos, Continue
  <2>2. ASSUME NEW p \in Params
        PROVE  /\ step'[p].by \notin {"file", "zero"} => step'[p].min = fcnMin.id
               /\ fcnMin.id # 0 => step'[p].by # "file"
               /\ p \in posErr' => step'[p].by \in {"file", "minos"}
    <3>1. CASE p \in fixed
      BY <2>1, <3>1 DEF MinosStep, Zero, MinosParams
    <3>2. CASE p \notin fixed /\ p \in valid
      BY <2>1, <3>2 DEF MinosStep, Step
    <3>3. CASE p \notin fixed /\ p \notin valid
      <4>1. step'[p] = step[p] /\ (p \in posErr' => p \in posErr)
        BY <2>1, <3>3 DEF MinosStep
      <4> QED
        BY <4>1 DEF ResultsOfOneMinimum
    <3> QED
      BY <3>1, <3>2, <3>3
  <2> QED
    BY <2>1, <2>2 DEF ResultsOfOneMinimum
<1> QED
  BY <1>1, <1>2

(* The other steps change none of what the invariant is about, but for the *)
(* positive errors, which StartFit clears.                                 *)
LEMMA OthersOneMinimum ==
  ASSUME TypeOK, Next, ~Minimize, ~Hesse, ~Minos
  PROVE  /\ UNCHANGED <<value, step, fcnMin>>
         /\ posErr' \in {posErr, {}}
         /\ stat'.min = stat.min
<1>1. CASE CheckLine \/ EndCheck \/ CalcChisqOnly \/ StartFit \/ Crash \/ Terminated
  BY <1>1 DEF CheckLine, EndCheck, CalcChisqOnly, StartFit, Crash, Terminated,
              ClearPosErrors, vars, msrParams, statVars
<1>2. CASE Scan \/ Contours \/ Other \/ FitRange \/ Fix \/ Release \/ Save \/ EndFit
  <2>1. UNCHANGED <<value, step, fcnMin, posErr>>
    BY <1>2 DEF Scan, Contours, Other, FitRange, Fix, Release, Save, EndFit,
                Fails, msrParams
  <2>2. stat'.min = stat.min
    BY <1>2 DEF Scan, Contours, Other, FitRange, Fix, Release, Save, EndFit,
                Fails, Finish, Continue, TypeOK, ResultTypeOK, Stat
  <2> QED
    BY <2>1, <2>2
<1> QED
  BY <1>1, <1>2 DEF Next, Execute

(* The values, errors and chi^2 which the msr-file gets stem from one and  *)
(* the same minimum, whatever the order of the commands and wherever they  *)
(* fail.                                                                   *)
THEOREM OneMinimum == Spec => []ResultsOfOneMinimum
<1>1. Init => ResultsOfOneMinimum
  BY InitOneMinimum
<1>2. TypeOK /\ ResultsOfOneMinimum /\ [Next]_vars => ResultsOfOneMinimum'
  <2> SUFFICES ASSUME TypeOK, ResultsOfOneMinimum, [Next]_vars
               PROVE  ResultsOfOneMinimum'
    OBVIOUS
  <2>1. CASE Minimize \/ Hesse \/ Minos
    BY <2>1, MinimizeOneMinimum, HesseOneMinimum, MinosOneMinimum
  <2>2. CASE Next /\ ~(Minimize \/ Hesse \/ Minos)
    BY <2>2, OthersOneMinimum DEF ResultsOfOneMinimum
  <2>3. CASE UNCHANGED vars
    BY <2>3 DEF ResultsOfOneMinimum, vars, msrParams, statVars
  <2> QED
    BY <2>1, <2>2, <2>3
<1> QED
  BY <1>1, <1>2, TypeCorrect, PTL DEF Spec

-----------------------------------------------------------------------------
(* While the block is checked, nothing has run.                            *)

Untouched ==
  /\ value = 0 /\ output = <<Stale>> /\ fitTime = Orig /\ fitBins = Orig
  /\ \A p \in Params : step[p].by \in {"file", "zero"}

RejectInv ==
  /\ pc \in {"check", "checked"} => Untouched
  /\ (\E i \in DOMAIN lines : Rejected(lines[i])) =>
       pc \in {"check", "checked", "done"} /\ ~fIsValid /\ Untouched

LEMMA CheckLineReject ==
  ASSUME TypeOK, RejectInv, CheckLine
  PROVE  RejectInv'
<1>1. Untouched'
  BY DEF CheckLine, RejectInv, Untouched, msrParams, rangeVars, saveVars
<1>2. PICK l \in Lines : /\ lines' = Append(lines, l)
                         /\ fIsValid' = StillValid(l)
                         /\ pc' \in {pc, "checked"}
  BY DEF CheckLine
<1>3. pc = "check"
  BY DEF CheckLine
<1>4. ASSUME NEW i \in DOMAIN lines', Rejected(lines'[i]) PROVE ~fIsValid'
  <2>1. CASE i \in DOMAIN lines
    <3>1. lines'[i] = lines[i]
      BY <1>2, <2>1 DEF TypeOK, BlockTypeOK
    <3> QED
      BY <1>2, <1>4, <2>1, <3>1 DEF RejectInv, StillValid
  <2>2. CASE i \notin DOMAIN lines
    <3>1. lines'[i] = l
      BY <1>2, <1>4, <2>2 DEF TypeOK, BlockTypeOK
    <3> QED
      BY <1>2, <1>4, <3>1 DEF StillValid
  <2> QED
    BY <2>1, <2>2
<1> QED
  BY <1>1, <1>2, <1>3, <1>4 DEF RejectInv, Rejected

(* If the check rejects any line of the block, no command runs.            *)
THEOREM RejectedNothing == Spec => []RejectedBlockRunsNothing
<1>1. Init => RejectInv
  BY DEF Init, RejectInv, Untouched, Zero, Stale
<1>2. TypeOK /\ RejectInv /\ [Next]_vars => RejectInv'
  <2> SUFFICES ASSUME TypeOK, RejectInv, [Next]_vars
               PROVE  RejectInv'
    OBVIOUS
  <2>1. CASE CheckLine
    BY <2>1, CheckLineReject
  <2>2. CASE EndCheck
    BY <2>2 DEF EndCheck, RejectInv, Rejected, Untouched, msrParams, rangeVars,
                saveVars
  <2>3. CASE UNCHANGED vars
    BY <2>3 DEF RejectInv, Rejected, Untouched, vars, checkVars, msrParams,
                rangeVars, saveVars
  <2>4. CASE CalcChisqOnly \/ StartFit \/ Execute \/ EndFit
    <3>1. pc \in {"ready", "exec"} /\ lines' = lines
      BY <2>4, ExecuteControl DEF CalcChisqOnly, StartFit, EndFit, checkVars
    <3>2. pc' \notin {"check", "checked"}
      BY <2>4, ExecuteControl DEF CalcChisqOnly, StartFit, EndFit, Finish
    <3> QED
      BY <3>1, <3>2 DEF RejectInv, Rejected
  <2> QED
    BY <2>1, <2>2, <2>3, <2>4 DEF Next, Terminated
<1>3. RejectInv => RejectedBlockRunsNothing
  BY DEF RejectInv, RejectedBlockRunsNothing, Untouched
<1> QED
  BY <1>1, <1>2, <1>3, TypeCorrect, PTL DEF Spec

-----------------------------------------------------------------------------
(* The fit range of the runs.  Until the first command runs it is the one  *)
(* of the msr-file, in time and in bins.                                   *)

BeforeFit ==
  pc \in {"check", "checked", "ready"} =>
    k = 1 /\ fitTime = Orig /\ fitBins = Orig

LEMMA InitBeforeFit == Init => BeforeFit
BY DEF Init, BeforeFit

LEMMA NextBeforeFit == BeforeFit /\ [Next]_vars => BeforeFit'
<1> SUFFICES ASSUME BeforeFit, [Next]_vars PROVE BeforeFit'
  OBVIOUS
<1>1. CASE CheckLine \/ EndCheck
  BY <1>1 DEF CheckLine, EndCheck, BeforeFit, rangeVars
<1>2. CASE CalcChisqOnly \/ StartFit \/ EndFit
  BY <1>2 DEF CalcChisqOnly, StartFit, EndFit, Finish, BeforeFit
<1>3. CASE Execute
  BY <1>3, ExecuteControl DEF BeforeFit
<1>4. CASE UNCHANGED vars
  BY <1>4 DEF BeforeFit, vars, rangeVars
<1> QED
  BY <1>1, <1>2, <1>3, <1>4 DEF Next, Terminated

(* When the fit starts, no command has been executed; a command which does *)
(* not end the fit joins the executed ones as the last of them.            *)
LEMMA NoneExecuted ==
  ASSUME BlockTypeOK, BeforeFit, StartFit
  PROVE  Executed' = {} /\ Commanded' = Orig
<1>1. k' = 1 /\ cmdList' = cmdList
  BY DEF StartFit, BeforeFit, checkVars
<1>2. Executed' = {}
  BY <1>1 DEF Executed, BlockTypeOK
<1> QED
  BY <1>2 DEF Commanded

LEMMA OneMoreExecuted ==
  ASSUME BlockTypeOK, Execute, pc' = "exec"
  PROVE  /\ Executed' = Executed \cup {k}
         /\ k \notin Executed
         /\ \A j \in Executed : j \in Nat /\ j < k
         /\ \A j : CmdAt(j)' = CmdAt(j)
         /\ Cmd = CmdAt(k)
         /\ k \in Nat /\ UNCHANGED fSectorFlag
<1>1. pc = "exec" /\ UNCHANGED checkVars
  BY ExecuteControl
<1>2. k \in DOMAIN cmdList
  <2>1. k <= Len(cmdList)
    BY DEF Execute, Executes, Minimize, Hesse, Minos, Scan, Contours, Other,
           FitRange, Fix, Release, Save, Crash
  <2> QED
    BY <2>1 DEF BlockTypeOK
<1>3. k' = k + 1
  BY <1>1 DEF Execute, Minimize, Hesse, Minos, Scan, Contours, Other,
         FitRange, Fix, Release, Save, Crash, Fails, Finish, Continue
<1>4. k \in Nat /\ Executed = {i \in DOMAIN cmdList : i < k}
  BY <1>1 DEF BlockTypeOK, Executed
<1>5. Executed' = {i \in DOMAIN cmdList : i < k + 1}
  BY <1>1, <1>3 DEF Executed, checkVars
<1>6. DOMAIN cmdList \subseteq Nat
  BY DEF BlockTypeOK
<1>7. Executed' = Executed \cup {k}
  BY <1>2, <1>4, <1>5, <1>6
<1> QED
  BY <1>1, <1>4, <1>6, <1>7 DEF CmdAt, Cmd, checkVars

(* Of the commands which go on with the next one, only FIT_RANGE and a     *)
(* SAVE over the sectors change the fit range in time.                     *)
LEMMA RangeAfterCommand ==
  ASSUME Execute, pc' = "exec", RunType # "nonMusr"
  PROVE  \/ /\ Cmd.cmd \in Minimizers
            /\ fitTime' = fitTime /\ fitBins' = fitTime
         \/ /\ Cmd.cmd = "FIT_RANGE"
            /\ \E r \in RangesRead :
                 fitTime' = r /\ fitBins' = (IF Cmd.bins THEN fitBins ELSE r)
         \/ /\ Cmd.cmd = "SAVE" /\ fSectorFlag
            /\ fitTime' = SectorRange /\ fitBins' = SectorRange
         \/ /\ Cmd.cmd = "SAVE"
            /\ RunType = "singleHisto" \/ NoOfRuns > 1
            /\ fitTime' = fitTime /\ fitBins' = fitTime
         \/ /\ Cmd.cmd = "SAVE"
            /\ RunType # "singleHisto" /\ ~(NoOfRuns > 1)
            /\ UNCHANGED rangeVars
         \/ /\ Cmd.cmd \notin Minimizers \cup {"FIT_RANGE", "SAVE"}
            /\ UNCHANGED rangeVars
<1> USE DEF Executes, Fails, Finish
<1>1. CASE Minimize
  BY <1>1 DEF Minimize, GetNoOfFitBins
<1>2. CASE Hesse \/ Minos \/ Scan \/ Contours \/ Other
  BY <1>2 DEF Hesse, Minos, Scan, Contours, Other, Minimizers
<1>3. CASE Fix \/ Release
  BY <1>3 DEF Fix, Release, Minimizers
<1>4. CASE FitRange
  <2>1. PICK r \in RangesRead :
          IF Cmd.bins THEN SetFitRangeBin(r) ELSE SetFitRange(r)
    BY <1>4 DEF FitRange
  <2>2. fitTime' = r /\ fitBins' = (IF Cmd.bins THEN fitBins ELSE r)
    BY <2>1 DEF SetFitRange, SetFitRangeBin
  <2> QED
    BY <1>4, <2>2 DEF FitRange
<1>5. CASE Save
  <2>1. PrepareSector /\ Cmd.cmd = "SAVE"
    BY <1>5 DEF Save
  <2> QED
    BY <2>1 DEF PrepareSector, SetFitRange, GetNoOfFitBins
<1>6. CASE Crash
  BY <1>6 DEF Crash
<1> QED
  BY <1>1, <1>2, <1>3, <1>4, <1>5, <1>6 DEF Execute

(* The other steps do not stay in the loop over the commands.              *)
LEMMA ExecOnlyByExecute ==
  ASSUME Next, pc' = "exec", pc = "exec", ~Execute
  PROVE  UNCHANGED vars
BY DEF Next, CheckLine, EndCheck, CalcChisqOnly, StartFit, EndFit, Finish,
       Terminated

LEMMA ExecOnlyByStart ==
  ASSUME Next, pc' = "exec", pc # "exec"
  PROVE  StartFit
BY ExecuteControl DEF Next, CheckLine, EndCheck, CalcChisqOnly, EndFit,
   Finish, Terminated, vars

LEMMA NextBinsFollow ==
  ASSUME BlockTypeOK, BeforeFit, BinsFollowRange, [Next]_vars
  PROVE  BinsFollowRange'
<1> SUFFICES ASSUME pc' = "exec", RunType # "nonMusr", fitBins' # fitTime'
             PROVE  BinsFollowRange'
  BY DEF BinsFollowRange
<1>1. CASE Execute
  <2>1. PICK n \in Nat :
          /\ n = k /\ CmdAt(n)' = Cmd
          /\ Executed' = Executed \cup {n} /\ \A j \in Executed : j \in Nat /\ j < n
          /\ \A j : CmdAt(j)' = CmdAt(j)
    BY <1>1, OneMoreExecuted
  <2>2. CASE Cmd.cmd = "FIT_RANGE" /\ Cmd.bins
    <3>1. /\ n \in Executed' /\ RangeSet(n)' /\ CmdAt(n)'.bins
          /\ \A j \in Executed' : ~(j > n)
      BY <2>1, <2>2 DEF RangeSet
    <3> QED
      BY <2>1, <3>1 DEF BinsFollowRange
  <2>3. CASE ~(Cmd.cmd = "FIT_RANGE" /\ Cmd.bins)
    <3>1. /\ UNCHANGED rangeVars /\ Cmd.cmd \notin Minimizers \cup {"FIT_RANGE"}
          /\ Cmd.cmd = "SAVE" => RunType # "singleHisto" /\ ~(NoOfRuns > 1)
      BY <1>1, <2>3, RangeAfterCommand DEF Minimizers
    <3>2. NoOfRuns > 1 \/ NoOfRuns = 1
      OBVIOUS
    <3>3. pc = "exec" /\ fitBins # fitTime
      BY <1>1, <3>1, ExecuteControl DEF rangeVars
    <3>4. PICK i \in Executed :
            /\ RangeSet(i) /\ CmdAt(i).bins
            /\ \A j \in Executed : j > i =>
                 /\ ~(CmdAt(j).cmd = "FIT_RANGE" /\ ~CmdAt(j).bins)
                 /\ CmdAt(j).cmd \notin Minimizers
                 /\ CmdAt(j).cmd = "SAVE" => RunType # "singleHisto" /\ NoOfRuns = 1
      BY <3>3 DEF BinsFollowRange
    <3>5. /\ i \in Executed' /\ RangeSet(i)' /\ CmdAt(i)'.bins
          /\ \A j \in Executed' : j > i =>
               /\ ~(CmdAt(j)'.cmd = "FIT_RANGE" /\ ~CmdAt(j)'.bins)
               /\ CmdAt(j)'.cmd \notin Minimizers
               /\ CmdAt(j)'.cmd = "SAVE" => RunType # "singleHisto" /\ NoOfRuns = 1
      BY <2>1, <3>1, <3>2, <3>4 DEF RangeSet
    <3> QED
      BY <3>5 DEF BinsFollowRange
  <2> QED
    BY <2>2, <2>3
<1>2. CASE StartFit
  BY <1>2 DEF StartFit, BeforeFit, rangeVars
<1>3. CASE UNCHANGED vars
  <2>1. UNCHANGED <<pc, fitBins, fitTime, lines, cmdList, k>>
    BY <1>3 DEF vars, rangeVars, checkVars
  <2> QED
    BY <2>1 DEF BinsFollowRange, Executed, RangeSet, CmdAt
<1> QED
  BY <1>1, <1>2, <1>3, ExecOnlyByExecute, ExecOnlyByStart

(* The data loops run over other bins than those of the fit range only     *)
(* after a FIT_RANGE in bins, and only until the number of fitted bins is  *)
(* asked for: no minimum and no SAVE leaves the bins stale.                *)
THEOREM BinsFollow == Spec => []BinsFollowRange
<1>1. Init => BeforeFit /\ BinsFollowRange
  BY InitBeforeFit DEF Init, BinsFollowRange
<1>2. TypeOK /\ BeforeFit /\ BinsFollowRange /\ [Next]_vars
        => BeforeFit' /\ BinsFollowRange'
  BY NextBeforeFit, NextBinsFollow DEF TypeOK
<1> QED
  BY <1>1, <1>2, TypeCorrect, PTL DEF Spec

(* The range a block asks for last: a FIT_RANGE which has just been        *)
(* executed decides it, any other command leaves it as it was.             *)
LEMMA CommandedAfter ==
  ASSUME BlockTypeOK, Execute, pc' = "exec"
  PROVE  Commanded' = IF Cmd.cmd = "FIT_RANGE" THEN Cmd.range ELSE Commanded
<1>1. PICK n \in Nat :
        /\ n = k /\ CmdAt(n)' = Cmd
        /\ Executed' = Executed \cup {n} /\ \A j \in Executed : j \in Nat /\ j < n
        /\ \A j : CmdAt(j)' = CmdAt(j)
  BY OneMoreExecuted
<1>2. \A j : RangeSet(j)' = RangeSet(j)
  BY <1>1 DEF RangeSet
<1>3. PICK S, T : S = {i \in Executed : RangeSet(i)}
                  /\ T = {i \in Executed' : RangeSet(i)'}
  OBVIOUS
<1>4. PICK l, m : /\ l = CHOOSE i \in S : IsLast(i, S)
                  /\ m = CHOOSE i \in T : IsLast(i, T)
  OBVIOUS
<1>5. /\ Commanded = IF S = {} THEN Orig ELSE CmdAt(l).range
      /\ Commanded' = IF T = {} THEN Orig ELSE CmdAt(m)'.range
  BY <1>3, <1>4 DEF Commanded, IsLast
<1>6. CASE Cmd.cmd = "FIT_RANGE"
  <2>1. T = S \cup {n}
    BY <1>1, <1>2, <1>3, <1>6 DEF RangeSet
  <2>2. n \in T /\ \A i \in T : IsLast(i, T) <=> i = n
    BY <1>1, <1>3, <2>1 DEF IsLast
  <2>3. m = n
    BY <1>4, <2>2
  <2> QED
    BY <1>1, <1>5, <1>6, <2>2, <2>3
<1>7. CASE Cmd.cmd # "FIT_RANGE"
  <2>1. T = S
    BY <1>1, <1>2, <1>3, <1>7 DEF RangeSet
  <2> QED
    BY <1>1, <1>4, <1>5, <1>7, <2>1
<1> QED
  BY <1>6, <1>7

LEMMA NextRangeLeaks ==
  ASSUME BlockTypeOK, BeforeFit, RangeLeaksOnlyBySector, [Next]_vars
  PROVE  RangeLeaksOnlyBySector'
<1> SUFFICES ASSUME pc' = "exec", RunType # "nonMusr", fitTime' # Commanded'
             PROVE  RangeLeaksOnlyBySector'
  BY DEF RangeLeaksOnlyBySector
<1>1. CASE Execute
  <2>1. PICK n \in Nat :
          /\ n = k /\ CmdAt(n)' = Cmd
          /\ Executed' = Executed \cup {n} /\ \A j \in Executed : j \in Nat /\ j < n
          /\ \A j : CmdAt(j)' = CmdAt(j)
          /\ fSectorFlag' = fSectorFlag
    BY <1>1, OneMoreExecuted
  <2>2. Commanded' = IF Cmd.cmd = "FIT_RANGE" THEN Cmd.range ELSE Commanded
    BY <1>1, CommandedAfter
  <2>3. CASE \/ Cmd.cmd = "SAVE" /\ fSectorFlag
             \/ Cmd.cmd = "FIT_RANGE" /\ Cmd.comment
    <3>1. /\ n \in Executed'
          /\ \/ CmdAt(n)'.cmd = "SAVE" /\ fSectorFlag'
             \/ RangeSet(n)' /\ CmdAt(n)'.comment
          /\ \A j \in Executed' : ~(j > n)
      BY <2>1, <2>3 DEF RangeSet
    <3> QED
      BY <2>1, <3>1 DEF RangeLeaksOnlyBySector
  <2>4. CASE ~(\/ Cmd.cmd = "SAVE" /\ fSectorFlag
               \/ Cmd.cmd = "FIT_RANGE" /\ Cmd.comment)
    <3>1. Cmd.cmd # "FIT_RANGE" /\ fitTime' = fitTime
      <4>1. Cmd.cmd = "FIT_RANGE" => RangesRead = {Cmd.range}
        BY <2>4 DEF RangesRead
      <4> QED
        BY <1>1, <2>2, <2>4, <4>1, RangeAfterCommand DEF Minimizers, rangeVars
    <3>2. pc = "exec" /\ fitTime # Commanded
      BY <1>1, <2>2, <3>1, ExecuteControl
    <3>3. PICK i \in Executed :
            /\ \/ CmdAt(i).cmd = "SAVE" /\ fSectorFlag
               \/ RangeSet(i) /\ CmdAt(i).comment
            /\ \A j \in Executed : j > i => ~(RangeSet(j) /\ ~CmdAt(j).comment)
      BY <3>2 DEF RangeLeaksOnlyBySector
    <3>4. /\ i \in Executed'
          /\ \/ CmdAt(i)'.cmd = "SAVE" /\ fSectorFlag'
             \/ RangeSet(i)' /\ CmdAt(i)'.comment
          /\ \A j \in Executed' : j > i => ~(RangeSet(j)' /\ ~CmdAt(j)'.comment)
      BY <2>1, <3>1, <3>3 DEF RangeSet
    <3> QED
      BY <3>4 DEF RangeLeaksOnlyBySector
  <2> QED
    BY <2>3, <2>4
<1>2. CASE StartFit
  BY <1>2, NoneExecuted DEF StartFit, BeforeFit, rangeVars
<1>3. CASE UNCHANGED vars
  <2>1. UNCHANGED <<pc, fitTime, lines, cmdList, k, fSectorFlag>>
    BY <1>3 DEF vars, rangeVars, checkVars
  <2>2. Commanded' = Commanded
    <3>1. PICK S, T : S = {i \in Executed : RangeSet(i)}
                      /\ T = {i \in Executed' : RangeSet(i)'}
      OBVIOUS
    <3>2. PICK l, m : /\ l = CHOOSE i \in S : IsLast(i, S)
                      /\ m = CHOOSE i \in T : IsLast(i, T)
      OBVIOUS
    <3>3. /\ Commanded = IF S = {} THEN Orig ELSE CmdAt(l).range
          /\ Commanded' = IF T = {} THEN Orig ELSE CmdAt(m)'.range
      BY <3>1, <3>2 DEF Commanded, IsLast
    <3>4. T = S /\ CmdAt(l)' = CmdAt(l)
      BY <2>1, <3>1 DEF Executed, RangeSet, CmdAt
    <3> QED
      BY <3>2, <3>3, <3>4
  <2> QED
    BY <2>1, <2>2 DEF RangeLeaksOnlyBySector, Executed, RangeSet, CmdAt
<1> QED
  BY <1>1, <1>2, <1>3, ExecOnlyByExecute, ExecOnlyByStart

(* The fit range is the one the block asked for last, unless a SAVE has    *)
(* walked through the sectors or a comment has been read as part of a      *)
(* FIT_RANGE, and until the next FIT_RANGE which has none.                 *)
THEOREM RangeLeaks == Spec => []RangeLeaksOnlyBySector
<1>1. Init => BeforeFit /\ RangeLeaksOnlyBySector
  BY InitBeforeFit DEF Init, RangeLeaksOnlyBySector
<1>2. TypeOK /\ BeforeFit /\ RangeLeaksOnlyBySector /\ [Next]_vars
        => BeforeFit' /\ RangeLeaksOnlyBySector'
  BY NextBeforeFit, NextRangeLeaks DEF TypeOK
<1> QED
  BY <1>1, <1>2, TypeCorrect, PTL DEF Spec

-----------------------------------------------------------------------------
(* A session runs the fitter: what holds of the fitter alone holds in it.  *)
LEMMA SessionStep == [SessionNext]_allVars => [Next]_vars
BY DEF SessionNext, Report, allVars

(* main adds nothing to what the fitter does: every session is a run of    *)
(* Fitter, whatever main reports and copies after it.                      *)
THEOREM SessionIsFit == SessionSpec => Spec
<1>1. SessionInit => Init
  BY DEF SessionInit
<1> QED
  BY <1>1, SessionStep, PTL DEF SessionSpec, Spec

-----------------------------------------------------------------------------
(* What fConverged says of the fit.                                        *)

(* Every minimum sets it, and a SCAN does too.                             *)
ConvergedInv ==
  /\ pc \in {"check", "checked", "ready"} => ~fConverged
  /\ fcnMin = NoMin \/ fConverged
  /\ fConverged => fcnMin # NoMin \/ Ran("SCAN")

(* A command that has run stays one that has run.                          *)
LEMMA RanStays ==
  ASSUME BlockTypeOK, Execute \/ EndFit, NEW c, Ran(c)
  PROVE  Ran(c)'
<1>1. UNCHANGED checkVars /\ (k' = k \/ k' = k + 1)
  BY ExecuteControl DEF EndFit, Finish
<1>2. PICK i \in DOMAIN cmdList : i < k /\ CmdAt(i).cmd = c
  BY DEF Ran
<1>3. i \in Nat /\ k \in Nat
  BY <1>2 DEF BlockTypeOK
<1>4. i < k' /\ CmdAt(i)' = CmdAt(i)
  BY <1>1, <1>2, <1>3 DEF CmdAt, checkVars
<1> QED
  BY <1>1, <1>2, <1>4 DEF Ran, checkVars

LEMMA ScanConverged ==
  ASSUME BlockTypeOK, ConvergedInv, Scan
  PROVE  ConvergedInv'
<1>1. PICK n \in Nat : n = k
  BY DEF BlockTypeOK
<1>2. /\ n \in DOMAIN cmdList /\ CmdAt(n).cmd = "SCAN"
      /\ k' = n + 1 /\ UNCHANGED <<cmdList, lines, fcnMin, pc>> /\ fConverged'
      /\ pc = "exec"
  BY <1>1 DEF Scan, Executes, Continue, BlockTypeOK, CmdAt, Cmd, checkVars
<1>3. CmdAt(n)'.cmd = "SCAN" /\ n < k'
  BY <1>1, <1>2 DEF CmdAt
<1>4. Ran("SCAN")'
  BY <1>2, <1>3 DEF Ran
<1> QED
  BY <1>2, <1>4 DEF ConvergedInv

LEMMA MinimizeConverged ==
  ASSUME BlockTypeOK, ParamTypeOK, ConvergedInv, Minimize
  PROVE  ConvergedInv'
<1>1. CASE Fails(FALSE)
  BY <1>1, RanStays DEF Fails, Finish, Minimize, Execute, ConvergedInv, userParams
<1>2. CASE ~Fails(FALSE)
  <2>1. /\ fConverged' = TRUE /\ fcnMin'.id = fcnMin.id + 1 /\ fcnMin.id \in Nat
        /\ pc = "exec" /\ UNCHANGED pc
    <3>1. /\ fcnMin' = [id |-> fcnMin.id + 1, bins |-> fitBins,
                        held |-> fixed \cup Consts]
          /\ fConverged' = TRUE /\ pc = "exec" /\ UNCHANGED pc
      BY <1>2, Zenon DEF Minimize, Executes
    <3> QED
      BY <3>1 DEF ParamTypeOK, Min
  <2>2. fcnMin' # NoMin
    BY <2>1 DEF NoMin
  <2> QED
    BY <2>1, <2>2 DEF ConvergedInv
<1> QED
  BY <1>1, <1>2

LEMMA NextConverged ==
  ASSUME TypeOK, ConvergedInv, [Next]_vars
  PROVE  ConvergedInv'
<1>1. CASE CheckLine \/ EndCheck
  BY <1>1 DEF CheckLine, EndCheck, ConvergedInv
<1>2. CASE CalcChisqOnly \/ StartFit
  BY <1>2 DEF CalcChisqOnly, StartFit, ConvergedInv
<1>3. CASE Minimize \/ Scan
  BY <1>3, MinimizeConverged, ScanConverged DEF TypeOK
<1>4. CASE Hesse \/ Minos \/ Contours \/ Other \/ FitRange \/ Fix \/ Release
           \/ Save \/ Crash \/ EndFit
  <2>1. UNCHANGED <<fcnMin, fConverged>> /\ pc = "exec"
        /\ pc' \in {"exec", "done", "crashed"}
    BY <1>4 DEF Hesse, Minos, Contours, Other, FitRange, Fix, Release, Save,
                Crash, EndFit, Fails, Finish, Continue, Executes
  <2>2. Ran("SCAN") => Ran("SCAN")'
    BY <1>4, RanStays DEF TypeOK, Execute
  <2> QED
    BY <2>1, <2>2 DEF ConvergedInv
<1>5. CASE UNCHANGED vars
  BY <1>5 DEF ConvergedInv, Ran, CmdAt, vars, checkVars
<1> QED
  BY <1>1, <1>2, <1>3, <1>4, <1>5 DEF Next, Execute, Terminated

LEMMA FitConverged == Spec => []ConvergedInv
<1>1. Init => ConvergedInv
  BY DEF Init, ConvergedInv
<1> QED
  BY <1>1, NextConverged, TypeCorrect, PTL DEF Spec

-----------------------------------------------------------------------------
(* What MINUIT2.OUTPUT holds.                                              *)

FromThisFit(sections) == \A i \in DOMAIN sections : sections[i] \in 1..value

(* A second SAVE follows a first one which has written.                    *)
OutputInv ==
  /\ fcnMin = NoMin \/ fcnMin.id # 0
  /\ output = <<Stale>> \/ FromThisFit(output)
  /\ pc = "exec" /\ ~firstSave => FromThisFit(output)
  /\ pc \in {"check", "checked", "ready"} => firstSave

LEMMA SaveOutput ==
  ASSUME TypeOK, ResultsOfOneMinimum, OutputInv, Save
  PROVE  OutputInv'
<1>1. CASE fcnMin = NoMin
  BY <1>1 DEF Save, Fails, Finish, OutputInv, FromThisFit, userParams,
              msrParams, saveVars
<1>2. CASE fcnMin # NoMin
  <2>1. value \in 1..value /\ value = fcnMin.id /\ output \in Seq(Nat)
    BY <1>2 DEF OutputInv, ResultsOfOneMinimum, TypeOK, ParamTypeOK,
                ResultTypeOK
  <2>2. UNCHANGED <<fcnMin, value>> /\ pc = "exec" /\ firstSave' = FALSE
    BY <1>2 DEF Save, Executes, msrParams
  <2>3. CASE output' = Saved /\ Continue
    <3>1. FromThisFit(Saved)
      <4>1. CASE firstSave
        BY <2>1, <4>1 DEF Saved, FromThisFit
      <4>2. CASE ~firstSave
        <5>1. FromThisFit(output) /\ Saved = Append(output, fcnMin.id)
          BY <2>2, <4>2 DEF OutputInv, Saved
        <5>2. ASSUME NEW i \in DOMAIN Saved PROVE Saved[i] \in 1..value
          <6>1. CASE i \in DOMAIN output
            BY <2>1, <5>1, <5>2, <6>1, AppendProperties DEF FromThisFit
          <6>2. CASE i \notin DOMAIN output
            BY <2>1, <5>1, <5>2, <6>2, AppendProperties
          <6> QED
            BY <6>1, <6>2
        <5> QED
          BY <5>2 DEF FromThisFit
      <4> QED
        BY <4>1, <4>2
    <3> QED
      BY <2>2, <2>3, <3>1 DEF OutputInv, FromThisFit, Continue
  <2>4. CASE Finish(fIsValid) /\ UNCHANGED output
    BY <2>2, <2>4 DEF OutputInv, FromThisFit, Finish
  <2> QED
    BY <1>2, <2>3, <2>4 DEF Save
<1> QED
  BY <1>1, <1>2

LEMMA MinimizeOutput ==
  ASSUME TypeOK, ResultsOfOneMinimum, OutputInv, Minimize
  PROVE  OutputInv'
<1>1. CASE Fails(FALSE)
  BY <1>1 DEF Fails, Finish, OutputInv, FromThisFit, msrParams, saveVars
<1>2. CASE ~Fails(FALSE)
  <2>1. /\ value' = fcnMin'.id /\ fcnMin'.id = fcnMin.id + 1
        /\ UNCHANGED <<pc, output, firstSave>> /\ pc = "exec"
    <3>1. /\ fcnMin' = [id |-> fcnMin.id + 1, bins |-> fitBins,
                        held |-> fixed \cup Consts]
          /\ value' = fcnMin'.id /\ UNCHANGED <<pc, saveVars>> /\ pc = "exec"
      BY <1>2, Zenon DEF Minimize, Executes
    <3> QED
      BY <3>1 DEF saveVars
  <2>2. value \in Nat /\ value' = value + 1
    BY <2>1 DEF ResultsOfOneMinimum, TypeOK, ParamTypeOK
  <2>3. FromThisFit(output) => FromThisFit(output)'
    BY <2>1, <2>2 DEF FromThisFit
  <2>4. fcnMin'.id # 0
    BY <2>1, <2>2
  <2> QED
    BY <2>1, <2>3, <2>4 DEF OutputInv
<1> QED
  BY <1>1, <1>2

LEMMA NextOutput ==
  ASSUME TypeOK, ResultsOfOneMinimum, OutputInv, [Next]_vars
  PROVE  OutputInv'
<1>1. CASE Minimize \/ Save
  BY <1>1, MinimizeOutput, SaveOutput
<1>2. CASE Next /\ ~(Minimize \/ Save)
  <2>1. UNCHANGED <<fcnMin, value, firstSave, output>>
    BY <1>2 DEF Next, Execute, CheckLine, EndCheck, CalcChisqOnly, StartFit,
                EndFit, Hesse, Minos, Scan, Contours, Other, FitRange, Fix,
                Release, Crash, Fails, Terminated, vars, userParams, msrParams,
                saveVars
  <2>2. /\ pc' = "exec" => pc \in {"ready", "exec"}
        /\ pc' \in {"check", "checked", "ready"} =>
             pc \in {"check", "checked", "ready"}
    <3>1. CASE Execute
      BY <3>1, ExecuteControl
    <3>2. CASE ~Execute
      BY <1>2, <3>2 DEF Next, CheckLine, EndCheck, CalcChisqOnly, StartFit,
                        EndFit, Finish, Terminated, vars
    <3> QED
      BY <3>1, <3>2
  <2> QED
    BY <2>1, <2>2 DEF OutputInv, FromThisFit
<1>3. CASE UNCHANGED vars
  BY <1>3 DEF OutputInv, FromThisFit, vars, msrParams, saveVars
<1> QED
  BY <1>1, <1>2, <1>3

LEMMA FitOutput == Spec => []OutputInv
<1>1. Init => OutputInv
  BY DEF Init, OutputInv
<1> QED
  BY <1>1, NextOutput, TypeCorrect, OneMinimum, PTL DEF Spec

-----------------------------------------------------------------------------
(* The report.  Once it is made, nothing changes any more.                 *)

ReportInv ==
  /\ report.made \in BOOLEAN
  /\ ~report.made => report = NoReport /\ kept = <<>>
  /\ report.written /\ ~BlockRejected => report.converged = fConverged
  /\ KeptIsOfOneSession

LEMMA SessionReport ==
  ASSUME OutputInv, ReportInv, [SessionNext]_allVars
  PROVE  ReportInv'
<1>1. CASE Report
  <2>1. /\ report' = [made |-> TRUE, written |-> WritesLog, converged |-> Converged]
        /\ kept' = IF keepMn2 /\ WritesLog THEN output ELSE kept
        /\ UNCHANGED vars /\ kept = <<>>
    BY <1>1 DEF Report, ReportInv
  <2>2. WritesLog /\ ~BlockRejected => Converged = fConverged
    BY DEF WritesLog, Converged
  <2>3. fConverged' = fConverged /\ BlockRejected' = BlockRejected /\ value' = value
    BY <2>1 DEF vars, checkVars, msrParams, BlockRejected, Rejected
  <2>4. KeptIsOfOneSession'
    BY <2>1, <2>3 DEF KeptIsOfOneSession, OutputInv, FromThisFit
  <2> QED
    BY <2>1, <2>2, <2>3, <2>4 DEF ReportInv
<1>2. CASE ~report.made /\ Next /\ UNCHANGED sessionVars
  <2>1. report' = NoReport /\ kept' = <<>>
    BY <1>2 DEF ReportInv, sessionVars
  <2> QED
    BY <2>1 DEF ReportInv, NoReport, KeptIsOfOneSession
<1>3. CASE UNCHANGED allVars
  BY <1>3 DEF ReportInv, KeptIsOfOneSession, BlockRejected, Rejected, allVars,
              sessionVars, vars, checkVars, msrParams
<1> QED
  BY <1>1, <1>2, <1>3 DEF SessionNext

LEMMA SessionReported == SessionSpec => []ReportInv
<1>1. SessionInit => ReportInv
  BY DEF SessionInit, ReportInv, NoReport, KeptIsOfOneSession
<1> QED
  BY <1>1, SessionReport, SessionIsFit, FitOutput, PTL DEF SessionSpec

(* What -k keeps is the MINUIT2.OUTPUT of an earlier session as a whole,   *)
(* or every section of it is that of a minimum of this session.            *)
THEOREM KeptOfOneSession == SessionSpec => []KeptIsOfOneSession
<1>1. ReportInv => KeptIsOfOneSession
  BY DEF ReportInv
<1> QED
  BY <1>1, SessionReported, PTL

(* The log calls a fit that has found a minimum converged, and, if no SCAN *)
(* has run, no other one: the chi^2 it reports is that of the values.      *)
THEOREM LogTells == SessionSpec => []LogTellsOfMinimum
<1>1. ReportInv /\ ConvergedInv /\ ResultsOfOneMinimum => LogTellsOfMinimum
  BY DEF ReportInv, ConvergedInv, ResultsOfOneMinimum, LogTellsOfMinimum
<1> QED
  BY <1>1, SessionReported, SessionIsFit, FitConverged, OneMinimum, PTL

-----------------------------------------------------------------------------
(* The loops of TheoryCache. *)

HIDE FitterAssumption DEF Params
USE TheoryCacheAssumption

LEMMA ChunkPositive == Chunk \in Nat \ {0}
<1>1. NoOfBins \div Procs \in Int
  OBVIOUS
<1> QED
  BY <1>1 DEF Chunk

LEMMA LastOfChunkInBins ==
  ASSUME NEW first \in Bins
  PROVE  LastOfChunk(first) \in Bins /\ LastOfChunk(first) >= first
BY ChunkPositive DEF LastOfChunk, Bins

LEMMA TheoryType ==
  ASSUME LoopTypeOK
  PROVE  theory.kind \in Kinds /\ theory.shift \in Int
BY DEF LoopTypeOK, Theory

LEMMA LoopTypeOKStep == LoopTypeOK /\ [LoopNext]_loopVars => LoopTypeOK'
<1> SUFFICES ASSUME LoopTypeOK, [LoopNext]_loopVars PROVE LoopTypeOK'
  OBVIOUS
<1> USE DEF LoopTypeOK, run, cache, loop
<1>1. CASE UNCHANGED loopVars
  BY <1>1 DEF loopVars
<1>2. CASE CalcChiSquare
  BY <1>2 DEF CalcChiSquare, Rebuilt, Bins
<1>3. ASSUME NEW t \in team, Thread(t) PROVE LoopTypeOK'
  <2>1. CASE TakeChunk(t)
    <3>1. next \in Bins
      BY <2>1 DEF TakeChunk, Bins
    <3>2. LastOfChunk(next) \in Bins
      BY <3>1, LastOfChunkInBins
    <3>3. next' \in 1..(NoOfBins + 1)
      BY <2>1, <3>2 DEF TakeChunk, Bins
    <3> QED
      BY <2>1, <3>1, <3>2, <3>3 DEF TakeChunk
  <2>2. CASE Compare(t)
    BY <2>2 DEF Compare
  <2>3. CASE StartRebuild(t)
    BY <2>3 DEF StartRebuild
  <2>4. CASE EndRebuild(t)
    <3>1. table' \in ParamSets \cup {Torn}
      BY <2>4 DEF EndRebuild, Rebuilt
    <3>2. /\ at' = [at EXCEPT ![t] = "value"] /\ at[t] = "rebuild"
          /\ UNCHANGED <<theory, team, call, calls, par, prev, next, bin, last, values, chisq>>
      BY <2>4 DEF EndRebuild, Rebuilding
    <3> QED
      BY <3>1, <3>2
  <2>5. CASE Sum(t)
    <3>1. bin[t] \in Bins
      BY <2>5 DEF Sum
    <3>2. Read(theory, Time[bin[t]], par, table) \in Value
      BY DEF Read, Value
    <3>3. values' \in [Bins -> Value \cup {None}]
      BY <2>5, <3>2 DEF Sum
    <3>4. bin[t] < last[t] => bin[t] + 1 \in Bins
      BY <3>1 DEF Bins
    <3> QED
      BY <2>5, <3>1, <3>3, <3>4 DEF Sum
  <2>6. CASE DataRace(t)
    BY <2>6 DEF DataRace
  <2> QED
    BY <1>3, <2>1, <2>2, <2>3, <2>4, <2>5, <2>6 DEF Thread
<1>4. CASE Return
  BY <1>4 DEF Return
<1> QED
  BY <1>1, <1>2, <1>3, <1>4 DEF LoopNext, LoopTerminated

(* The state keeps its type: in particular no thread is handed a bin       *)
(* outside of the fit range.                                               *)
THEOREM LoopTypeCorrect == LoopSpec => []LoopTypeOK
<1>1. LoopInit => LoopTypeOK
  BY DEF LoopInit, LoopTypeOK, Bins
<1> QED
  BY <1>1, LoopTypeOKStep, PTL DEF LoopSpec

-----------------------------------------------------------------------------
(* The inductive invariant. *)

(* Only the team works, and only during a call.                            *)
Sequential == \A t \in Threads : at[t] # "idle" => t \in team /\ call # "idle"

(* The table is the one of fPrevParam, unless it is being calculated.      *)
TableOfPrev ==
  prev \in ParamSets /\ Form[prev] = "integral" =>
    table = prev \/ \E t \in Threads : at[t] = "rebuild"

(* A thread calculates, and reads, the table of the parameters it is asked *)
(* for.                                                                    *)
OwnTable ==
  \A t \in Threads :
    /\ at[t] = "rebuild" => prev = par
    /\ at[t] = "value" /\ ReadsTable(theory, Time[bin[t]], par) => prev = par

(* Without a late shift the evaluation before the loop has left nothing to *)
(* calculate.                                                              *)
Early ==
  ~Late =>
    /\ \A t \in Threads : at[t] \in {"idle", "func", "value"}
    /\ call = "loop" /\ Consults(theory, WarmUpTime, par) => prev = par

CacheInv == LoopTypeOK /\ Sequential /\ TableOfPrev /\ OwnTable /\ Early

LEMMA ReadsConsults ==
  ASSUME LoopTypeOK, NEW time, NEW p \in ParamSets, ReadsTable(theory, time, p)
  PROVE  Consults(theory, time, p)
BY TheoryType DEF ReadsTable, Consults

(* Without a late shift what the loop compares was compared before it.     *)
LEMMA EarlyConsults ==
  ASSUME LoopTypeOK, ~Late, NEW time, NEW p \in ParamSets, Consults(theory, time, p)
  PROVE  Consults(theory, WarmUpTime, p)
BY TheoryType DEF Consults, Late, IsLate

LEMMA NextCacheInv == CacheInv /\ [LoopNext]_loopVars => CacheInv'
<1> SUFFICES ASSUME CacheInv, [LoopNext]_loopVars
             PROVE  (Sequential /\ TableOfPrev /\ OwnTable /\ Early)'
  BY LoopTypeOKStep DEF CacheInv
<1> USE DEF CacheInv, run, cache, loop
<1>1. CASE UNCHANGED loopVars
  BY <1>1 DEF loopVars, Sequential, TableOfPrev, OwnTable, Early, Late, IsLate,
              ReadsTable, Consults
<1>2. CASE CalcChiSquare
  <2>1. \A t \in Threads : at'[t] = "idle"
    BY <1>2 DEF CalcChiSquare, Sequential
  <2>2. TableOfPrev'
    BY <1>2 DEF CalcChiSquare, Sequential, TableOfPrev, Rebuilt
  <2>3. Early'
    BY <1>2, <2>1 DEF CalcChiSquare, Early, Late, NewParam, Consults
  <2> QED
    BY <2>1, <2>2, <2>3 DEF Sequential, OwnTable
<1>3. ASSUME NEW t \in team, Thread(t)
      PROVE  (Sequential /\ TableOfPrev /\ OwnTable /\ Early)'
  <2> USE DEF LoopTypeOK
  <2>1. CASE TakeChunk(t)
    BY <2>1 DEF TakeChunk, Sequential, TableOfPrev, OwnTable, Early, Late, IsLate,
                ReadsTable, Consults
  <2>2. CASE Compare(t)
    <3>1. Sequential' /\ TableOfPrev'
      BY <2>2 DEF Compare, Sequential, TableOfPrev
    <3>2. OwnTable'
      <4>1. at'[t] = "value" /\ ReadsTable(theory, Time[bin[t]], par) => prev = par
        BY <2>2, ReadsConsults DEF Compare, NewParam
      <4> QED
        BY <2>2, <4>1 DEF Compare, OwnTable, ReadsTable
    <3>3. ~Late => at'[t] = "value"
      BY <2>2, EarlyConsults DEF Compare, NewParam, Early
    <3>4. Early'
      BY <2>2, <3>3 DEF Compare, Early, Late, IsLate, Consults
    <3> QED
      BY <3>1, <3>2, <3>4
  <2>3. CASE StartRebuild(t)
    <3>1. Late
      BY <2>3 DEF StartRebuild, Early
    <3>2. Sequential' /\ TableOfPrev' /\ OwnTable'
      BY <2>3 DEF StartRebuild, Sequential, TableOfPrev, OwnTable
    <3> QED
      BY <2>3, <3>1, <3>2 DEF StartRebuild, Early, Late
  <2>4. CASE EndRebuild(t)
    <3>1. Late
      BY <2>4 DEF EndRebuild, Rebuilding, Early
    <3>2. prev = par
      BY <2>4 DEF EndRebuild, Rebuilding, OwnTable
    <3>3. table' = Rebuilt(par) \/ \E s \in Threads : s # t /\ at[s] = "rebuild"
      BY <2>4 DEF EndRebuild, Rebuilding
    <3>4. TableOfPrev'
      BY <2>4, <3>2, <3>3 DEF EndRebuild, TableOfPrev, Rebuilt
    <3>5. Sequential' /\ OwnTable'
      BY <2>4, <3>2 DEF EndRebuild, Sequential, OwnTable
    <3> QED
      BY <2>4, <3>1, <3>4, <3>5 DEF EndRebuild, Early, Late
  <2>5. CASE Sum(t)
    <3>1. at' \in [Threads -> {"idle", "func", "new", "rebuild", "value"}]
          /\ at'[t] \in {"idle", "func"}
          /\ \A s \in Threads \ {t} : at'[s] = at[s] /\ bin'[s] = bin[s]
      BY <2>5 DEF Sum
    <3> QED
      BY <2>5, <3>1 DEF Sum, Sequential, TableOfPrev, OwnTable, Early, Late, IsLate,
                        ReadsTable, Consults
  <2>6. CASE DataRace(t)
    BY <2>6 DEF DataRace, Sequential, TableOfPrev, OwnTable, Early, Late, IsLate
  <2> QED
    BY <1>3, <2>1, <2>2, <2>3, <2>4, <2>5, <2>6 DEF Thread
<1>4. CASE Return
  BY <1>4 DEF Return, Sequential, TableOfPrev, OwnTable, Early, Late, IsLate
<1> QED
  BY <1>1, <1>2, <1>3, <1>4 DEF LoopNext, LoopTerminated

LEMMA InitCacheInv == LoopInit => CacheInv
<1> SUFFICES ASSUME LoopInit PROVE CacheInv
  OBVIOUS
<1>1. LoopTypeOK
  BY DEF LoopInit, LoopTypeOK, Bins
<1> QED
  BY <1>1 DEF LoopInit, CacheInv, Sequential, TableOfPrev, OwnTable, Early

LEMMA CacheInvariant == LoopSpec => []CacheInv
BY InitCacheInv, NextCacheInv, PTL DEF LoopSpec

(* What is not thread-safe is done before the loop, for every theory but   *)
(* dynExpKTLF with a late shift.                                           *)
THEOREM NoRebuildInLoop == LoopSpec => []RebuiltBeforeLoop
<1>1. CacheInv => RebuiltBeforeLoop
  BY DEF CacheInv, Early, RebuiltBeforeLoop
<1> QED
  BY <1>1, CacheInvariant, PTL

-----------------------------------------------------------------------------
(* What the threads sum up. *)

LEMMA SumsExact ==
  ASSUME CacheInv, ThreadSafe, NEW t \in team, Sum(t)
  PROVE  /\ bin[t] \in Bins
         /\ values' = [values EXCEPT ![bin[t]] = Exact(theory, bin[t], par)]
<1>1. bin[t] \in Bins /\ at[t] = "value"
  BY DEF Sum, CacheInv, LoopTypeOK
<1>2. ReadsTable(theory, Time[bin[t]], par) => table = par
  <2> SUFFICES ASSUME ReadsTable(theory, Time[bin[t]], par) PROVE table = par
    OBVIOUS
  <2>1. prev = par /\ par \in ParamSets /\ Form[prev] = "integral"
    BY <1>1 DEF CacheInv, LoopTypeOK, OwnTable, ReadsTable
  <2>2. \A s \in Threads : at[s] # "rebuild"
    BY <1>1 DEF CacheInv, LoopTypeOK, Sequential, Early, ThreadSafe, OneThread
  <2> QED
    BY <2>1, <2>2 DEF CacheInv, TableOfPrev
<1>3. Read(theory, Time[bin[t]], par, table) = Exact(theory, bin[t], par)
  BY <1>2 DEF Read, Exact
<1> QED
  BY <1>1, <1>3 DEF Sum

LEMMA NextValues ==
  CacheInv /\ ValuesOfParameters /\ [LoopNext]_loopVars => ValuesOfParameters'
<1> SUFFICES ASSUME CacheInv, ValuesOfParameters, [LoopNext]_loopVars, ThreadSafe',
                    NEW i \in Bins, values'[i] # None
             PROVE  values'[i] = Exact(theory', i, par')
  BY DEF ValuesOfParameters
<1> USE DEF run, cache, loop
<1>1. theory' = theory /\ team' = team
  BY DEF LoopNext, loopVars, CalcChiSquare, Thread, TakeChunk, Compare, StartRebuild,
         EndRebuild, Sum, DataRace, Return, LoopTerminated
<1>2. ThreadSafe
  BY <1>1 DEF ThreadSafe, Late, OneThread
<1>3. CASE CalcChiSquare
  BY <1>3 DEF CalcChiSquare
<1>4. ASSUME NEW t \in team, Sum(t) PROVE values'[i] = Exact(theory', i, par')
  <2>1. par' = par /\ values \in [Bins -> Value \cup {None}]
    BY <1>4 DEF Sum, CacheInv, LoopTypeOK
  <2> QED
    BY <1>1, <1>2, <1>4, <2>1, SumsExact DEF ValuesOfParameters
<1>5. CASE UNCHANGED <<par, values>>
  BY <1>1, <1>2, <1>5 DEF ValuesOfParameters
<1> QED
  BY <1>3, <1>4, <1>5 DEF LoopNext, loopVars, Thread, TakeChunk, Compare, StartRebuild,
     EndRebuild, DataRace, Return, LoopTerminated

(* Every bin is summed up with what the theory gives for the parameters    *)
(* Minuit2 asks for, whatever it has asked for before.                     *)
THEOREM ExactValues == LoopSpec => []ValuesOfParameters
<1>1. LoopInit => ValuesOfParameters
  BY DEF LoopInit, ValuesOfParameters
<1> QED
  BY <1>1, CacheInvariant, NextValues, PTL DEF LoopSpec

-----------------------------------------------------------------------------
(* The loop implements the sequential sum. *)

(* A bin which has been handed out has its value, or is among those which  *)
(* its thread has still before it.                                         *)
Pending(t, i) == at[t] # "idle" /\ i \in bin[t]..last[t]

HandedOut ==
  call = "loop" =>
    \A i \in Bins : \/ values[i] = Exact(theory, i, par)
                    \/ i >= next
                    \/ \E t \in Threads : Pending(t, i)

LEMMA NextHandedOut ==
  ASSUME CacheInv, ThreadSafe, HandedOut, [LoopNext]_loopVars
  PROVE  HandedOut'
<1> USE DEF run, cache, loop
<1> SUFFICES ASSUME call' = "loop", NEW i \in Bins
             PROVE  \/ values'[i] = Exact(theory', i, par')
                    \/ i >= next'
                    \/ \E t \in Threads : Pending(t, i)'
  BY DEF HandedOut
<1> DEFINE Goal == \/ values'[i] = Exact(theory', i, par')
                   \/ i >= next'
                   \/ \E t \in Threads : Pending(t, i)'
<1>0. LoopTypeOK
  BY DEF CacheInv
<1>1. CASE UNCHANGED <<theory, call, par, next, bin, last, values>>
           /\ \A t \in Threads : at[t] # "idle" => at'[t] # "idle"
  BY <1>1 DEF HandedOut, Pending, Exact
<1>2. CASE CalcChiSquare
  BY <1>2, <1>0 DEF CalcChiSquare, Bins
<1>3. ASSUME NEW t \in team, TakeChunk(t) PROVE Goal
  <2>1. call = "loop" /\ at[t] = "idle" /\ next \in Bins
    BY <1>0, <1>3 DEF TakeChunk, LoopTypeOK, Bins
  <2>2. \A s \in Threads : Pending(s, i) => Pending(s, i)'
    BY <1>0, <1>3, <2>1 DEF TakeChunk, LoopTypeOK, Pending
  <2>3. next' = LastOfChunk(next) + 1 /\ LastOfChunk(next) \in Bins
    BY <1>3, <2>1, LastOfChunkInBins DEF TakeChunk
  <2>4. i >= next /\ i < next' => Pending(t, i)'
    <3>1. at'[t] = "func" /\ bin'[t] = next /\ last'[t] = LastOfChunk(next)
      BY <1>0, <1>3 DEF TakeChunk, LoopTypeOK
    <3> QED
      BY <2>1, <2>3, <3>1 DEF Pending, Bins
  <2>5. UNCHANGED <<theory, par, values>>
    BY <1>3 DEF TakeChunk
  <2> QED
    BY <1>0, <2>1, <2>2, <2>3, <2>4, <2>5 DEF LoopTypeOK, HandedOut, Exact, Bins
<1>4. ASSUME NEW t \in team, Sum(t) PROVE Goal
  <2>1. call = "loop" /\ UNCHANGED <<theory, par, next, last>>
    BY <1>4 DEF Sum
  <2>2. bin[t] \in Bins /\ values' = [values EXCEPT ![bin[t]] = Exact(theory, bin[t], par)]
    BY <1>4, SumsExact
  <2>3. CASE i = bin[t]
    BY <1>0, <2>1, <2>2, <2>3 DEF LoopTypeOK, Exact
  <2>4. CASE i # bin[t]
    <3>1. values'[i] = values[i]
      BY <1>0, <2>2, <2>4 DEF LoopTypeOK
    <3>2. \A s \in Threads \ {t} : Pending(s, i) => Pending(s, i)'
      BY <1>0, <1>4 DEF Sum, LoopTypeOK, Pending
    <3>3. last[t] \in Bins \cup {0}
      BY <1>0 DEF LoopTypeOK
    <3>4. Pending(t, i) => Pending(t, i)'
      <4>1. CASE bin[t] < last[t]
        <5>1. at'[t] = "func" /\ bin'[t] = bin[t] + 1 /\ last'[t] = last[t]
          BY <1>0, <1>4, <4>1 DEF Sum, LoopTypeOK
        <5> QED
          BY <2>2, <2>4, <3>3, <5>1 DEF Pending, Bins
      <4>2. CASE ~(bin[t] < last[t])
        BY <2>2, <2>4, <3>3, <4>2 DEF Pending, Bins
      <4> QED
        BY <4>1, <4>2
    <3> QED
      BY <2>1, <3>1, <3>2, <3>4 DEF HandedOut, Exact
  <2> QED
    BY <2>3, <2>4
<1>5. ASSUME NEW t \in team, Compare(t) \/ StartRebuild(t) \/ EndRebuild(t)
      PROVE  Goal
  <2>1. \A s \in Threads : at[s] # "idle" => at'[s] # "idle"
    BY <1>0, <1>5 DEF LoopTypeOK, Compare, StartRebuild, EndRebuild
  <2>2. UNCHANGED <<theory, call, par, next, bin, last, values>>
    BY <1>5 DEF Compare, StartRebuild, EndRebuild
  <2> QED
    BY <1>1, <2>1, <2>2
<1>6. CASE UNCHANGED loopVars
  BY <1>1, <1>6 DEF loopVars
<1> QED
  BY <1>2, <1>3, <1>4, <1>5, <1>6 DEF LoopNext, Thread, DataRace, Return, LoopTerminated

SumInv == CacheInv /\ (ThreadSafe => HandedOut)

LEMMA NextSumInv == SumInv /\ [LoopNext]_loopVars => SumInv'
<1> SUFFICES ASSUME SumInv, [LoopNext]_loopVars, ThreadSafe' PROVE HandedOut'
  BY NextCacheInv DEF SumInv
<1>1. theory' = theory /\ team' = team
  BY DEF LoopNext, loopVars, run, CalcChiSquare, Thread, TakeChunk, Compare, StartRebuild,
         EndRebuild, Sum, DataRace, Return, LoopTerminated
<1>2. ThreadSafe
  BY <1>1 DEF ThreadSafe, Late, OneThread
<1> QED
  BY <1>2, NextHandedOut DEF SumInv

LEMMA StepRefines ==
  ASSUME SumInv, [LoopNext]_loopVars
  PROVE  [Promise!Next]_(Promise!Promised)
<1> USE DEF run, cache, loop, Promise!Promised
<1>0. LoopTypeOK /\ Sequential
  BY DEF SumInv, CacheInv
<1>1. theory' = theory /\ team' = team /\ ThreadSafe' = ThreadSafe
  BY DEF LoopNext, loopVars, CalcChiSquare, Thread, TakeChunk, Compare, StartRebuild,
         EndRebuild, Sum, DataRace, Return, LoopTerminated, ThreadSafe, Late, OneThread
<1>2. CASE CalcChiSquare
  BY <1>1, <1>2 DEF CalcChiSquare, Promise!Next, Promise!Call
<1>3. CASE Return
  <2>1. \A t \in Threads : at[t] = "idle"
    BY <1>0, <1>3 DEF Return, Sequential
  <2>2. ASSUME ThreadSafe PROVE values = [i \in Bins |-> Exact(theory, i, par)]
    <3>1. call = "loop" /\ next \in Nat /\ next > NoOfBins
      BY <1>0, <1>3 DEF Return, LoopTypeOK
    <3>2. \A i \in Bins : ~(i >= next)
      BY <3>1 DEF Bins
    <3>3. \A i \in Bins : values[i] = Exact(theory, i, par)
      BY <2>1, <2>2, <3>1, <3>2 DEF SumInv, HandedOut, Pending
    <3> QED
      BY <1>0, <3>3 DEF LoopTypeOK
  <2> QED
    BY <1>1, <1>3, <2>2 DEF Return, Promise!Next, Promise!Return
<1>4. ASSUME NEW t \in team, Thread(t)
      PROVE  UNCHANGED Promise!Promised
  BY <1>1, <1>4 DEF Thread, TakeChunk, Compare, StartRebuild, EndRebuild, Sum, DataRace
<1>5. CASE UNCHANGED loopVars
  BY <1>1, <1>5 DEF loopVars
<1> QED
  BY <1>1, <1>2, <1>3, <1>4, <1>5 DEF LoopNext, LoopTerminated

(* The parallel loop, with its cache and whatever its threads do,          *)
(* implements the sum over all the bins in one step, unless a late shift   *)
(* meets several threads.                                                  *)
THEOREM LoopRefinesSum == LoopSpec => KeepsPromise
<1>1. LoopInit => Promise!Init
  BY DEF LoopInit, Promise!Init
<1>2. LoopInit => SumInv
  BY InitCacheInv DEF LoopInit, SumInv, HandedOut
<1> QED
  BY <1>1, <1>2, NextSumInv, StepRefines, PTL DEF LoopSpec, Promise!Spec, KeepsPromise
=============================================================================
