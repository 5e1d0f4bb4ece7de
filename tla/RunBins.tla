------------------------------ MODULE RunBins ------------------------------
(***************************************************************************)
(* From the lines of a RUN block to the bins that are fitted               *)
(* (src/src/classes/PRunSingleHisto.cpp, PRunAsymmetry.cpp), session after *)
(* session: t0's are collected from the msr-file and the data file, the    *)
(* histograms of addruns and groups are added, the range of good bins, the *)
(* background range and the fit range are found, FIT_RANGE commands change *)
(* the last, and what was found is written to the msr-file of the next     *)
(* session.                                                                *)
(*                                                                         *)
(* A bin is the unit of time, so that the time of a bin is its distance    *)
(* from t0; packed bins have half-integer times, which are kept twofold.   *)
(* Instead of the counts of a bin the model has the set of bins of the     *)
(* data files that are added up in it.                                     *)
(***************************************************************************)
EXTENDS RunBlock, FiniteSets

CONSTANTS
  Setups,        \* what is fitted, and the data files
  UserFiles,     \* the GLOBAL and RUN blocks a user may write, for a setup
  Size,          \* the number of bins of a histogram
  TenNs,         \* 10 ns in bins
  Offsets,       \* the offsets of a FIT_RANGE command, None if there is none
  MaxSessions    \* bounds the number of sessions

(* single histogram or asymmetry fit, number of detectors (of groups, times *)
(* two for an asymmetry), number of addruns, t0's in the header of data    *)
(* file r (0 if there is none), the bins of its maxima, packing, period of *)
(* the beam in bins (0 if there is none), whether the background is known  *)
(* and need not be estimated.                                              *)
ASSUME SetupsAssumption ==
  \A s \in Setups :
    /\ s.single \in BOOLEAN /\ s.isis \in BOOLEAN
    /\ s.detectors \in Nat \ {0} /\ (s.single \/ s.detectors % 2 = 0)
    /\ s.addRuns \in Nat
    /\ \A r \in 0..s.addRuns : \A d \in 1..s.detectors :
         s.header[r][d] \in 0..Size /\ s.peak[r][d] \in 0..Size
    /\ s.packing \in Nat \ {0}

ASSUME BinsAssumption ==
  Size \in Nat \ {0} /\ TenNs \in Nat /\ Offsets \subseteq Int /\ MaxSessions \in Nat

ASSUME UserFilesAssumption ==
  \A s \in Setups : UserFiles[s] \subseteq [run : Seq(Lines), global : Seq(Lines)]

VARIABLES
  setup,     \* fixed
  user,      \* the file the user has written
  file,      \* the GLOBAL and RUN block of the msr-file
  run,       \* PMsrRunBlock
  global,    \* PMsrGlobalBlock
  t0s,       \* fT0s
  addT0s,    \* fAddT0s
  good,      \* fGoodBins
  fitTime,   \* fFitStartTime, fFitEndTime
  bins,      \* fStartTimeBin, fEndTimeBin, and the number of bins of fData
  before,    \* what the session before has found
  phase, session

vars == <<setup, user, file, run, global, t0s, addT0s, good, fitTime, bins, before, phase, session>>

Detectors == 1..setup.detectors
Sides == IF setup.single THEN {1} ELSE {1, 2}   \* forward, and backward

Found == [t0s |-> t0s, addT0s |-> addT0s, good |-> good, fitTime |-> fitTime, bins |-> bins]

Init ==
  /\ setup \in Setups
  /\ user \in UserFiles[setup]
  /\ file = user
  /\ run = NoBlock /\ global = NoBlock
  /\ t0s = <<>> /\ addT0s = <<>> /\ good = NoRange
  /\ fitTime = <<Undefined, Undefined>> /\ bins = <<0, 0, 0>>
  /\ before = Found
  /\ phase = "start" /\ session = 1

(* ReadMsrFile. *)
Read ==
  /\ phase = "start" /\ session <= MaxSessions
  /\ IF Legal(file, setup.single, setup.addRuns)
     THEN /\ run' = ReadBlock(file.run) /\ global' = ReadBlock(file.global)
          /\ phase' = "t0"
     ELSE /\ phase' = "refused" /\ UNCHANGED <<run, global>>
  /\ UNCHANGED <<setup, user, file, t0s, addT0s, good, fitTime, bins, before, session>>

-----------------------------------------------------------------------------
(* GetProperT0: the RUN block, the GLOBAL block, the header of the data    *)
(* file, the maximum of the histogram; what is not in the msr-file is      *)
(* stored in the RUN block.                                                *)

FromData(r, d) == IF setup.header[r][d] > 0 THEN setup.header[r][d] ELSE setup.peak[r][d]

FromMsr(d) == IF GetAt(run.t0, d) # None THEN run.t0[d] ELSE GetAt(global.t0, d)

T0(d) == IF FromMsr(d) # None THEN FromMsr(d) ELSE FromData(0, d)

WithT0s(b) ==
  FoldLeft(LAMBDA acc, d : IF FromMsr(d) # None THEN acc ELSE [acc EXCEPT !.t0 = SetAt(@, d, T0(d))],
           b, [d \in Detectors |-> d])

(* A single histogram fit looks for as many t0's of an addrun as the run   *)
(* itself has; the addt0's of the GLOBAL block are not looked at.          *)
AddT0FromMsr(b, k, d) ==
  IF setup.single /\ d > Len(b.t0) THEN None ELSE GetAddT0(b, k, d)

AddT0Of(b, k, d) ==
  IF AddT0FromMsr(b, k, d) # None THEN AddT0FromMsr(b, k, d) ELSE FromData(k, d)

AddRunDetectors == FlattenSeq([k \in 1..setup.addRuns |-> [d \in Detectors |-> [k |-> k, d |-> d]]])

WithAddT0s(b) ==
  FoldLeft(LAMBDA acc, a : IF AddT0FromMsr(b, a.k, a.d) # None THEN acc
                             ELSE SetAddT0(acc, a.k, a.d, FromData(a.k, a.d)),
           b, AddRunDetectors)

InHistogram(t0) == t0 >= 0 /\ t0 <= Size

GetProperT0 ==
  /\ phase = "t0"
  /\ LET b == WithT0s(run) IN
     /\ t0s' = [d \in Detectors |-> T0(d)]
     /\ addT0s' = [k \in 1..setup.addRuns |-> [d \in Detectors |-> AddT0Of(b, k, d)]]
     /\ run' = WithAddT0s(b)
  /\ IF /\ \A d \in Detectors : InHistogram(t0s'[d])
        /\ ~setup.single \/ \A k \in 1..setup.addRuns : \A d \in Detectors : InHistogram(addT0s'[k][d])
     THEN phase' = IF setup.single THEN "data" ELSE "background"
     ELSE phase' = "failed"
  /\ UNCHANGED <<setup, user, file, global, good, fitTime, bins, before, session>>

(* PrepareData: the bins of the data files that are added up in bin j of   *)
(* the histogram of a side, addruns first, then the groups.                *)
InBounds(j) == j >= 0 /\ j < Size

DetectorBin(d, j) ==
  {[run |-> 0, det |-> d, bin |-> j]}
  \cup {[run |-> k, det |-> d, bin |-> j + addT0s[k][d] - t0s[d]] :
          k \in {k \in 1..setup.addRuns : InBounds(j + addT0s[k][d] - t0s[d])}}

GroupOf(side) == IF setup.single THEN Detectors ELSE {d \in Detectors : (d - side) % 2 = 0}

ShiftOther(side, d, j) == j + t0s[side] - t0s[d]   \* mutant
Shifted(side, d, j) == j + t0s[d] - t0s[side]

SummedBin(side, j) ==
  UNION {DetectorBin(d, Shifted(side, d, j)) :
           d \in {d \in GroupOf(side) : InBounds(Shifted(side, d, j))}}

-----------------------------------------------------------------------------
(* The background range: only its effect on the RUN block, and whether it  *)
(* lies in the histogram.                                                  *)

Tenth(t0, n) == (n * t0) \div 10

WithBkg(b) ==
  IF b.bkg[1] >= 0 THEN b
    ELSE [b EXCEPT !.bkg = [i \in 1..4 |->
           IF i <= 2 \/ ~setup.single
           THEN Tenth(t0s[(i + 1) \div 2], IF i % 2 = 1 THEN 1 ELSE 6) ELSE @[i]]]

(* EstimateBkg, SubtractEstimatedBkg: the boundaries in order, the end     *)
(* moved to a full number of beam periods; an interval that is then empty  *)
(* ends where the second number of the line says.                          *)
BkgInterval(b, side) ==
  LET x == b.bkg[2*side - 1]
      y == b.bkg[2*side]
      start == IF y < x THEN y ELSE x
      stop == IF y < x THEN x ELSE y
      cycles == ((stop - start) * setup.packing) \div setup.period
      full == start + (cycles * setup.period) \div setup.packing
  IN  <<start, IF setup.period = 0 THEN stop ELSE IF full = start THEN y ELSE full>>

EstimateBkg ==
  /\ phase = "background"
  /\ IF setup.bkgKnown THEN UNCHANGED run ELSE run' = WithBkg(run)
  /\ phase' = IF setup.bkgKnown \/ \A side \in Sides : \A i \in 1..2 : InBounds(BkgInterval(run', side)[i])
              THEN IF setup.single THEN "bins" ELSE "data"
              ELSE "failed"
  /\ UNCHANGED <<setup, user, file, global, t0s, addT0s, good, fitTime, bins, before, session>>

-----------------------------------------------------------------------------
(* GetProperDataRange. *)

DataRange(i) == IF run.data[i] >= 0 THEN run.data[i] ELSE global.data[i]

(* What neither block gives: from 10 ns after t0 to the end.               *)
Estimated(i) == IF i % 2 = 1 THEN t0s[(i + 1) \div 2] + TenNs ELSE Size

WithData(b) ==
  [b EXCEPT !.data = [i \in 1..4 |->
     IF i <= 2*Cardinality(Sides) /\ DataRange(i) < 0 THEN Estimated(i) ELSE @[i]]]

Ordered(side) ==
  LET Bin(i) == IF DataRange(i) < 0 THEN Estimated(i) ELSE DataRange(i)
      x == Bin(2*side - 1)
      y == Bin(2*side)
  IN  IF y < x THEN <<y, x>> ELSE <<x, y>>

Clipped(side) ==
  <<Ordered(side)[1], IF Ordered(side)[2] > Size THEN Size - 1 ELSE Ordered(side)[2]>>

Distance(x, y) == IF x < y THEN y - x ELSE x - y

(* Of forward and backward the one whose first good bin is closer to t0    *)
(* gets the range of the other one.                                        *)
GoodBins ==
  IF setup.single THEN Clipped(1) \o <<None, None>>
  ELSE LET range == [side \in 1..2 |-> Clipped(side)]
           start == [side \in 1..2 |-> Distance(range[side][1], t0s[side])]
           Like(other, side) == [i \in 1..2 |-> t0s[side] + range[other][i] - t0s[other]]
       IN  CASE start[1] > start[2] -> range[1] \o Like(1, 2)
             [] start[1] < start[2] -> Like(2, 1) \o range[2]
             [] start[1] = start[2] -> range[1] \o range[2]

GetProperDataRange ==
  /\ phase = "data"
  /\ run' = WithData(run)
  /\ IF \A side \in Sides : Ordered(side)[1] <= Size
     THEN good' = GoodBins /\ phase' = "range"
     ELSE phase' = "failed" /\ UNCHANGED good
  /\ UNCHANGED <<setup, user, file, global, t0s, addT0s, fitTime, bins, before, session>>

(* GetProperFitRange. *)
InBinsOf(n0, n1) == <<good[1] + n0 - t0s[1], good[2] - n1 - t0s[1]>>

FitRangeOf(b) == IF b.inBins THEN InBinsOf(b.offset[1], b.offset[2]) ELSE b.time

ProperFitRange ==
  IF FitRangeOf(run)[1] # Undefined THEN FitRangeOf(run) ELSE FitRangeOf(global)

GetProperFitRange ==
  /\ phase = "range"
  /\ fitTime' = IF Undefined \in {ProperFitRange[1], ProperFitRange[2]} THEN InBinsOf(0, 0)
                  ELSE ProperFitRange
  /\ phase' = IF setup.single THEN "background" ELSE "bins"
  /\ UNCHANGED <<setup, user, file, run, global, t0s, addT0s, good, bins, before, session>>

(* PrepareFitData: packed bins are filled when the next one begins.        *)
NoOfData(side) ==
  LET n == good[2*side] - good[2*side - 1] IN
  IF n <= 0 THEN 0 ELSE IF setup.packing = 1 THEN n ELSE (n - 1) \div setup.packing

MinOf(S) == CHOOSE x \in S : \A y \in S : x <= y
CeilDiv(a, b) == -((-a) \div b)

(* Twice the time of data i. *)
Time2(i) == 2*good[1] - 1 + setup.packing - 2*t0s[1] + 2*setup.packing*i

NoOfFitBinsOpen(n) ==   \* mutant
  LET start == CeilDiv(2*fitTime[1] - Time2(0), 2*setup.packing)
      stop == (2*fitTime[2] - Time2(0)) \div (2*setup.packing)
  IN  <<IF start < 0 THEN 0 ELSE start, IF stop > n THEN n ELSE stop, n>>

(* CalcNoOfFitBins. *)
NoOfFitBins(n) ==
  LET start == CeilDiv(2*fitTime[1] - Time2(0), 2*setup.packing)
      stop == (2*fitTime[2] - Time2(0)) \div (2*setup.packing) + 1
  IN  <<IF start < 0 THEN 0 ELSE start, IF stop > n THEN n ELSE stop, n>>

PrepareFitData ==
  /\ phase = "bins"
  /\ bins' = NoOfFitBins(MinOf({NoOfData(side) : side \in Sides}))
  /\ before' = [Found EXCEPT !.bins = bins']
  /\ phase' = "done"
  /\ UNCHANGED <<setup, user, file, run, global, t0s, addT0s, good, fitTime, session>>

-----------------------------------------------------------------------------
(* The command FIT_RANGE fgb+n0 lgb-n1 of the fit; then the mlog-file.     *)

(* SetFitRangeBin: without '-n1' the first offset counts for both ends.    *)
CommandedLast(n0, n1) ==   \* mutant
  InBinsOf(IF n0 = None THEN 0 ELSE n0, IF n0 = None THEN 0 ELSE n0)

Commanded(n0, n1) ==
  LET first == IF n0 = None THEN 0 ELSE n0
  IN  InBinsOf(first, IF n1 = None THEN first ELSE n1)

FitRangeBin ==
  /\ phase = "done"
  /\ \E n0, n1 \in Offsets : fitTime' = Commanded(n0, n1)
  /\ phase' = "commanded"
  /\ UNCHANGED <<setup, user, file, run, global, t0s, addT0s, good, bins, before, session>>

CalcNoOfFitBins ==
  /\ phase = "commanded"
  /\ bins' = NoOfFitBins(bins[3])
  /\ phase' = "done"
  /\ UNCHANGED <<setup, user, file, run, global, t0s, addT0s, good, fitTime, before, session>>

(* Nothing but the file outlives the process. *)
Forgotten ==
  /\ run' = NoBlock /\ global' = NoBlock
  /\ t0s' = <<>> /\ addT0s' = <<>> /\ good' = NoRange
  /\ fitTime' = <<Undefined, Undefined>> /\ bins' = <<0, 0, 0>>

WriteMsrLogFile ==
  /\ phase = "done"
  /\ file' = [global |-> WriteGlobal(file.global, global),
              run |-> WriteRun(file.run, run, setup.isis)]
  /\ phase' = "start" /\ session' = session + 1
  /\ Forgotten
  /\ UNCHANGED <<setup, user, before>>

Terminated ==
  /\ phase \in {"refused", "failed"} \/ (phase = "start" /\ session > MaxSessions)
  /\ UNCHANGED vars

Prepare == GetProperT0 \/ GetProperDataRange \/ GetProperFitRange \/ EstimateBkg \/ PrepareFitData

Next == Read \/ Prepare \/ FitRangeBin \/ CalcNoOfFitBins \/ WriteMsrLogFile \/ Terminated

Spec == Init /\ [][Next]_vars

-----------------------------------------------------------------------------
(* Properties. *)

Bin == 0..Size

TypeOK ==
  /\ phase \in {"start", "t0", "background", "data", "range", "bins", "done", "commanded",
               "refused", "failed"}
  /\ session \in 1..(MaxSessions + 1)
  /\ phase \in {"data", "range", "bins", "done", "commanded"} =>
       /\ t0s \in [Detectors -> Bin]
       /\ Len(addT0s) = setup.addRuns
       /\ \A k \in DOMAIN addT0s : DOMAIN addT0s[k] = Detectors
  /\ phase = "done" =>
       /\ good \in [1..4 -> Int] /\ fitTime \in [1..2 -> Int]
       /\ bins \in [1..3 -> Int] /\ bins[1] >= 0 /\ bins[2] <= bins[3]

UsersRun == ReadBlock(user.run)
UsersGlobal == ReadBlock(user.global)

(* The t0's and addt0's a user has written are there for every detector,   *)
(* or for none; and a block that has them for an addrun has them for the   *)
(* run.                                                                    *)
Complete ==
  /\ Len(UsersRun.t0) \in {0, setup.detectors}
  /\ UsersRun.t0 # <<>> \/ Len(UsersGlobal.t0) \in {0, setup.detectors}
  /\ \A k \in DOMAIN UsersRun.addT0 : Len(UsersRun.addT0[k]) = setup.detectors
  /\ UsersRun.addT0 # <<>> => UsersRun.t0 # <<>>

(* The t0 of a run or addrun the user means.                               *)
MeantT0(r, d) ==
  LET inRun == IF r = 0 THEN GetAt(UsersRun.t0, d) ELSE GetAddT0(UsersRun, r, d)
      inGlobal == IF r = 0 THEN GetAt(UsersGlobal.t0, d) ELSE None
  IN  IF inRun # None THEN inRun ELSE IF inGlobal # None THEN inGlobal ELSE FromData(r, d)

(* In every session, what is added up in one bin has been counted at the   *)
(* same time after the t0 that the user means, or the data file says, for  *)
(* that run and detector.                                                  *)
EventsAligned ==
  phase = "bins" /\ Complete =>
    \A side \in Sides : \A j \in 0..(Size - 1) : \A c \in SummedBin(side, j) :
      c.bin - MeantT0(c.run, c.det) = j - MeantT0(0, side)

(* What the writer cannot pass on to the next reader: a bin that is zero,  *)
(* in the GLOBAL block's data or estimated from t0, half a range in that    *)
(* block, and a time of -1.                                                *)
RangesPassed ==
  /\ \A b \in {UsersRun, UsersGlobal} : -1 \notin {b.time[1], b.time[2]}
  /\ \A i \in 1..4 : UsersGlobal.data[i] # 0
  /\ UsersGlobal.data[3] = None <=> UsersGlobal.data[4] = None
  /\ TenNs > 0 \/ \A side \in Sides : before.t0s[side] > 0

AddT0Behind(lines) ==
  \E i, j \in DOMAIN lines : i < j /\ lines[i].word \in {"fit", "fit fgb"} /\ lines[j].word = "addt0"

(* And what the next reader refuses: two fit lines, an addt0 line behind   *)
(* it, or a background estimated for a t0 below 10.                        *)
Passed ==
  /\ RangesPassed
  /\ \A lines \in {user.run, user.global} : Once(lines, {"fit", "fit fgb"})
  /\ ~AddT0Behind(user.run)
  /\ setup.bkgKnown \/ UsersRun.bkg[1] > 0 \/ \A side \in Sides : before.t0s[side] >= 10

(* 'fgb+n0 lgb-n1' with both offsets, the second one not zero.             *)
OffsetsPassed ==
  \A b \in {UsersRun, UsersGlobal} : b.inBins => b.offset[1] >= 0 /\ b.offset[2] > 0

(* Nothing changes from session to session unless the user changes it: a   *)
(* run that could be prepared is prepared again, with the same t0's, good  *)
(* bins and fitted bins.                                                   *)
SameAgain ==
  [][ session > 1 /\ Complete =>
        /\ phase' \in {"refused", "failed"} => phase' = phase \/ ~Passed
        /\ phase = "bins" /\ RangesPassed /\ OffsetsPassed => before' = before ]_vars

(* The loop from fStartTimeBin to fEndTimeBin takes the data whose time    *)
(* lies in the fit range, and no other.                                    *)
FitBinsAreInRange ==
  phase = "done" =>
    \A i \in 0..(bins[3] - 1) :
      i \in bins[1]..(bins[2] - 1) <=> 2*fitTime[1] <= Time2(i) /\ Time2(i) <= 2*fitTime[2]

(* 'FIT_RANGE fgb+n0 lgb-n1' means what a line 'fit fgb+n0 lgb-n1' means,  *)
(* if it has a second offset.                                              *)
CommandAsLine ==
  phase = "bins" =>
    \A n0 \in Offsets : \A n1 \in Offsets \ {None} :
      Commanded(n0, n1) = FitRangeOf(ReadBlock(<<Line("fit fgb", <<n0, n1>>)>>))
=============================================================================
