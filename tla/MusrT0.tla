------------------------------- MODULE MusrT0 -------------------------------
(***************************************************************************)
(* musrt0 (src/src/musrt0.cpp, src/src/classes/PMusrT0.cpp) between two     *)
(* fits of RunBins: it shows the histograms of a run in one window after   *)
(* the other, the user sets t0's, data and background ranges with keys, or *)
(* the option -g takes the t0's from the maxima; then the RUN block is     *)
(* written to the msr-file.                                                *)
(*                                                                         *)
(* A window is an item: the run or addrun and the detector it shows, and   *)
(* whether t0's and ranges can be set in it.                               *)
(***************************************************************************)
EXTENDS RunBins

CONSTANTS
  Cursor,      \* the bins the cursor may be at when a key is pressed
  Keys,        \* the keys the user knows, for a setup
  GoodOffset,  \* firstGoodBinOffset of -g, NotSet if there is none
  NotSet,      \* what the user has not set
  MaxStarts    \* bounds how often musrt0 is started

(* A bin of the axis is one less than FindFixBin says, which counts the     *)
(* underflow too.                                                          *)
ASSUME MusrT0Assumption ==
  /\ NotSet \notin Int
  /\ Cursor \subseteq -1..Size /\ GoodOffset \in Int \cup {NotSet} /\ MaxStarts \in Nat

(* As everywhere, every keyword but addt0 stands once in a block.          *)
ASSUME OnceAssumption ==
  \A s \in Setups : \A f \in UserFiles[s] : Once(f.run, {"t0"}) /\ Once(f.run, {"fit", "fit fgb"})

VARIABLES
  item,      \* the window shown
  chosen,    \* what the user has set with musrt0
  written,   \* and what of it has been written to the msr-file
  gaps,      \* what has been written with something left out
  starts     \* how often musrt0 has been started

t0vars == <<item, chosen, written, gaps, starts>>
allvars == <<vars, t0vars>>

NothingChosen ==
  [t0 |-> [r \in 0..setup.addRuns |-> [d \in Detectors |-> NotSet]],
   data |-> [i \in 1..4 |-> NotSet], bkg |-> [i \in 1..4 |-> NotSet]]

T0Init ==
  /\ Init
  /\ item = 0 /\ starts = 0
  /\ chosen = NothingChosen /\ written = NothingChosen /\ gaps = {}

-----------------------------------------------------------------------------
(* The windows, for a run without addruns and grouping one for everything  *)
(* on a side, else one for every t0 and then one for the ranges of a side. *)

Plain == setup.addRuns = 0 /\ Cardinality(GroupOf(1)) = 1

Histos == 1..(IF setup.single THEN setup.detectors ELSE setup.detectors \div 2)

DetectorOf(side, histo) == IF setup.single THEN histo ELSE 2*(histo - 1) + side

T0Items(side) ==
  FlattenSeq([r \in 1..(setup.addRuns + 1) |->
    [h \in Histos |-> [side |-> side, run |-> r - 1, histo |-> h, t0 |-> TRUE, ranges |-> Plain]]])

RangeItems(side) ==
  IF Plain THEN <<>>
    ELSE <<[side |-> side, run |-> 0, histo |-> 1, t0 |-> FALSE, ranges |-> TRUE]>>

SideSeq == IF setup.single THEN <<1>> ELSE <<1, 2>>

Items ==
  FlattenSeq([i \in DOMAIN SideSeq |-> T0Items(SideSeq[i])])
  \o FlattenSeq([i \in DOMAIN SideSeq |-> RangeItems(SideSeq[i])])

Window == Items[item]
Shown == DetectorOf(Window.side, Window.histo)

(* main: the msr-file is read; -g, or a window; without the data files, or *)
(* for a fit without muons, the file is written as it has been read.       *)
Start ==
  /\ phase = "start" /\ session <= MaxSessions /\ starts < MaxStarts
  /\ IF Legal(file, setup.single, setup.addRuns)
     THEN /\ run' = ReadBlock(file.run) /\ global' = ReadBlock(file.global)
          /\ phase' \in {"window", "peak", "written"}
     ELSE /\ phase' = "refused" /\ UNCHANGED <<run, global>>
  /\ item' = 1 /\ starts' = starts + 1 /\ chosen' = written
  /\ UNCHANGED <<setup, user, file, t0s, addT0s, good, fitTime, bins, before, session, written, gaps>>

(* SetT0Channel, SetEstimatedT0Channel: the index of a t0 on its line.     *)
T0IndexPlain(side, histo) == histo + side - 1   \* mutant
T0Index(side, histo) == IF setup.single THEN histo ELSE 2*histo - 1 + (side - 1)

EnterAsT0(b, r, i, bin) == [b EXCEPT !.t0 = SetAt(@, i, bin)]   \* mutant
Enter(b, r, i, bin) ==
  IF r = 0 THEN [b EXCEPT !.t0 = SetAt(@, i, bin)] ELSE SetAddT0(b, r, i, bin)

SetT0(bin) ==
  /\ phase = "window" /\ Window.t0
  /\ run' = Enter(run, Window.run, T0Index(Window.side, Window.histo), bin)
  /\ chosen' = [chosen EXCEPT !.t0[Window.run][Shown] = bin]
  /\ UNCHANGED <<setup, user, file, global, t0s, addT0s, good, fitTime, bins, before, phase, session,
                 item, written, gaps, starts>>

SetT0Channel == "t" \in Keys[setup] /\ \E bin \in Cursor : SetT0(bin)
SetEstimatedT0Channel == "T" \in Keys[setup] /\ phase = "window" /\ SetT0(setup.peak[Window.run][Shown])

(* SetDataFirstChannel, ..., SetBkgLastChannel.                            *)
RangeIndex(side, end) == 2*(side - 1) + end

SetRangeChannel(key, field, end) ==
  /\ key \in Keys[setup]
  /\ phase = "window" /\ Window.ranges
  /\ \E bin \in Cursor :
       /\ run' = [run EXCEPT ![field][RangeIndex(Window.side, end)] = bin]
       /\ chosen' = [chosen EXCEPT ![field][2*(Window.side - 1) + end] = bin]
  /\ UNCHANGED <<setup, user, file, global, t0s, addT0s, good, fitTime, bins, before, phase, session,
                 item, written, gaps, starts>>

SetDataFirstChannel == SetRangeChannel("d", "data", 1)
SetDataLastChannel == SetRangeChannel("D", "data", 2)
SetBkgFirstChannel == SetRangeChannel("b", "bkg", 1)
SetBkgLastChannel == SetRangeChannel("B", "bkg", 2)

(* Key q. *)
NextItem ==
  /\ phase = "window"
  /\ IF item < Len(Items) THEN item' = item + 1 /\ UNCHANGED phase
       ELSE phase' = "written" /\ UNCHANGED item
  /\ UNCHANGED <<setup, user, file, run, global, t0s, addT0s, good, fitTime, bins, before, session,
                 chosen, written, gaps, starts>>

(* Key Q, the window closed, or the timeout: exit.                         *)
Quit ==
  /\ phase = "window"
  /\ phase' = "start" /\ session' = session + 1
  /\ Forgotten
  /\ UNCHANGED <<setup, user, file, before, t0vars>>

(* getT0FromPromptPeak: the first detector of a side gives its data range. *)
Overlaid(s, t) ==
  [i \in 1..(IF Len(s) < Len(t) THEN Len(t) ELSE Len(s)) |-> IF i <= Len(t) THEN t[i] ELSE s[i]]

Peaks(r) == [d \in Detectors |-> setup.peak[r][d]]

WithPeaks(b) ==
  [b EXCEPT !.t0 = Overlaid(b.t0, Peaks(0)),
            !.addT0 = Overlaid(b.addT0, [k \in 1..setup.addRuns |->
                        Overlaid(IF k \in DOMAIN b.addT0 THEN b.addT0[k] ELSE <<>>, Peaks(k))])]

PeakRange(range) ==
  IF GoodOffset = NotSet THEN range
    ELSE [i \in 1..4 |-> IF (i + 1) \div 2 \notin Sides THEN range[i]
                           ELSE IF i % 2 = 1 THEN setup.peak[0][(i + 1) \div 2] + GoodOffset ELSE Size]

PromptPeak ==
  /\ phase = "peak"
  /\ run' = [WithPeaks(run) EXCEPT !.data = PeakRange(@)]
  /\ chosen' = [chosen EXCEPT !.t0 = [r \in 0..setup.addRuns |-> Peaks(r)], !.data = PeakRange(@)]
  /\ phase' = "written"
  /\ UNCHANGED <<setup, user, file, global, t0s, addT0s, good, fitTime, bins, before, session,
                 item, written, gaps, starts>>

(* What the user does not leave out: of the t0's on a line none but the    *)
(* last ones, of the addruns none, of a range neither end, of the ranges   *)
(* not the forward one.                                                    *)
Prefix(S) == \A n \in S : 1..n \subseteq S

T0Set(w, r) ==
  {d \in Detectors : w.t0[r][d] # NotSet
     \/ (IF r = 0 THEN GetAt(UsersRun.t0, d) ELSE GetAddT0(UsersRun, r, d)) # None}

NoGaps(w) ==
  /\ \A r \in 0..setup.addRuns : Prefix(T0Set(w, r))
  /\ setup.single => \A k \in 1..setup.addRuns : T0Set(w, k) \subseteq T0Set(w, 0)
  /\ \A k, l \in 1..setup.addRuns : T0Set(w, k) = {} => T0Set(w, l) = {}

(* The first bin of a histogram, 0, is not written as one end of a range.  *)
Pairs(range, users) ==
  LET Is(i) == range[i] # NotSet \/ users[i] # None
  IN  /\ Is(1) = Is(2) /\ Is(3) = Is(4) /\ (Is(3) => Is(1))
      /\ \A i \in 1..4 : range[i] # NotSet => range[i] > 0

RangesComplete(w) == Pairs(w.data, UsersRun.data) /\ Pairs(w.bkg, UsersRun.bkg)

GapsOf(w) ==
  (IF NoGaps(w) THEN {} ELSE {"t0"}) \cup (IF RangesComplete(w) THEN {} ELSE {"range"})

(* WriteMsrLogFile; then msr-file and mlog-file change their names.        *)
WriteT0 ==
  /\ phase = "written"
  /\ file' = [global |-> WriteGlobal(file.global, global),
              run |-> WriteRun(file.run, run, setup.isis)]
  /\ written' = chosen /\ gaps' = gaps \cup GapsOf(chosen)
  /\ phase' = "start" /\ session' = session + 1
  /\ Forgotten
  /\ UNCHANGED <<setup, user, before, item, chosen, starts>>

PressKey ==
  \/ SetT0Channel \/ SetEstimatedT0Channel
  \/ SetDataFirstChannel \/ SetDataLastChannel \/ SetBkgFirstChannel \/ SetBkgLastChannel
  \/ NextItem \/ Quit

(* A fit is a session of RunBins.                                          *)
Fit == Next /\ UNCHANGED t0vars

T0Next == Start \/ PressKey \/ PromptPeak \/ WriteT0 \/ Fit

T0Spec == T0Init /\ [][T0Next]_allvars

-----------------------------------------------------------------------------
(* Properties. *)

(* The writer has a place for lines the user's RUN block does not have.    *)
HasPlace == Has(user.run, "fit") \/ Has(user.run, "fit fgb")

FitReads == phase \in {"data", "background", "range", "bins", "done"}

(* The t0 set for a detector of the run or an addrun, and the ranges set   *)
(* with the keys, are those the next fits use, whatever other detectors,   *)
(* and fits and starts of musrt0 before, have set.                         *)
ChosenUsed ==
  FitReads /\ HasPlace =>
    /\ ~setup.isis /\ "t0" \notin gaps =>
         /\ \A d \in Detectors : written.t0[0][d] # NotSet => t0s[d] = written.t0[0][d]
         /\ \A k \in 1..setup.addRuns : \A d \in Detectors :
              written.t0[k][d] # NotSet => addT0s[k][d] = written.t0[k][d]
    /\ "range" \notin gaps =>
         \A i \in 1..4 : /\ written.data[i] # NotSet => run.data[i] = written.data[i]
                         /\ written.bkg[i] # NotSet => run.bkg[i] = written.bkg[i]

(* A detector for which none is set keeps the t0 the user's file, or the   *)
(* data file, gives it.                                                    *)
OthersKeepTheirs ==
  FitReads /\ Complete /\ "t0" \notin gaps =>
    /\ \A d \in Detectors : written.t0[0][d] = NotSet => t0s[d] = MeantT0(0, d)
    /\ \A k \in 1..setup.addRuns : \A d \in Detectors :
         written.t0[k][d] = NotSet => addT0s[k][d] = MeantT0(k, d)
=============================================================================
