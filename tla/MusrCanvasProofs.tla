---------------------------- MODULE MusrCanvasProofs ----------------------------
(***************************************************************************)
(* Theorems about MusrCanvas, for any users, windows and msr-files.        *)
(***************************************************************************)
EXTENDS MusrCanvas, WellFoundedInduction, TLAPS

Turns == -MaxTurn..MaxTurn
Drawn == [kind : {"data", "diff", "average"} \cup FourierKinds, of : Frames]
CanvasSet ==
  [view : Views, prev : Views, difference : BOOLEAN, averaged : BOOLEAN,
   menu : SUBSET Entries, phaseEntries : BOOLEAN, frame : Frames,
   phase : Turns \cup {None}, set : Spectra, avg : Spectra \cup {None},
   drawn : Drawn \cup {None}, crashed : BOOLEAN]

(* What is calculated leaves the rest of a canvas alone.                   *)
SameFlags(s, t) ==
  /\ t.view = s.view /\ t.prev = s.prev /\ t.difference = s.difference
  /\ t.averaged = s.averaged /\ t.menu = s.menu
SamePad(s, t) == SameFlags(s, t) /\ t.avg = s.avg /\ t.frame = s.frame /\ t.drawn = s.drawn

(* The frame a spectrum of the data is calculated from.                    *)
StartFrame(c, s) == IF setup[c].startFourier THEN "msr" ELSE s.frame

LEMMA CanvasParts ==
  ASSUME NEW s \in CanvasSet
  PROVE  /\ s.view \in Views /\ s.prev \in Views /\ s.difference \in BOOLEAN
         /\ s.averaged \in BOOLEAN /\ s.menu \in SUBSET Entries /\ s.phaseEntries \in BOOLEAN
         /\ s.frame \in Frames /\ s.phase \in Turns \cup {None} /\ s.set \in Spectra
         /\ s.avg \in Spectra \cup {None} /\ s.drawn \in Drawn \cup {None}
         /\ s.crashed \in BOOLEAN
BY Zenon DEF CanvasSet

LEMMA SpectraParts ==
  ASSUME NEW x \in Spectra
  PROVE  /\ x.fourier \in Kept \cup {None} /\ x.diffFourier \in KeptDifference \cup {None}
         /\ x.diff \in BOOLEAN /\ x.optReal \in BOOLEAN /\ x.diffOptReal \in BOOLEAN
         /\ [x EXCEPT !.diff = TRUE] \in Spectra /\ [x EXCEPT !.diff = FALSE] \in Spectra
         /\ [x EXCEPT !.fourier = None, !.optReal = FALSE] \in Spectra
         /\ [x EXCEPT !.diffFourier = None, !.diffOptReal = FALSE] \in Spectra
BY DEF Spectra

(* A canvas with other spectra and another phase.                          *)
With(s, x, p) == [s EXCEPT !.set = x, !.phase = p]

LEMMA Recalculated ==
  ASSUME NEW s \in CanvasSet, NEW x \in Spectra, NEW p \in Turns \cup {None},
         NEW t, t = With(s, x, p)
  PROVE  /\ t \in CanvasSet /\ SamePad(s, t) /\ t.set = x /\ t.phase = p
         /\ t.crashed = s.crashed
BY DEF With, CanvasSet, SamePad, SameFlags

LEMMA HandleFourierFacts ==
  ASSUME NEW c, NEW s \in CanvasSet, NEW t, t = HandleFourier(c, s)
  PROVE  /\ t \in CanvasSet /\ SamePad(s, t) /\ t.crashed = s.crashed
         /\ Musr(c) => t.set.fourier # None
         /\ s.set.fourier = None /\ Musr(c) => t.set.fourier.of = StartFrame(c, s)
         /\ s.set.fourier # None => t = s
         /\ t.set.diffFourier = s.set.diffFourier /\ t.set.diff = s.set.diff
         /\ t.set.diffOptReal = s.set.diffOptReal
         /\ t.set.optReal => s.set.optReal \/ s.view = "PHASE_OPT_REAL"
         /\ s.phase # None => t.phase # None
         /\ t # s /\ setup[c].phase => t.phase # None
<1>1. CASE ~Musr(c) \/ s.set.fourier # None
  BY <1>1 DEF HandleFourier, SamePad, SameFlags
<1>2. CASE Musr(c) /\ s.set.fourier = None
  <2>1. PICK r : r = [of |-> StartFrame(c, s), turn |-> 0]
    OBVIOUS
  <2>2. r \in Kept /\ r # None /\ r.of = StartFrame(c, s)
    BY <2>1, CanvasParts, MusrCanvasAssumption, NoSpectrum DEF Kept, StartFrame, Frames
  <2>3. PICK x : x = IF s.view = "PHASE_OPT_REAL"
                     THEN [s.set EXCEPT !.fourier = r, !.optReal = TRUE]
                     ELSE [s.set EXCEPT !.fourier = r]
    OBVIOUS
  <2>4. /\ x \in Spectra /\ x.fourier = r /\ x.diffFourier = s.set.diffFourier
        /\ x.diff = s.set.diff /\ x.diffOptReal = s.set.diffOptReal
        /\ (x.optReal => s.set.optReal \/ s.view = "PHASE_OPT_REAL")
    BY <2>2, <2>3, CanvasParts DEF Spectra
  <2>5. PICK p : p = IF setup[c].phase THEN 0 ELSE s.phase
    OBVIOUS
  <2>6. p \in Turns \cup {None} /\ (s.phase # None => p # None) /\ (setup[c].phase => p # None)
    BY <2>5, CanvasParts, MusrCanvasAssumption, NoSpectrum DEF Turns
  <2>7. t = With(s, x, p)
    BY <1>2, <2>1, <2>3, <2>5, CanvasParts DEF HandleFourier, ApplyPhase, CalcPhaseOptReFT, StartFrame, CanvasSet, Spectra, With
  <2>8. /\ t \in CanvasSet /\ SamePad(s, t) /\ t.set = x /\ t.phase = p /\ t.crashed = s.crashed
    BY <2>4, <2>6, <2>7, Recalculated
  <2> QED
    BY <1>2, <2>2, <2>4, <2>6, <2>8
<1> QED
  BY <1>1, <1>2

LEMMA HandleDifferenceFacts ==
  ASSUME NEW s \in CanvasSet, NEW t, t = HandleDifference(s)
  PROVE  /\ t \in CanvasSet /\ SamePad(s, t) /\ t.crashed = s.crashed /\ t.phase = s.phase
         /\ t.set.diff /\ t.set.fourier = s.set.fourier /\ t.set.diffFourier = s.set.diffFourier
         /\ t.set.optReal = s.set.optReal /\ t.set.diffOptReal = s.set.diffOptReal
<1>1. PICK y \in Spectra : y = s.set
  BY CanvasParts
<1>2. PICK p \in Turns \cup {None} : p = s.phase
  BY CanvasParts
<1>3. PICK x : x = [y EXCEPT !.diff = TRUE]
  OBVIOUS
<1>4. /\ x \in Spectra
      /\ x.diff /\ x.fourier = y.fourier /\ x.diffFourier = y.diffFourier
      /\ x.optReal = y.optReal /\ x.diffOptReal = y.diffOptReal
  BY <1>3 DEF Spectra
<1>5. t = With(s, x, p)
  BY <1>1, <1>2, <1>3 DEF HandleDifference, With, CanvasSet, Spectra
<1> QED
  BY <1>1, <1>2, <1>4, <1>5, Recalculated

LEMMA CleanupFourierFacts ==
  ASSUME NEW s \in CanvasSet, NEW t, t = CleanupFourier(s)
  PROVE  /\ t \in CanvasSet /\ SamePad(s, t) /\ t.crashed = s.crashed /\ t.phase = s.phase
         /\ t.set.fourier = None /\ ~t.set.optReal /\ t.set.diff = s.set.diff
         /\ t.set.diffFourier = s.set.diffFourier /\ t.set.diffOptReal = s.set.diffOptReal
<1>1. PICK y \in Spectra : y = s.set
  BY CanvasParts
<1>2. PICK p \in Turns \cup {None} : p = s.phase
  BY CanvasParts
<1>3. PICK x : x = [y EXCEPT !.fourier = None, !.optReal = FALSE]
  OBVIOUS
<1>4. /\ x \in Spectra
      /\ x.fourier = None /\ ~x.optReal /\ x.diff = y.diff
      /\ x.diffFourier = y.diffFourier /\ x.diffOptReal = y.diffOptReal
  BY <1>3 DEF Spectra
<1>5. t = With(s, x, p)
  BY <1>1, <1>2, <1>3 DEF CleanupFourier, With, CanvasSet, Spectra
<1> QED
  BY <1>1, <1>2, <1>4, <1>5, Recalculated

LEMMA CleanupFourierDifferenceFacts ==
  ASSUME NEW s \in CanvasSet, NEW t, t = CleanupFourierDifference(s)
  PROVE  /\ t \in CanvasSet /\ SamePad(s, t) /\ t.crashed = s.crashed /\ t.phase = s.phase
         /\ t.set.diffFourier = None /\ ~t.set.diffOptReal /\ t.set.diff = s.set.diff
         /\ t.set.fourier = s.set.fourier /\ t.set.optReal = s.set.optReal
<1>1. PICK y \in Spectra : y = s.set
  BY CanvasParts
<1>2. PICK p \in Turns \cup {None} : p = s.phase
  BY CanvasParts
<1>3. PICK x : x = [y EXCEPT !.diffFourier = None, !.diffOptReal = FALSE]
  OBVIOUS
<1>4. /\ x \in Spectra
      /\ x.diffFourier = None /\ ~x.diffOptReal /\ x.diff = y.diff
      /\ x.fourier = y.fourier /\ x.optReal = y.optReal
  BY <1>3 DEF Spectra
<1>5. t = With(s, x, p)
  BY <1>1, <1>2, <1>3 DEF CleanupFourierDifference, With, CanvasSet, Spectra
<1> QED
  BY <1>1, <1>2, <1>4, <1>5, Recalculated

LEMMA CalcPhaseOptReFTFacts ==
  ASSUME NEW s \in CanvasSet, NEW t, t = CalcPhaseOptReFT(s)
  PROVE  /\ t \in CanvasSet /\ SamePad(s, t) /\ t.crashed = s.crashed /\ t.phase = s.phase
         /\ t.set.optReal /\ t.set.fourier = s.set.fourier
<1>1. PICK y \in Spectra : y = s.set
  BY CanvasParts
<1>2. PICK p \in Turns \cup {None} : p = s.phase
  BY CanvasParts
<1>3. PICK x : x = [y EXCEPT !.optReal = TRUE]
  OBVIOUS
<1>4. /\ x \in Spectra
      /\ x.optReal /\ x.fourier = y.fourier
  BY <1>3 DEF Spectra
<1>5. t = With(s, x, p)
  BY <1>1, <1>2, <1>3 DEF CalcPhaseOptReFT, With, CanvasSet, Spectra
<1> QED
  BY <1>1, <1>2, <1>4, <1>5, Recalculated

LEMMA CleanupDifferenceFacts ==
  ASSUME NEW c, NEW s \in CanvasSet, NEW t, t = CleanupDifference(c, s)
  PROVE  /\ t \in CanvasSet /\ SamePad(s, t) /\ t.crashed = s.crashed /\ t.phase = s.phase
         /\ t.set.fourier = s.set.fourier /\ t.set.diffFourier = s.set.diffFourier
         /\ t.set.optReal = s.set.optReal /\ t.set.diffOptReal = s.set.diffOptReal
<1>1. PICK y \in Spectra : y = s.set
  BY CanvasParts
<1>2. PICK p \in Turns \cup {None} : p = s.phase
  BY CanvasParts
<1>3. PICK x : x = IF Musr(c) THEN [y EXCEPT !.diff = FALSE] ELSE y
  OBVIOUS
<1>4. /\ x \in Spectra
      /\ x.fourier = y.fourier /\ x.diffFourier = y.diffFourier
      /\ x.optReal = y.optReal /\ x.diffOptReal = y.diffOptReal
  BY <1>3 DEF Spectra
<1>5. t = With(s, x, p)
  BY <1>1, <1>2, <1>3 DEF CleanupDifference, With, CanvasSet, Spectra
<1> QED
  BY <1>1, <1>2, <1>4, <1>5, Recalculated

LEMMA HandleDifferenceFourierFacts ==
  ASSUME NEW c, NEW s \in CanvasSet, NEW t, t = HandleDifferenceFourier(c, s)
  PROVE  /\ t \in CanvasSet /\ SamePad(s, t) /\ t.crashed = s.crashed
         /\ Musr(c) => t.set.diffFourier # None
         /\ s.set.diffFourier = None /\ Musr(c) =>
              t.set.diffFourier.order = "d-f" /\ t.set.diffFourier.of = s.frame
         /\ s.set.diffFourier # None => t = s
         /\ t.set.fourier = s.set.fourier /\ t.set.optReal = s.set.optReal
         /\ t.set.diffOptReal = s.set.diffOptReal /\ (s.set.diff => t.set.diff)
         /\ s.phase # None => t.phase # None
         /\ t # s /\ setup[c].phase => t.phase # None
<1>1. CASE ~Musr(c) \/ s.set.diffFourier # None
  BY <1>1 DEF HandleDifferenceFourier, SamePad, SameFlags
<1>2. CASE Musr(c) /\ s.set.diffFourier = None
  <2>1. PICK y \in Spectra : y = s.set
    BY CanvasParts
  <2>2. PICK r : r = [order |-> "d-f", of |-> s.frame, turn |-> 0]
    OBVIOUS
  <2>3. r \in KeptDifference /\ r # None /\ r.of = s.frame /\ r.order = "d-f"
    BY <2>2, CanvasParts, MusrCanvasAssumption, NoSpectrum DEF KeptDifference
  <2>4. PICK x : x = [y EXCEPT !.diff = TRUE, !.diffFourier = r]
    OBVIOUS
  <2>5. /\ x \in Spectra /\ x.diffFourier = r /\ x.fourier = y.fourier /\ x.diff
        /\ x.optReal = y.optReal /\ x.diffOptReal = y.diffOptReal
    BY <2>3, <2>4 DEF Spectra
  <2>6. PICK p : p = IF setup[c].phase THEN 0 ELSE s.phase
    OBVIOUS
  <2>7. p \in Turns \cup {None} /\ (s.phase # None => p # None) /\ (setup[c].phase => p # None)
    BY <2>6, CanvasParts, MusrCanvasAssumption, NoSpectrum DEF Turns
  <2>8. t = With(s, x, p)
    BY <1>2, <2>1, <2>2, <2>4, <2>6 DEF HandleDifferenceFourier, HandleDifference, ApplyPhase,
       CanvasSet, Spectra, With
  <2>9. /\ t \in CanvasSet /\ SamePad(s, t) /\ t.set = x /\ t.phase = p /\ t.crashed = s.crashed
    BY <2>5, <2>7, <2>8, Recalculated
  <2> QED
    BY <1>2, <2>1, <2>3, <2>5, <2>7, <2>9
<1> QED
  BY <1>1, <1>2

LEMMA CrashFacts ==
  ASSUME NEW s \in CanvasSet, NEW t, t = Crash(s)
  PROVE  t \in CanvasSet /\ SamePad(s, t) /\ t.set = s.set /\ t.phase = s.phase /\ t.crashed
BY DEF Crash, CanvasSet, SamePad, SameFlags

LEMMA HandleFourierDifferenceFacts ==
  ASSUME NEW c, NEW s \in CanvasSet, NEW t, t = HandleFourierDifference(c, s)
  PROVE  /\ t \in CanvasSet /\ SamePad(s, t) /\ t.phase = s.phase
         /\ s.set.fourier # None \/ s.set.diffFourier # None => t.crashed = s.crashed
         /\ s.crashed => t.crashed
         /\ Musr(c) /\ ~t.crashed => t.set.diffFourier # None
         /\ s.set.diffFourier = None /\ Musr(c) /\ ~t.crashed => t.set.diffFourier.order = "f-d"
         /\ s.set.diffFourier # None => t = s
         /\ t.set.fourier = s.set.fourier /\ t.set.optReal = s.set.optReal
         /\ t.set.diff = s.set.diff
         /\ t.set.diffOptReal => s.set.diffOptReal \/ s.set.optReal
<1>1. CASE ~Musr(c) \/ s.set.diffFourier # None
  BY <1>1 DEF HandleFourierDifference, SamePad, SameFlags
<1>2. CASE Musr(c) /\ s.set.diffFourier = None /\ s.set.fourier = None
  <2>1. t = Crash(s)
    BY <1>2 DEF HandleFourierDifference
  <2> QED
    BY <1>2, <2>1, CrashFacts
<1>3. CASE Musr(c) /\ s.set.diffFourier = None /\ s.set.fourier # None
  <2>1. PICK y \in Spectra : y = s.set
    BY CanvasParts
  <2>2. PICK r : r = [order |-> "f-d", of |-> y.fourier.of, turn |-> y.fourier.turn]
    OBVIOUS
  <2>3. r \in KeptDifference /\ r # None /\ r.order = "f-d"
    <3>1. y.fourier \in Kept
      BY <1>3, <2>1, SpectraParts
    <3>2. y.fourier.of \in Frames /\ y.fourier.turn \in -MaxTurn..MaxTurn
      BY <3>1 DEF Kept
    <3> QED
      BY <2>2, <3>2, NoSpectrum DEF KeptDifference
  <2>4. PICK x : x = [y EXCEPT !.diffOptReal = y.diffOptReal \/ y.optReal, !.diffFourier = r]
    OBVIOUS
  <2>5. /\ x \in Spectra /\ x.diffFourier = r /\ x.fourier = y.fourier /\ x.diff = y.diff
        /\ x.optReal = y.optReal /\ (x.diffOptReal => y.diffOptReal \/ y.optReal)
    BY <2>3, <2>4 DEF Spectra
  <2>6. PICK p \in Turns \cup {None} : p = s.phase
    BY CanvasParts
  <2>7. t = With(s, x, p)
    BY <1>3, <2>1, <2>2, <2>4, <2>6 DEF HandleFourierDifference, CanvasSet, Spectra, With
  <2>8. /\ t \in CanvasSet /\ SamePad(s, t) /\ t.set = x /\ t.phase = p /\ t.crashed = s.crashed
    BY <2>5, <2>7, Recalculated
  <2> QED
    BY <1>3, <2>1, <2>3, <2>5, <2>6, <2>8
<1> QED
  BY <1>1, <1>2, <1>3

LEMMA HandleAverageFacts ==
  ASSUME NEW s \in CanvasSet, NEW t, t = HandleAverage(s)
  PROVE  /\ t \in CanvasSet /\ SameFlags(s, t) /\ t.frame = s.frame /\ t.drawn = s.drawn
         /\ t.set = s.set /\ t.phase = s.phase
         /\ ~s.crashed /\ t.crashed => s.set.diffOptReal /\ ~s.set.optReal
         /\ ~t.crashed => t.avg = s.set /\ ~s.crashed
<1>1. CASE s.set.diffOptReal /\ ~s.set.optReal
  BY <1>1, CrashFacts DEF HandleAverage, SamePad
<1>2. CASE ~(s.set.diffOptReal /\ ~s.set.optReal)
  <2>1. t = [s EXCEPT !.avg = s.set]
    BY <1>2 DEF HandleAverage
  <2> QED
    BY <2>1 DEF CanvasSet, SameFlags
<1> QED
  BY <1>1, <1>2

-----------------------------------------------------------------------------
(* What is drawn. *)

(* The parts of a canvas a plot changes.                                   *)
Plotted(s, menu, frame, drawn) == [s EXCEPT !.menu = menu, !.frame = frame, !.drawn = drawn]

LEMMA PlottedFacts ==
  ASSUME NEW s \in CanvasSet, NEW menu \in SUBSET Entries, NEW frame \in Frames,
         NEW drawn \in Drawn \cup {None}, NEW t, t = Plotted(s, menu, frame, drawn)
  PROVE  /\ t \in CanvasSet /\ t.menu = menu /\ t.frame = frame /\ t.drawn = drawn
         /\ t.view = s.view /\ t.prev = s.prev /\ t.difference = s.difference
         /\ t.averaged = s.averaged /\ t.avg = s.avg /\ t.set = s.set /\ t.phase = s.phase
         /\ t.crashed = s.crashed
BY DEF Plotted, CanvasSet

(* Drawing changes neither the flags nor the spectra.                      *)
SameState(s, t) ==
  /\ t.view = s.view /\ t.prev = s.prev /\ t.difference = s.difference
  /\ t.averaged = s.averaged /\ t.avg = s.avg /\ t.set = s.set /\ t.phase = s.phase

LEMMA SetsOfNames ==
  /\ FourierViews \subseteq Views /\ Views \subseteq Entries /\ "DATA" \notin FourierViews
  /\ {"DIFFERENCE", "AVERAGE"} \subseteq Entries
  /\ "msr" \in Frames /\ "freq" \in Frames /\ "msr" # "freq"
BY DEF FourierViews, Views, Entries, Frames

LEMMA PlotDataFacts ==
  ASSUME NEW s \in CanvasSet, NEW unzoom \in BOOLEAN, NEW t, t = PlotData(s, unzoom)
  PROVE  /\ t \in CanvasSet /\ SameState(s, t) /\ t.crashed = s.crashed
         /\ t.drawn.kind = "data" /\ t.drawn.of = t.frame
         /\ (s.prev = "DATA" => s.frame # "freq") => t.frame # "freq"
<1>1. PICK f : f = TimeFrame(s, unzoom)
  OBVIOUS
<1>2. f \in Frames /\ ((s.prev = "DATA" => s.frame # "freq") => f # "freq")
  BY <1>1, CanvasParts, SetsOfNames DEF TimeFrame
<1>3. PICK d : d = [kind |-> "data", of |-> f]
  OBVIOUS
<1>4. d \in Drawn /\ d.kind = "data" /\ d.of = f
  BY <1>2, <1>3 DEF Drawn
<1>5. PICK m \in SUBSET Entries : m = s.menu \ FourierViews
  BY CanvasParts
<1>6. t = Plotted(s, m, f, d)
  BY <1>1, <1>3, <1>5 DEF PlotData, Plotted, CanvasSet
<1> QED
  BY <1>2, <1>4, <1>6, PlottedFacts DEF SameState

LEMMA PlotDifferenceFacts ==
  ASSUME NEW s \in CanvasSet, NEW unzoom \in BOOLEAN, NEW t, t = PlotDifference(s, unzoom)
  PROVE  /\ t \in CanvasSet /\ SameState(s, t) /\ t.crashed = s.crashed
         /\ t.drawn.kind = "diff" /\ t.drawn.of = t.frame
         /\ (s.prev = "DATA" => s.frame # "freq") => t.frame # "freq"
<1>1. PICK f : f = TimeFrame(s, unzoom)
  OBVIOUS
<1>2. f \in Frames /\ ((s.prev = "DATA" => s.frame # "freq") => f # "freq")
  BY <1>1, CanvasParts, SetsOfNames DEF TimeFrame
<1>3. PICK d : d = [kind |-> "diff", of |-> f]
  OBVIOUS
<1>4. d \in Drawn /\ d.kind = "diff" /\ d.of = f
  BY <1>2, <1>3 DEF Drawn
<1>5. PICK m \in SUBSET Entries : m = s.menu
  BY CanvasParts
<1>6. t = Plotted(s, m, f, d)
  BY <1>1, <1>3, <1>5 DEF PlotDifference, Plotted, CanvasSet
<1> QED
  BY <1>2, <1>4, <1>6, PlottedFacts DEF SameState

(* A plot in the frequency domain: it may be left before or after the      *)
(* axes are drawn.                                                         *)
LEMMA DrawFourierFacts ==
  ASSUME NEW s \in CanvasSet, ~s.crashed, NEW difference \in BOOLEAN, NEW d \in Drawn,
         NEW t, t = DrawFourier(s, difference, d)
  PROVE  /\ t \in CanvasSet /\ SameState(s, t)
         /\ \/ t.drawn = d /\ t.frame = "freq"
            \/ t.drawn = s.drawn /\ t.frame = s.frame /\ t.crashed
         /\ HasFourier(s.set, s.view, difference) /\ s.phase # None => ~t.crashed
<1>1. CASE ~HasFourier(s.set, s.view, difference)
  BY <1>1, CrashFacts DEF DrawFourier, SamePad, SameFlags, SameState
<1>2. CASE HasFourier(s.set, s.view, difference)
  <2>1. PICK u : u = Plotted(s, s.menu, "freq", d)
    OBVIOUS
  <2>2. u \in CanvasSet /\ SameState(s, u) /\ u.drawn = d /\ u.frame = "freq" /\ ~u.crashed
    BY <2>1, CanvasParts, SetsOfNames, PlottedFacts DEF SameState
  <2>3. u = [s EXCEPT !.frame = "freq", !.drawn = d]
    BY <2>1 DEF Plotted, CanvasSet
  <2>4. t = u \/ (t = Crash(u) /\ u.phase = None)
    BY <1>2, <2>2, <2>3 DEF DrawFourier, PlotFourierPhaseValue, SameState
  <2>5. CASE t = u
    BY <2>2, <2>5
  <2>6. CASE t = Crash(u) /\ u.phase = None
    BY <2>2, <2>6, CrashFacts DEF SamePad, SameFlags, SameState
  <2> QED
    BY <2>4, <2>5, <2>6
<1> QED
  BY <1>1, <1>2

LEMMA PlotFourierFacts ==
  ASSUME NEW c, NEW s \in CanvasSet, NEW t, t = PlotFourier(c, s)
  PROVE  /\ t \in CanvasSet /\ SameState(s, t)
         /\ \/ t.drawn.kind = "fourier" /\ t.drawn.of = s.set.fourier.of /\ t.frame = "freq"
            \/ t.drawn = s.drawn /\ t.frame = s.frame /\ (Musr(c) => t.crashed)
<1>1. CASE ~Musr(c) \/ s.crashed
  BY <1>1 DEF PlotFourier, SameState
<1>2. CASE Musr(c) /\ ~s.crashed /\ s.set.fourier = None
  BY <1>2, CrashFacts DEF PlotFourier, SamePad, SameFlags, SameState, HasFourier
<1>3. CASE Musr(c) /\ ~s.crashed /\ s.set.fourier # None
  <2>1. PICK o : o = s.set.fourier.of
    OBVIOUS
  <2>2. o \in Frames
    BY <1>3, <2>1, CanvasParts, SpectraParts DEF Kept
  <2>3. PICK d : d = [kind |-> "fourier", of |-> o]
    OBVIOUS
  <2>4. d \in Drawn /\ d.kind = "fourier" /\ d.of = o
    BY <2>2, <2>3 DEF Drawn, FourierKinds
  <2>5. t = DrawFourier(s, FALSE, d)
    BY <1>3, <2>1, <2>3 DEF PlotFourier
  <2>6. /\ t \in CanvasSet /\ SameState(s, t)
        /\ \/ t.drawn = d /\ t.frame = "freq"
           \/ t.drawn = s.drawn /\ t.frame = s.frame /\ t.crashed
        /\ HasFourier(s.set, s.view, FALSE) /\ s.phase # None => ~t.crashed
    BY <1>3, <2>4, <2>5, DrawFourierFacts
  <2> QED
    BY <1>3, <2>1, <2>4, <2>6
<1> QED
  BY <1>1, <1>2, <1>3

LEMMA PlotFourierLives ==
  ASSUME NEW c, NEW s \in CanvasSet, ~s.crashed,
         HasFourier(s.set, s.view, FALSE), s.phase # None,
         NEW t, t = PlotFourier(c, s)
  PROVE  ~t.crashed
<1>1. s.set.fourier # None
  BY DEF HasFourier
<1>2. PICK d : d = [kind |-> "fourier", of |-> s.set.fourier.of]
  OBVIOUS
<1>3. CASE ~Musr(c)
  BY <1>3 DEF PlotFourier
<1>4. CASE Musr(c)
  <2>1. d \in Drawn
    BY <1>1, <1>2, CanvasParts, SpectraParts DEF Kept, KeptDifference, Drawn, FourierKinds
  <2>2. t = DrawFourier(s, FALSE, d)
    BY <1>1, <1>2, <1>4 DEF PlotFourier
  <2> QED
    BY <2>1, <2>2, DrawFourierFacts
<1> QED
  BY <1>3, <1>4

LEMMA PlotFourierDifferenceFacts ==
  ASSUME NEW c, NEW s \in CanvasSet, NEW t, t = PlotFourierDifference(c, s)
  PROVE  /\ t \in CanvasSet /\ SameState(s, t)
         /\ \/ /\ t.drawn.kind = s.set.diffFourier.order /\ t.drawn.kind \in {"d-f", "f-d"}
               /\ t.drawn.of = s.set.diffFourier.of /\ t.frame = "freq"
            \/ t.drawn = s.drawn /\ t.frame = s.frame /\ (Musr(c) => t.crashed)
<1>1. CASE ~Musr(c) \/ s.crashed
  BY <1>1 DEF PlotFourierDifference, SameState
<1>2. CASE Musr(c) /\ ~s.crashed /\ s.set.diffFourier = None
  BY <1>2, CrashFacts DEF PlotFourierDifference, SamePad, SameFlags, SameState, HasFourier
<1>3. CASE Musr(c) /\ ~s.crashed /\ s.set.diffFourier # None
  <2>1. PICK o, r : o = s.set.diffFourier.of /\ r = s.set.diffFourier.order
    OBVIOUS
  <2>2. o \in Frames /\ r \in {"d-f", "f-d"}
    BY <1>3, <2>1, CanvasParts, SpectraParts DEF KeptDifference
  <2>3. PICK d : d = [kind |-> r, of |-> o]
    OBVIOUS
  <2>4. d \in Drawn /\ d.kind = r /\ d.of = o
    BY <2>2, <2>3 DEF Drawn, FourierKinds
  <2>5. t = DrawFourier(s, TRUE, d)
    BY <1>3, <2>1, <2>3 DEF PlotFourierDifference
  <2>6. /\ t \in CanvasSet /\ SameState(s, t)
        /\ \/ t.drawn = d /\ t.frame = "freq"
           \/ t.drawn = s.drawn /\ t.frame = s.frame /\ t.crashed
        /\ HasFourier(s.set, s.view, TRUE) /\ s.phase # None => ~t.crashed
    BY <1>3, <2>4, <2>5, DrawFourierFacts
  <2> QED
    BY <1>3, <2>1, <2>2, <2>4, <2>6
<1> QED
  BY <1>1, <1>2, <1>3

LEMMA PlotFourierDifferenceLives ==
  ASSUME NEW c, NEW s \in CanvasSet, ~s.crashed,
         HasFourier(s.set, s.view, TRUE), s.phase # None,
         NEW t, t = PlotFourierDifference(c, s)
  PROVE  ~t.crashed
<1>1. s.set.diffFourier # None
  BY DEF HasFourier
<1>2. PICK d : d = [kind |-> s.set.diffFourier.order, of |-> s.set.diffFourier.of]
  OBVIOUS
<1>3. CASE ~Musr(c)
  BY <1>3 DEF PlotFourierDifference
<1>4. CASE Musr(c)
  <2>1. d \in Drawn
    BY <1>1, <1>2, CanvasParts, SpectraParts DEF Kept, KeptDifference, Drawn, FourierKinds
  <2>2. t = DrawFourier(s, TRUE, d)
    BY <1>1, <1>2, <1>4 DEF PlotFourierDifference
  <2> QED
    BY <2>1, <2>2, DrawFourierFacts
<1> QED
  BY <1>3, <1>4

LEMMA PlotAverageFacts ==
  ASSUME NEW s \in CanvasSet, NEW t, t = PlotAverage(s)
  PROVE  /\ t \in CanvasSet /\ SameState(s, t) /\ t.frame = s.frame
         /\ t.drawn.kind = "average" \/ (t.drawn = s.drawn /\ t.crashed)
         /\ ~s.crashed /\ HasView(s.avg, s.view, s.difference) => ~t.crashed
         /\ s.crashed => t.crashed
<1>1. CASE ~s.crashed /\ HasView(s.avg, s.view, s.difference)
  <2>1. PICK d : d = [kind |-> "average", of |-> s.frame]
    OBVIOUS
  <2>2. d \in Drawn /\ d.kind = "average"
    BY <2>1, CanvasParts DEF Drawn
  <2>3. PICK m \in SUBSET Entries, f \in Frames : m = s.menu /\ f = s.frame
    BY CanvasParts
  <2>4. t = Plotted(s, m, f, d)
    BY <1>1, <2>1, <2>3 DEF PlotAverage, Plotted, CanvasSet
  <2> QED
    BY <1>1, <2>2, <2>3, <2>4, PlottedFacts DEF SameState
<1>2. CASE ~(~s.crashed /\ HasView(s.avg, s.view, s.difference))
  <2>1. t = Crash(s)
    BY <1>2 DEF PlotAverage
  <2> QED
    BY <1>2, <2>1, CrashFacts DEF SamePad, SameFlags, SameState
<1> QED
  BY <1>1, <1>2

-----------------------------------------------------------------------------
(* Turning the phase, and the flags. *)

LEMMA TurnPhaseFacts ==
  ASSUME NEW s \in CanvasSet, NEW step \in {-1, 1}, NEW t, t = TurnPhase(s, step), Bounded(t)
  PROVE  /\ t \in CanvasSet /\ SamePad(s, t)
         /\ s.set.fourier = None <=> t.set.fourier = None
         /\ s.set.diffFourier = None <=> t.set.diffFourier = None
         /\ t.set.diff = s.set.diff /\ t.set.optReal = s.set.optReal
         /\ t.set.diffOptReal = s.set.diffOptReal
         /\ s.phase = None <=> t.phase = None
         /\ s.crashed => t.crashed
         /\ t.crashed => s.crashed \/ s.phase = None
<1>1. CASE s.view = "PWR"
  BY <1>1 DEF TurnPhase, SamePad, SameFlags
<1>2. CASE s.view # "PWR"
  <2>1. PICK y \in Spectra : y = s.set
    BY CanvasParts
  <2>2. PICK r : r = IF y.fourier = None THEN None ELSE [y.fourier EXCEPT !.turn = @ + step]
    OBVIOUS
  <2>3. PICK q : q = IF y.diffFourier = None THEN None ELSE [y.diffFourier EXCEPT !.turn = @ + step]
    OBVIOUS
  <2>4. PICK p : p = IF s.phase = None THEN None ELSE s.phase + step
    OBVIOUS
  <2>5. PICK x : x = [y EXCEPT !.fourier = r, !.diffFourier = q]
    OBVIOUS
  <2>6. PICK u : u = With(s, x, p)
    OBVIOUS
  <2>7. t = PlotFourierPhaseValue(u)
    BY <1>2, <2>1, <2>2, <2>3, <2>4, <2>5, <2>6 DEF TurnPhase, CanvasSet, Spectra, With
  <2>8. t = u \/ (t = Crash(u) /\ u.phase = None)
    BY <2>7 DEF PlotFourierPhaseValue
  <2>9. /\ x.fourier = r /\ x.diffFourier = q /\ x.diff = y.diff
        /\ x.optReal = y.optReal /\ x.diffOptReal = y.diffOptReal
    BY <2>1, <2>5 DEF Spectra
  <2>10. u.set = x /\ u.phase = p
    BY <2>6 DEF With, CanvasSet
  <2>11. t.set = x /\ t.phase = p
    <3>1. CASE t = Crash(u)
      <4>1. t.set = u.set /\ t.phase = u.phase
        BY <2>6, <3>1 DEF Crash, With, CanvasSet
      <4> QED
        BY <2>10, <4>1
    <3> QED
      BY <2>8, <2>10, <3>1
  <2>12. r \in Kept \cup {None} /\ (r = None <=> y.fourier = None)
    <3>1. CASE y.fourier = None
      BY <2>2, <3>1
    <3>2. CASE y.fourier # None
      <4>1. y.fourier \in Kept
        BY <2>1, <3>2, SpectraParts
      <4>2. r \in [of : Frames, turn : Int]
        BY <2>2, <3>2, <4>1, MusrCanvasAssumption DEF Kept
      <4>3. r # None
        BY <4>2, NoSpectrum
      <4>4. r.turn \in -MaxTurn..MaxTurn
        BY <2>9, <2>11, <4>3 DEF Bounded
      <4>5. r.of \in Frames /\ r = [of |-> r.of, turn |-> r.turn]
        BY <4>2
      <4> QED
        BY <3>2, <4>3, <4>4, <4>5 DEF Kept
    <3> QED
      BY <3>1, <3>2
  <2>13. q \in KeptDifference \cup {None} /\ (q = None <=> y.diffFourier = None)
    <3>1. CASE y.diffFourier = None
      BY <2>3, <3>1
    <3>2. CASE y.diffFourier # None
      <4>1. y.diffFourier \in KeptDifference
        BY <2>1, <3>2, SpectraParts
      <4>2. q \in [order : {"d-f", "f-d"}, of : Frames, turn : Int]
        BY <2>3, <3>2, <4>1, MusrCanvasAssumption DEF KeptDifference
      <4>3. q # None
        BY <4>2, NoSpectrum
      <4>4. q.turn \in -MaxTurn..MaxTurn
        BY <2>9, <2>11, <4>3 DEF Bounded
      <4>5. /\ q.of \in Frames /\ q.order \in {"d-f", "f-d"}
            /\ q = [order |-> q.order, of |-> q.of, turn |-> q.turn]
        BY <4>2
      <4> QED
        BY <3>2, <4>3, <4>4, <4>5 DEF KeptDifference
    <3> QED
      BY <3>1, <3>2
  <2>14. p \in Turns \cup {None} /\ (p = None <=> s.phase = None)
    <3>1. CASE s.phase = None
      BY <2>4, <3>1
    <3>2. CASE s.phase # None
      <4>1. p \in Int
        BY <2>4, <3>2, CanvasParts, MusrCanvasAssumption DEF Turns
      <4> QED
        BY <2>11, <3>2, <4>1, NoSpectrum DEF Bounded, Turns
    <3> QED
      BY <3>1, <3>2
  <2>15. x \in Spectra
    BY <2>5, <2>12, <2>13 DEF Spectra
  <2>16. u \in CanvasSet /\ SamePad(s, u) /\ u.crashed = s.crashed
    BY <2>6, <2>14, <2>15, Recalculated
  <2>17. t \in CanvasSet /\ SamePad(s, t) /\ (t.crashed => s.crashed \/ s.phase = None)
         /\ (s.crashed => t.crashed)
    <3>1. CASE t = u
      BY <2>16, <3>1
    <3>2. CASE t = Crash(u) /\ u.phase = None
      BY <2>10, <2>14, <2>16, <3>2, CrashFacts DEF SamePad, SameFlags
    <3> QED
      BY <2>8, <3>1, <3>2
  <2> QED
    BY <2>1, <2>9, <2>11, <2>12, <2>13, <2>14, <2>17
<1> QED
  BY <1>1, <1>2

(* Handlers set the flags before they draw.                                *)
Flagged(s, view, prev, difference, averaged, menu) ==
  [s EXCEPT !.view = view, !.prev = prev, !.difference = difference,
            !.averaged = averaged, !.menu = menu]

LEMMA FlaggedFacts ==
  ASSUME NEW s \in CanvasSet, NEW view \in Views, NEW prev \in Views,
         NEW difference \in BOOLEAN, NEW averaged \in BOOLEAN, NEW menu \in SUBSET Entries,
         NEW t, t = Flagged(s, view, prev, difference, averaged, menu)
  PROVE  /\ t \in CanvasSet
         /\ t.view = view /\ t.prev = prev /\ t.difference = difference
         /\ t.averaged = averaged /\ t.menu = menu
         /\ t.avg = s.avg /\ t.frame = s.frame /\ t.drawn = s.drawn
         /\ t.set = s.set /\ t.phase = s.phase /\ t.crashed = s.crashed
BY DEF Flagged, CanvasSet

LEMMA PhaseEntriesFacts ==
  ASSUME NEW s \in CanvasSet, NEW b \in BOOLEAN, NEW t, t = [s EXCEPT !.phaseEntries = b]
  PROVE  /\ t \in CanvasSet /\ SamePad(s, t) /\ t.set = s.set /\ t.phase = s.phase
         /\ t.crashed = s.crashed
BY DEF CanvasSet, SamePad, SameFlags

LEMMA CleanupAverageFacts ==
  ASSUME NEW s \in CanvasSet, NEW t, t = CleanupAverage(s)
  PROVE  /\ t \in CanvasSet /\ SameFlags(s, t) /\ t.frame = s.frame /\ t.drawn = s.drawn
         /\ t.set = s.set /\ t.phase = s.phase /\ t.crashed = s.crashed
BY DEF CleanupAverage, CanvasSet, SameFlags

-----------------------------------------------------------------------------
(* The last switch of a handler. *)

(* A plot of data has a time axis, and so has a canvas in the data view.   *)
PadInTime(s) ==
  s.drawn # None /\ s.drawn.kind \in {"data", "diff"} => s.frame # "freq" /\ s.drawn.of # "freq"
InTime(s) == PadInTime(s) /\ (s.view = "DATA" => s.frame # "freq")

Asked(s) ==
  IF s.view = "DATA" THEN {IF s.difference THEN "diff" ELSE "data"}
  ELSE IF s.difference THEN {"d-f", "f-d"} ELSE {"fourier"}

(* What is drawn when the spectra are there.                               *)
Redrawn(c, s, t) ==
  /\ t \in CanvasSet
  /\ t.view = s.view /\ t.prev = s.prev /\ t.difference = s.difference
  /\ t.averaged = s.averaged /\ t.avg = s.avg
  /\ InTime(t)
  /\ Musr(c) /\ ~t.crashed => t.drawn.kind \in Asked(t)

LEMMA RedrawnInTime ==
  ASSUME NEW c, NEW s \in CanvasSet, NEW u \in CanvasSet, SamePad(s, u), NEW unzoom \in BOOLEAN,
         s.view = "DATA", s.prev = "DATA" => s.frame # "freq",
         NEW t, t = IF s.difference THEN PlotDifference(u, unzoom) ELSE PlotData(u, unzoom)
  PROVE  Redrawn(c, s, t) /\ t.crashed = u.crashed /\ t.set = u.set /\ t.phase = u.phase
BY PlotDataFacts, PlotDifferenceFacts
   DEF Redrawn, SameState, SamePad, SameFlags, InTime, PadInTime, Asked

(* A Fourier plot of what is asked for, or one which was given up.         *)
LEMMA RedrawnInFrequency ==
  ASSUME NEW c, NEW s \in CanvasSet, NEW u \in CanvasSet, SamePad(s, u),
         s.view # "DATA", PadInTime(s),
         NEW t \in CanvasSet, SameState(u, t),
         \/ t.drawn.kind \in Asked(s)
         \/ t.drawn = u.drawn /\ t.frame = u.frame /\ (Musr(c) => t.crashed)
  PROVE  Redrawn(c, s, t)
<1>1. /\ u.view = s.view /\ u.prev = s.prev /\ u.difference = s.difference
      /\ u.averaged = s.averaged /\ u.avg = s.avg /\ u.frame = s.frame /\ u.drawn = s.drawn
  BY DEF SamePad, SameFlags
<1>2. /\ t.view = s.view /\ t.prev = s.prev /\ t.difference = s.difference
      /\ t.averaged = s.averaged /\ t.avg = s.avg
  BY <1>1 DEF SameState
<1>3. Asked(t) = Asked(s) /\ Asked(s) \in {{"d-f", "f-d"}, {"fourier"}}
  BY <1>2 DEF Asked
<1>4. InTime(t)
  BY <1>1, <1>2, <1>3 DEF InTime, PadInTime
<1>5. Musr(c) /\ ~t.crashed => t.drawn.kind \in Asked(t)
  BY <1>3
<1> QED
  BY <1>2, <1>4, <1>5 DEF Redrawn

LEMMA FourierRedrawn ==
  ASSUME NEW c, NEW s \in CanvasSet, NEW u \in CanvasSet, SamePad(s, u),
         s.view # "DATA", ~s.difference, PadInTime(s), NEW t, t = PlotFourier(c, u)
  PROVE  Redrawn(c, s, t)
<1>1. t \in CanvasSet /\ SameState(u, t)
  BY PlotFourierFacts
<1>3. \/ t.drawn.kind = "fourier"
      \/ t.drawn = u.drawn /\ t.frame = u.frame /\ (Musr(c) => t.crashed)
  BY PlotFourierFacts
<1>2. Asked(s) = {"fourier"}
  BY DEF Asked
<1> QED
  BY <1>1, <1>2, <1>3, RedrawnInFrequency

LEMMA FourierDifferenceRedrawn ==
  ASSUME NEW c, NEW s \in CanvasSet, NEW u \in CanvasSet, SamePad(s, u),
         s.view # "DATA", s.difference, PadInTime(s), NEW t, t = PlotFourierDifference(c, u)
  PROVE  Redrawn(c, s, t)
<1>1. t \in CanvasSet /\ SameState(u, t)
  BY PlotFourierDifferenceFacts
<1>3. \/ t.drawn.kind \in {"d-f", "f-d"}
      \/ t.drawn = u.drawn /\ t.frame = u.frame /\ (Musr(c) => t.crashed)
  BY PlotFourierDifferenceFacts
<1>2. Asked(s) = {"d-f", "f-d"}
  BY DEF Asked
<1> QED
  BY <1>1, <1>2, <1>3, RedrawnInFrequency

-----------------------------------------------------------------------------
(* What Show draws. *)

(* The switch is for the view and the difference flag of the canvas.       *)
Fits(switch, s) ==
  IF s.view = "DATA" THEN switch = IF s.difference THEN "kDiffData" ELSE "kData"
  ELSE switch \in IF s.difference THEN {"kDiffFourier", "kFourierDiff"} ELSE {"kFourier"}

(* ... and what it finds there.                                            *)
ReadyToShow(switch, s) ==
  /\ s \in CanvasSet /\ Fits(switch, s) /\ PadInTime(s)
  /\ s.prev = "DATA" /\ s.view = "DATA" => s.frame # "freq"

LEMMA ShowRedraws ==
  ASSUME NEW c, NEW s, NEW switch, ReadyToShow(switch, s), NEW t, t = Show(c, s, switch)
  PROVE  Redrawn(c, s, t)
<1>1. s \in CanvasSet /\ PadInTime(s)
  BY DEF ReadyToShow
<1>2. CASE s.view = "DATA" /\ s.difference
  <2>1. PICK v : v = CleanupFourierDifference(s)
    OBVIOUS
  <2>2. PICK u : u = HandleDifference(v)
    OBVIOUS
  <2>3. v \in CanvasSet /\ SamePad(s, v)
    BY <1>1, <2>1, CleanupFourierDifferenceFacts
  <2>4. u \in CanvasSet /\ SamePad(s, u)
    BY <2>2, <2>3, HandleDifferenceFacts DEF SamePad, SameFlags
  <2>5. switch = "kDiffData"
    BY <1>2 DEF ReadyToShow, Fits
  <2>6. t = PlotDifference(u, FALSE)
    BY <2>1, <2>2, <2>5 DEF Show
  <2> QED
    BY <1>1, <1>2, <2>4, <2>6, RedrawnInTime DEF ReadyToShow
<1>3. CASE s.view = "DATA" /\ ~s.difference
  <2>1. PICK v : v = CleanupDifference(c, s)
    OBVIOUS
  <2>2. PICK u : u = CleanupFourier(v)
    OBVIOUS
  <2>3. v \in CanvasSet /\ SamePad(s, v)
    BY <1>1, <2>1, CleanupDifferenceFacts
  <2>4. u \in CanvasSet /\ SamePad(s, u)
    BY <2>2, <2>3, CleanupFourierFacts DEF SamePad, SameFlags
  <2>5. switch = "kData"
    BY <1>3 DEF ReadyToShow, Fits
  <2>6. t = PlotData(u, FALSE)
    BY <2>1, <2>2, <2>5 DEF Show
  <2> QED
    BY <1>1, <1>3, <2>4, <2>6, RedrawnInTime DEF ReadyToShow
<1>4. CASE s.view # "DATA" /\ ~s.difference
  <2>1. PICK u : u = HandleFourier(c, s)
    OBVIOUS
  <2>2. u \in CanvasSet /\ SamePad(s, u)
    BY <1>1, <2>1, HandleFourierFacts
  <2>3. switch = "kFourier"
    BY <1>4 DEF ReadyToShow, Fits
  <2>4. t = PlotFourier(c, u)
    BY <2>1, <2>3 DEF Show
  <2> QED
    BY <1>1, <1>4, <2>2, <2>4, FourierRedrawn
<1>5. CASE s.view # "DATA" /\ s.difference
  <2>1. PICK u : u = IF switch = "kDiffFourier" THEN HandleDifferenceFourier(c, s)
                     ELSE HandleFourierDifference(c, s)
    OBVIOUS
  <2>2. u \in CanvasSet /\ SamePad(s, u)
    BY <1>1, <2>1, HandleDifferenceFourierFacts, HandleFourierDifferenceFacts
  <2>3. switch \in {"kDiffFourier", "kFourierDiff"}
    BY <1>5 DEF ReadyToShow, Fits
  <2>4. t = PlotFourierDifference(c, u)
    BY <2>1, <2>3 DEF Show
  <2> QED
    BY <1>1, <1>5, <2>2, <2>4, FourierDifferenceRedrawn
<1> QED
  <2>1. s.difference \in BOOLEAN
    BY <1>1, CanvasParts
  <2> QED
    BY <1>2, <1>3, <1>4, <1>5, <2>1

LEMMA SwitchFits ==
  ASSUME NEW s, NEW view, view = s.view, NEW difference, difference = s.difference
  PROVE  Fits(SwitchOf(view, difference), s) /\ SwitchOf(view, difference) \in Switches
BY DEF Fits, SwitchOf, Switches

-----------------------------------------------------------------------------
(* The invariant of one canvas, and of all of them. *)

(* avg is what is averaged when the flag says so.                          *)
Good(s) ==
  /\ s \in CanvasSet /\ InTime(s)
  /\ s.averaged /\ ~s.crashed => s.avg \in Spectra

(* What is drawn, unless it is an average.                                 *)
AsAsked(c, s) == Musr(c) /\ ~s.averaged /\ ~s.crashed => s.drawn.kind \in Asked(s)

TypeInv ==
  /\ user \in User /\ setup \in [user.canvases -> Setup]
  /\ DOMAIN canvas = user.canvases /\ canvas = [c \in user.canvases |-> canvas[c]]
  /\ open \subseteq user.canvases
  /\ lastKey \in Switches /\ lastView \in Views
  /\ app \in {"running", "done", "crashed"}

Inv ==
  /\ TypeInv
  /\ \A c \in user.canvases : Good(canvas[c])
  /\ app = "running" => \A c \in user.canvases : ~canvas[c].crashed
  /\ user.entries = {} => \A c \in user.canvases : AsAsked(c, canvas[c])

(* A canvas which becomes s.                                               *)
LEMMA OneCanvas ==
  ASSUME TypeInv, NEW c \in user.canvases, NEW s, NEW f, f = [canvas EXCEPT ![c] = s]
  PROVE  /\ f[c] = s /\ DOMAIN f = user.canvases
         /\ \A d \in user.canvases \ {c} : f[d] = canvas[d]
BY DEF TypeInv

(* What every key does.                                                    *)
LEMMA AfterKeyInv ==
  ASSUME Inv, NEW c \in user.canvases, NEW s, NEW switch \in Switches,
         AfterKey(c, s, switch), app = "running",
         Good(Show(c, s, switch)), user.entries = {} => AsAsked(c, Show(c, s, switch))
  PROVE  Inv'
<1>1. PICK shown : shown = Show(c, s, switch)
  OBVIOUS
<1>2. PICK b : b \in BOOLEAN /\ b = (s.view # "DATA")
  OBVIOUS
<1>3. PICK t : t = [shown EXCEPT !.phaseEntries = b]
  OBVIOUS
<1>4. shown \in CanvasSet
  BY <1>1 DEF Good
<1>5. /\ t \in CanvasSet /\ SamePad(shown, t) /\ t.set = shown.set /\ t.phase = shown.phase
      /\ t.crashed = shown.crashed
  BY <1>2, <1>3, <1>4, PhaseEntriesFacts
<1>6. Good(t) /\ (user.entries = {} => AsAsked(c, t))
  BY <1>1, <1>5 DEF Good, AsAsked, Asked, InTime, PadInTime, SamePad, SameFlags
<1>7. canvas' = [canvas EXCEPT ![c] = t]
  BY <1>1, <1>2, <1>3 DEF AfterKey
<1>8. TypeInv
  BY DEF Inv
<1>9. /\ canvas'[c] = t /\ DOMAIN canvas' = user.canvases
      /\ \A d \in user.canvases \ {c} : canvas'[d] = canvas[d]
  BY <1>7, <1>8, OneCanvas
<1>10. app' = IF t.crashed THEN "crashed" ELSE "running"
  BY <1>1, <1>5 DEF AfterKey
<1>11. UNCHANGED <<user, setup, open, lastView>> /\ lastKey' = switch
  BY DEF AfterKey
<1>12. TypeInv'
  BY <1>7, <1>8, <1>9, <1>10, <1>11 DEF TypeInv
<1>13. \A d \in user'.canvases : Good(canvas'[d])
  BY <1>6, <1>9, <1>11 DEF Inv
<1>14. app' = "running" => \A d \in user'.canvases : ~canvas'[d].crashed
  BY <1>9, <1>10, <1>11 DEF Inv
<1>15. user'.entries = {} => \A d \in user'.canvases : AsAsked(d, canvas[d])
  BY <1>11 DEF Inv
<1>16. (user.entries = {} => \A d \in user.canvases : AsAsked(d, canvas[d]))'
  BY <1>6, <1>9, <1>11, <1>15 DEF AsAsked, Musr
<1> QED
  BY <1>12, <1>13, <1>14, <1>16 DEF Inv

(* Another variable of the menu: the view of the last canvas of some.      *)
LEMMA MaxOfSome ==
  ASSUME NEW n \in Nat, NEW S, S \subseteq 0..n, S # {}
  PROVE  Max(S) \in S
<1>1. PICK T : T = {k \in Nat : \E x \in S : k = n - x}
  OBVIOUS
<1>0. \A x \in S : x \in Int /\ n - x \in T
  BY <1>1
<1>2. T \subseteq Nat /\ T # {}
  BY <1>0, <1>1
<1>3. PICK m \in T : \A k \in T : <<k, m>> \notin OpToRel(<, Nat)
  BY <1>2, WFMin, NatLessThanWellFounded, Zenon
<1>4. \A k \in T : ~(k < m)
  BY <1>2, <1>3, Zenon DEF OpToRel
<1>5. PICK x \in S : m = n - x
  BY <1>1, <1>3
<1>6. \A y \in S : x >= y
  <2> SUFFICES ASSUME NEW y \in S PROVE x >= y
    OBVIOUS
  <2>1. ~(n - y < n - x)
    BY <1>0, <1>4, <1>5
  <2> QED
    BY <1>0, <2>1
<1>7. \E z \in S : \A y \in S : z >= y
  BY <1>6
<1> QED
  BY <1>7 DEF Max

LEMMA ViewAfterType ==
  ASSUME Inv, NEW S \in SUBSET user.canvases, NEW before \in Views
  PROVE  ViewAfter(S, before) \in Views
<1>1. user.canvases \subseteq Canvases
  BY DEF Inv, TypeInv, User
<1>2. PICK n \in Nat : Canvases \subseteq 0..n
  BY MusrCanvasAssumption
<1>3. CASE S = {}
  BY <1>3 DEF ViewAfter
<1>4. CASE S # {}
  <2>1. PICK d : d = Max(S)
    OBVIOUS
  <2>2. d \in user.canvases
    BY <1>1, <1>2, <1>4, <2>1, MaxOfSome
  <2>3. canvas[d].view \in Views
    BY <2>2, CanvasParts DEF Inv, Good
  <2> QED
    BY <1>4, <2>1, <2>3 DEF ViewAfter
<1> QED
  BY <1>3, <1>4

(* The handlers which leave their canvases alone enable "Phase +" there.   *)
LEMMA RefreshedFacts ==
  ASSUME TypeInv, NEW f, \A d \in user.canvases : f[d] \in CanvasSet,
         NEW g, g = Refreshed(f), NEW d \in user.canvases
  PROVE  /\ g[d] \in CanvasSet /\ SamePad(f[d], g[d]) /\ g[d].set = f[d].set
         /\ g[d].phase = f[d].phase /\ g[d].crashed = f[d].crashed
<1>1. PICK s \in CanvasSet : s = f[d]
  OBVIOUS
<1>2. PICK b : b \in BOOLEAN /\ b = (s.view # "DATA")
  OBVIOUS
<1>3. PICK t : t = [s EXCEPT !.phaseEntries = b]
  OBVIOUS
<1>4. g[d] = t
  BY <1>1, <1>2, <1>3 DEF Refreshed
<1>5. /\ t \in CanvasSet /\ SamePad(s, t) /\ t.set = s.set
      /\ t.phase = s.phase /\ t.crashed = s.crashed
  BY <1>2, <1>3, PhaseEntriesFacts
<1> QED
  BY <1>1, <1>4, <1>5

LEMMA GoodRefreshed ==
  ASSUME NEW c, NEW s, NEW t \in CanvasSet, SamePad(s, t), t.crashed = s.crashed
  PROVE  /\ Good(s) => Good(t)
         /\ AsAsked(c, s) => AsAsked(c, t)
BY DEF Good, AsAsked, Asked, InTime, PadInTime, SamePad, SameFlags

(* What every entry of the menu does.                                      *)
LEMMA AfterMenuInv ==
  ASSUME Inv, NEW c \in user.canvases, NEW s, AfterMenu(c, s), app = "running",
         user.entries # {}, Good(s)
  PROVE  Inv'
<1>1. PICK f : f = [canvas EXCEPT ![c] = s]
  OBVIOUS
<1>2. TypeInv
  BY DEF Inv
<1>3. /\ f[c] = s /\ DOMAIN f = user.canvases
      /\ \A d \in user.canvases \ {c} : f[d] = canvas[d]
  BY <1>1, <1>2, OneCanvas
<1>4. canvas' = Refreshed(f)
  BY <1>1 DEF AfterMenu
<1>5. \A d \in user.canvases : Good(f[d])
  BY <1>3 DEF Inv
<1>6. \A d \in user.canvases : f[d] \in CanvasSet
  BY <1>5 DEF Good
<1>7. \A d \in user.canvases : Good(canvas'[d]) /\ canvas'[d].crashed = f[d].crashed
  <2> SUFFICES ASSUME NEW d \in user.canvases
               PROVE  Good(canvas'[d]) /\ canvas'[d].crashed = f[d].crashed
    OBVIOUS
  <2>1. PICK t : t = canvas'[d]
    OBVIOUS
  <2>2. t \in CanvasSet /\ SamePad(f[d], t) /\ t.crashed = f[d].crashed
    BY <1>2, <1>4, <1>6, <2>1, RefreshedFacts
  <2> QED
    BY <1>5, <2>1, <2>2, GoodRefreshed
<1>8. app' = IF s.crashed THEN "crashed" ELSE "running"
  BY DEF AfterMenu
<1>9. UNCHANGED <<user, setup, open, lastKey>>
  BY DEF AfterMenu
<1>10. lastView' \in Views
  <2>1. lastView' = ViewAfter({d \in user.canvases : d > c}, s.view)
    BY DEF AfterMenu
  <2>2. s.view \in Views
    BY CanvasParts DEF Good
  <2> QED
    BY <2>1, <2>2, ViewAfterType
<1>11. TypeInv'
  BY <1>2, <1>4, <1>8, <1>9, <1>10 DEF TypeInv, Refreshed
<1>12. app' = "running" => \A d \in user'.canvases : ~canvas'[d].crashed
  BY <1>3, <1>7, <1>8, <1>9 DEF Inv
<1> QED
  BY <1>7, <1>9, <1>11, <1>12 DEF Inv

-----------------------------------------------------------------------------
(* The keys. *)

LEMMA WhatIsThere ==
  ASSUME Inv, app = "running", NEW c \in open
  PROVE  /\ c \in user.canvases
         /\ canvas[c] \in CanvasSet /\ InTime(canvas[c]) /\ ~canvas[c].crashed
         /\ canvas[c].averaged => canvas[c].avg \in Spectra
         /\ user.entries = {} => AsAsked(c, canvas[c])
         /\ setup[c].tag \in FourierViews
<1>1. c \in user.canvases
  BY DEF Inv, TypeInv
<1>2. setup[c] \in Setup
  BY <1>1 DEF Inv, TypeInv
<1> QED
  BY <1>1, <1>2 DEF Inv, Good, Setup

(* A canvas which was drawn anew keeps its invariant.                      *)
LEMMA RedrawnGood ==
  ASSUME NEW c, NEW s, s.averaged => s.avg \in Spectra, NEW t, Redrawn(c, s, t)
  PROVE  Good(t) /\ AsAsked(c, t)
BY DEF Redrawn, Good, AsAsked

(* Show when there is nothing left to show.                                *)
LEMMA NothingToShow ==
  ASSUME NEW c, NEW s
  PROVE  Show(c, s, "kNotRelevant") = s
BY DEF Show

LEMMA KeyDifferenceInv ==
  ASSUME Inv, NEW c \in open, KeyDifference(c)
  PROVE  Inv'
<1>1. app = "running"
  BY DEF KeyDifference, Key
<1>2. PICK s \in CanvasSet : s = canvas[c]
  BY <1>1, WhatIsThere
<1>3. PICK on \in BOOLEAN : on = ~s.difference
  OBVIOUS
<1>4. PICK m \in SUBSET Entries : m = Check(s, "DIFFERENCE", on).menu
  BY CanvasParts, SetsOfNames DEF Check, CanvasSet
<1>5. PICK u : u = Flagged(s, s.view, s.view, on, s.averaged, m)
  OBVIOUS
<1>6. /\ u \in CanvasSet /\ u.view = s.view /\ u.prev = s.view /\ u.difference = on
      /\ u.averaged = s.averaged /\ u.avg = s.avg /\ u.frame = s.frame /\ u.drawn = s.drawn
  <2>1. PICK v \in Views, g \in BOOLEAN : v = s.view /\ g = s.averaged
    BY CanvasParts
  <2>2. u = Flagged(s, v, v, on, g, m)
    BY <1>5, <2>1
  <2>3. /\ u \in CanvasSet /\ u.view = v /\ u.prev = v /\ u.difference = on
        /\ u.averaged = g /\ u.avg = s.avg /\ u.frame = s.frame /\ u.drawn = s.drawn
    BY <2>2, FlaggedFacts
  <2> QED
    BY <2>1, <2>3
<1>7. AfterKey(c, u, SwitchOf(u.view, u.difference))
  <2>1. u = [Check(s, "DIFFERENCE", on) EXCEPT !.difference = on, !.prev = s.view]
    BY <1>4, <1>5 DEF Check, Flagged, CanvasSet
  <2> QED
    BY <1>2, <1>3, <1>6, <2>1 DEF KeyDifference
<1>8. PICK w : w = SwitchOf(u.view, u.difference)
  OBVIOUS
<1>9. ReadyToShow(w, u) /\ w \in Switches
  BY <1>1, <1>2, <1>6, <1>8, WhatIsThere, SwitchFits DEF ReadyToShow, InTime, PadInTime
<1>10. Redrawn(c, u, Show(c, u, w))
  BY <1>9, ShowRedraws
<1>11. Good(Show(c, u, w)) /\ AsAsked(c, Show(c, u, w))
  BY <1>1, <1>2, <1>6, <1>10, WhatIsThere, RedrawnGood
<1> QED
  BY <1>1, <1>7, <1>8, <1>9, <1>11, WhatIsThere, AfterKeyInv

LEMMA KeyFourierInv ==
  ASSUME Inv, NEW c \in open, KeyFourier(c)
  PROVE  Inv'
<1>1. app = "running"
  BY DEF KeyFourier, Key
<1>2. PICK s \in CanvasSet : s = canvas[c]
  BY <1>1, WhatIsThere
<1>3. PICK to : to = IF s.view = "DATA" THEN setup[c].tag ELSE "DATA"
  OBVIOUS
<1>4. to \in Views
  BY <1>1, <1>3, WhatIsThere, SetsOfNames DEF Views
<1>5. PICK m \in SUBSET Entries : m = (s.menu \ Views) \cup {to}
  BY <1>4, CanvasParts, SetsOfNames
<1>6. PICK u : u = Flagged(s, to, s.view, s.difference, s.averaged, m)
  OBVIOUS
<1>7. /\ u \in CanvasSet /\ u.view = to /\ u.prev = s.view /\ u.difference = s.difference
      /\ u.averaged = s.averaged /\ u.avg = s.avg /\ u.frame = s.frame /\ u.drawn = s.drawn
  <2>1. PICK v \in Views, d \in BOOLEAN, g \in BOOLEAN :
          v = s.view /\ d = s.difference /\ g = s.averaged
    BY CanvasParts
  <2>2. u = Flagged(s, to, v, d, g, m)
    BY <1>6, <2>1
  <2>3. /\ u \in CanvasSet /\ u.view = to /\ u.prev = v /\ u.difference = d
        /\ u.averaged = g /\ u.avg = s.avg /\ u.frame = s.frame /\ u.drawn = s.drawn
    BY <1>4, <2>2, FlaggedFacts
  <2> QED
    BY <2>1, <2>3
<1>8. PICK w : w = IF s.view = "DATA"
                   THEN IF s.difference THEN "kDiffFourier" ELSE "kFourier"
                   ELSE IF s.difference THEN "kDiffData" ELSE "kData"
  OBVIOUS
<1>9. AfterKey(c, u, w)
  <2>1. u = [s EXCEPT !.prev = s.view, !.view = to, !.menu = (s.menu \ Views) \cup {to}]
    BY <1>5, <1>6 DEF Flagged, CanvasSet
  <2> QED
    BY <1>2, <1>3, <1>8, <2>1 DEF KeyFourier
<1>10. w \in Switches
  BY <1>8 DEF Switches
<1>11. Fits(w, u)
  <2>1. to = "DATA" <=> s.view # "DATA"
    BY <1>1, <1>3, WhatIsThere, SetsOfNames
  <2> QED
    BY <1>7, <1>8, <2>1 DEF Fits
<1>12. PadInTime(u) /\ (u.prev = "DATA" => u.frame # "freq")
  BY <1>1, <1>2, <1>7, WhatIsThere DEF InTime, PadInTime
<1>13. Redrawn(c, u, Show(c, u, w))
  BY <1>7, <1>11, <1>12, ShowRedraws DEF ReadyToShow
<1>14. Good(Show(c, u, w)) /\ AsAsked(c, Show(c, u, w))
  BY <1>1, <1>2, <1>7, <1>13, WhatIsThere, RedrawnGood
<1> QED
  BY <1>1, <1>9, <1>10, <1>14, WhatIsThere, AfterKeyInv

LEMMA KeyUnzoomInv ==
  ASSUME Inv, NEW c \in open, KeyUnzoom(c)
  PROVE  Inv'
<1>1. app = "running"
  BY DEF KeyUnzoom, Key
<1>2. PICK r \in CanvasSet : r = canvas[c]
  BY <1>1, WhatIsThere
<1>3. PICK v \in Views, d \in BOOLEAN, g \in BOOLEAN, m \in SUBSET Entries :
        v = r.view /\ d = r.difference /\ g = r.averaged /\ m = r.menu
  BY CanvasParts
<1>4. PICK s : s = Flagged(r, v, v, d, g, m)
  OBVIOUS
<1>5. /\ s \in CanvasSet /\ s.view = v /\ s.prev = v /\ s.difference = d
      /\ s.averaged = g /\ s.avg = r.avg /\ s.frame = r.frame /\ s.drawn = r.drawn
  BY <1>4, FlaggedFacts
<1>6. s = [canvas[c] EXCEPT !.prev = canvas[c].view]
  BY <1>2, <1>3, <1>4 DEF Flagged, CanvasSet
<1>7. PICK t : /\ AfterKey(c, t, "kNotRelevant")
               /\ t = CASE s.view = "DATA" /\ ~s.difference ->
                             PlotData(CleanupFourier(CleanupDifference(c, s)), TRUE)
                        [] s.view = "DATA" /\ s.difference ->
                             PlotDifference(HandleDifference(CleanupFourierDifference(s)), TRUE)
                        [] s.view # "DATA" /\ ~s.difference -> PlotFourier(c, HandleFourier(c, s))
                        [] OTHER -> PlotFourierDifference(c, HandleDifferenceFourier(c, s))
  BY <1>6 DEF KeyUnzoom
<1>8. PadInTime(s) /\ (s.view = "DATA" => s.frame # "freq")
  BY <1>1, <1>2, <1>3, <1>5, WhatIsThere DEF InTime, PadInTime
<1>9. Redrawn(c, s, t)
  <2>1. CASE v = "DATA" /\ ~d
    <3>1. PICK x : x = CleanupDifference(c, s)
      OBVIOUS
    <3>2. PICK u : u = CleanupFourier(x)
      OBVIOUS
    <3>3. x \in CanvasSet /\ SamePad(s, x)
      BY <1>5, <3>1, CleanupDifferenceFacts
    <3>4. u \in CanvasSet /\ SamePad(s, u)
      BY <3>2, <3>3, CleanupFourierFacts DEF SamePad, SameFlags
    <3>5. t = PlotData(u, TRUE)
      BY <1>5, <1>7, <2>1, <3>1, <3>2
    <3> QED
      BY <1>5, <1>8, <2>1, <3>4, <3>5, RedrawnInTime
  <2>2. CASE v = "DATA" /\ d
    <3>1. PICK x : x = CleanupFourierDifference(s)
      OBVIOUS
    <3>2. PICK u : u = HandleDifference(x)
      OBVIOUS
    <3>3. x \in CanvasSet /\ SamePad(s, x)
      BY <1>5, <3>1, CleanupFourierDifferenceFacts
    <3>4. u \in CanvasSet /\ SamePad(s, u)
      BY <3>2, <3>3, HandleDifferenceFacts DEF SamePad, SameFlags
    <3>5. t = PlotDifference(u, TRUE)
      BY <1>5, <1>7, <2>2, <3>1, <3>2
    <3> QED
      BY <1>5, <1>8, <2>2, <3>4, <3>5, RedrawnInTime
  <2>3. CASE v # "DATA" /\ ~d
    <3>1. PICK u : u = HandleFourier(c, s)
      OBVIOUS
    <3>2. u \in CanvasSet /\ SamePad(s, u)
      BY <1>5, <3>1, HandleFourierFacts
    <3>3. t = PlotFourier(c, u)
      BY <1>5, <1>7, <2>3, <3>1
    <3> QED
      BY <1>5, <1>8, <2>3, <3>2, <3>3, FourierRedrawn
  <2>4. CASE v # "DATA" /\ d
    <3>1. PICK u : u = HandleDifferenceFourier(c, s)
      OBVIOUS
    <3>2. u \in CanvasSet /\ SamePad(s, u)
      BY <1>5, <3>1, HandleDifferenceFourierFacts
    <3>3. t = PlotFourierDifference(c, u)
      BY <1>5, <1>7, <2>4, <3>1
    <3> QED
      BY <1>5, <1>8, <2>4, <3>2, <3>3, FourierDifferenceRedrawn
  <2> QED
    BY <2>1, <2>2, <2>3, <2>4
<1>10. Good(t) /\ AsAsked(c, t)
  BY <1>1, <1>2, <1>3, <1>5, <1>9, WhatIsThere, RedrawnGood
<1>11. Show(c, t, "kNotRelevant") = t /\ "kNotRelevant" \in Switches
  BY NothingToShow DEF Switches
<1> QED
  BY <1>1, <1>7, <1>10, <1>11, WhatIsThere, AfterKeyInv

LEMMA KeyPhaseInv ==
  ASSUME Inv, NEW c \in open, KeyPhase(c)
  PROVE  Inv'
<1>1. app = "running"
  BY DEF KeyPhase, Key
<1>2. PICK s \in CanvasSet : s = canvas[c]
  BY <1>1, WhatIsThere
<1>3. PICK step, t : /\ step \in {-1, 1}
                     /\ t = IF s.view = "DATA" THEN s ELSE TurnPhase(s, step)
                     /\ Bounded(t) /\ AfterKey(c, t, "kNotRelevant")
  BY <1>2 DEF KeyPhase
<1>4. t \in CanvasSet /\ SamePad(s, t) /\ (s.crashed => t.crashed)
  <2>1. CASE s.view = "DATA"
    BY <1>3, <2>1 DEF SamePad, SameFlags
  <2>2. CASE s.view # "DATA"
    BY <1>3, <2>2, TurnPhaseFacts
  <2> QED
    BY <2>1, <2>2
<1>5. Good(s) /\ (user.entries = {} => AsAsked(c, s))
  BY <1>1, <1>2, WhatIsThere DEF Good
<1>6. Good(t) /\ (user.entries = {} => AsAsked(c, t))
  BY <1>2, <1>4, <1>5 DEF Good, AsAsked, Asked, InTime, PadInTime, SamePad, SameFlags
<1>7. Show(c, t, "kNotRelevant") = t /\ "kNotRelevant" \in Switches
  BY NothingToShow DEF Switches
<1> QED
  BY <1>1, <1>3, <1>6, <1>7, WhatIsThere, AfterKeyInv

LEMMA KeyOtherInv ==
  ASSUME Inv, NEW c \in open, KeyOther(c)
  PROVE  Inv'
<1>1. app = "running"
  BY DEF KeyOther, Key
<1>2. Good(canvas[c]) /\ (user.entries = {} => AsAsked(c, canvas[c]))
  BY <1>1, WhatIsThere DEF Good
<1>3. Show(c, canvas[c], "kNotRelevant") = canvas[c] /\ "kNotRelevant" \in Switches
  BY NothingToShow DEF Switches
<1> QED
  BY <1>1, <1>2, <1>3, WhatIsThere, AfterKeyInv DEF KeyOther

LEMMA KeyQuitInv ==
  ASSUME Inv, NEW c \in open, KeyQuit(c)
  PROVE  Inv'
BY DEF KeyQuit, Inv, TypeInv, AsAsked, Musr, Switches

(* An average is taken and drawn.                                          *)
LEMMA AveragedGood ==
  ASSUME NEW u \in CanvasSet, InTime(u), ~u.crashed,
         NEW t, t = PlotAverage(HandleAverage(u))
  PROVE  /\ t \in CanvasSet /\ Good(t) /\ t.averaged = u.averaged
         /\ ~t.crashed => t.avg \in Spectra
<1>1. PICK x : x = HandleAverage(u)
  OBVIOUS
<1>2. /\ x \in CanvasSet /\ SameFlags(u, x) /\ x.frame = u.frame /\ x.drawn = u.drawn
      /\ x.set = u.set /\ (~x.crashed => x.avg = u.set)
  BY <1>1, HandleAverageFacts
<1>3. /\ t \in CanvasSet /\ SameState(x, t) /\ t.frame = x.frame
      /\ (t.drawn.kind = "average" \/ t.drawn = x.drawn) /\ (x.crashed => t.crashed)
  BY <1>1, <1>2, PlotAverageFacts
<1>4. InTime(t)
  BY <1>2, <1>3 DEF InTime, PadInTime, SameFlags, SameState
<1>5. ~t.crashed => t.avg \in Spectra
  BY <1>2, <1>3, CanvasParts DEF SameState
<1> QED
  BY <1>2, <1>3, <1>4, <1>5 DEF Good, SameState, SameFlags

(* The flag of the average is turned.                                      *)
Toggled(s, on) == [Check(s, "AVERAGE", on) EXCEPT !.averaged = on]

LEMMA AverageToggled ==
  ASSUME NEW s \in CanvasSet, NEW on \in BOOLEAN, NEW u, u = Toggled(s, on)
  PROVE  /\ u \in CanvasSet /\ u.view = s.view /\ u.difference = s.difference /\ u.prev = s.prev
         /\ u.averaged = on /\ u.avg = s.avg /\ u.frame = s.frame /\ u.drawn = s.drawn
         /\ u.set = s.set /\ u.phase = s.phase /\ u.crashed = s.crashed
<1>1. PICK m \in SUBSET Entries : m = Check(s, "AVERAGE", on).menu
  BY CanvasParts, SetsOfNames DEF Check, CanvasSet
<1>2. PICK v \in Views, p \in Views, d \in BOOLEAN : v = s.view /\ p = s.prev /\ d = s.difference
  BY CanvasParts
<1>3. u = Flagged(s, v, p, d, on, m)
  BY <1>1, <1>2 DEF Toggled, Check, Flagged, CanvasSet
<1>4. /\ u \in CanvasSet /\ u.view = v /\ u.difference = d /\ u.prev = p
      /\ u.averaged = on /\ u.avg = s.avg /\ u.frame = s.frame /\ u.drawn = s.drawn
      /\ u.set = s.set /\ u.phase = s.phase /\ u.crashed = s.crashed
  BY <1>3, FlaggedFacts
<1> QED
  BY <1>2, <1>4

LEMMA KeyAverageInv ==
  ASSUME Inv, NEW c \in open, KeyAverage(c)
  PROVE  Inv'
<1>1. app = "running"
  BY DEF KeyAverage, Key
<1>2. PICK s \in CanvasSet : s = canvas[c]
  BY <1>1, WhatIsThere
<1>3. PICK on \in BOOLEAN : on = ~s.averaged
  OBVIOUS
<1>4. PICK u : u = Toggled(s, on)
  OBVIOUS
<1>5. /\ u \in CanvasSet /\ u.view = s.view /\ u.difference = s.difference
      /\ u.averaged = on /\ u.frame = s.frame /\ u.drawn = s.drawn /\ u.crashed = s.crashed
  BY <1>4, AverageToggled
<1>6. InTime(u) /\ ~u.crashed
  BY <1>1, <1>2, <1>5, WhatIsThere DEF InTime, PadInTime
<1>7. CASE on
  <2>1. PICK t : t = PlotAverage(HandleAverage(u))
    OBVIOUS
  <2>2. AfterKey(c, t, "kNotRelevant")
    BY <1>2, <1>3, <1>4, <1>7, <2>1 DEF KeyAverage, Toggled
  <2>3. Good(t) /\ AsAsked(c, t)
    BY <1>5, <1>6, <1>7, <2>1, AveragedGood DEF AsAsked
  <2>4. Show(c, t, "kNotRelevant") = t /\ "kNotRelevant" \in Switches
    BY NothingToShow DEF Switches
  <2> QED
    BY <1>1, <2>2, <2>3, <2>4, WhatIsThere, AfterKeyInv
<1>8. CASE ~on
  <2>1. PICK t : t = CleanupAverage(u)
    OBVIOUS
  <2>2. t \in CanvasSet /\ SameFlags(u, t) /\ t.frame = u.frame /\ t.drawn = u.drawn
    BY <1>5, <2>1, CleanupAverageFacts
  <2>3. PICK w : w = SwitchOf(t.view, t.difference)
    OBVIOUS
  <2>4. AfterKey(c, t, w)
    BY <1>2, <1>3, <1>4, <1>5, <1>8, <2>1, <2>2, <2>3 DEF KeyAverage, Toggled, SameFlags
  <2>5. ReadyToShow(w, t) /\ w \in Switches
    BY <1>6, <2>2, <2>3, SwitchFits DEF ReadyToShow, InTime, PadInTime, SameFlags
  <2>6. Redrawn(c, t, Show(c, t, w))
    BY <2>5, ShowRedraws
  <2>7. Good(Show(c, t, w)) /\ AsAsked(c, Show(c, t, w))
    BY <1>5, <1>8, <2>2, <2>6, RedrawnGood DEF SameFlags
  <2> QED
    BY <1>1, <2>4, <2>5, <2>7, WhatIsThere, AfterKeyInv
<1> QED
  BY <1>7, <1>8

-----------------------------------------------------------------------------
(* The menu. *)

LEMMA MenuDataInv ==
  ASSUME Inv, NEW c \in open, MenuData(c)
  PROVE  Inv'
<1>1. app = "running" /\ user.entries # {}
  BY DEF MenuData, Menu
<1>2. PICK r \in CanvasSet : r = canvas[c]
  BY <1>1, WhatIsThere
<1>3. PICK v \in Views, d \in BOOLEAN, g \in BOOLEAN, m \in SUBSET Entries :
        /\ v = r.view /\ d = r.difference /\ g = r.averaged
        /\ m = (r.menu \ FourierViews) \cup {"DATA"}
  BY CanvasParts, SetsOfNames DEF Views
<1>4. PICK s : s = Flagged(r, "DATA", v, d, g, m)
  OBVIOUS
<1>5. /\ s \in CanvasSet /\ s.view = "DATA" /\ s.prev = v /\ s.difference = d
      /\ s.averaged = g /\ s.avg = r.avg /\ s.frame = r.frame /\ s.drawn = r.drawn
  <2>1. "DATA" \in Views
    BY DEF Views
  <2> QED
    BY <1>4, <2>1, FlaggedFacts
<1>6. s = [canvas[c] EXCEPT !.prev = canvas[c].view, !.view = "DATA",
                            !.menu = (@ \ FourierViews) \cup {"DATA"}]
  BY <1>2, <1>3, <1>4 DEF Flagged, CanvasSet
<1>7. PICK t : /\ AfterMenu(c, t)
               /\ t = IF s.difference
                        THEN PlotDifference(HandleDifference(s), FALSE)
                        ELSE PlotData(CleanupFourier(CleanupDifference(c, s)), FALSE)
  BY <1>6 DEF MenuData
<1>8. s.prev = "DATA" => s.frame # "freq"
  BY <1>1, <1>2, <1>3, <1>5, WhatIsThere DEF InTime
<1>9. Redrawn(c, s, t)
  <2>1. CASE d
    <3>1. PICK u : u = HandleDifference(s)
      OBVIOUS
    <3>2. u \in CanvasSet /\ SamePad(s, u)
      BY <1>5, <3>1, HandleDifferenceFacts
    <3>3. t = PlotDifference(u, FALSE)
      BY <1>5, <1>7, <2>1, <3>1
    <3> QED
      BY <1>5, <1>8, <2>1, <3>2, <3>3, RedrawnInTime
  <2>2. CASE ~d
    <3>1. PICK x : x = CleanupDifference(c, s)
      OBVIOUS
    <3>2. PICK u : u = CleanupFourier(x)
      OBVIOUS
    <3>3. x \in CanvasSet /\ SamePad(s, x)
      BY <1>5, <3>1, CleanupDifferenceFacts
    <3>4. u \in CanvasSet /\ SamePad(s, u)
      BY <3>2, <3>3, CleanupFourierFacts DEF SamePad, SameFlags
    <3>5. t = PlotData(u, FALSE)
      BY <1>5, <1>7, <2>2, <3>1, <3>2
    <3> QED
      BY <1>5, <1>8, <2>2, <3>4, <3>5, RedrawnInTime
  <2> QED
    BY <2>1, <2>2
<1>10. Good(t)
  BY <1>1, <1>2, <1>3, <1>5, <1>9, WhatIsThere, RedrawnGood
<1> QED
  BY <1>1, <1>7, <1>10, WhatIsThere, AfterMenuInv

LEMMA MakePhaseOptRealFacts ==
  ASSUME NEW c, NEW s \in CanvasSet, NEW t, t = MakePhaseOptReal(c, s)
  PROVE  t \in CanvasSet /\ SamePad(s, t)
<1>1. t = Crash(s) \/ t = s \/ t = HandleFourier(c, s) \/ t = CalcPhaseOptReFT(s)
  BY DEF MakePhaseOptReal
<1>2. CASE t = Crash(s)
  BY <1>2, CrashFacts
<1>3. CASE t = s
  BY <1>3 DEF SamePad, SameFlags
<1>4. CASE t = HandleFourier(c, s)
  BY <1>4, HandleFourierFacts
<1>5. CASE t = CalcPhaseOptReFT(s)
  BY <1>5, CalcPhaseOptReFTFacts
<1> QED
  BY <1>1, <1>2, <1>3, <1>4, <1>5

LEMMA MenuFourierInv ==
  ASSUME Inv, NEW c \in open, MenuFourier(c)
  PROVE  Inv'
<1>1. app = "running" /\ user.entries # {}
  BY DEF MenuFourier, Menu
<1>2. PICK r \in CanvasSet : r = canvas[c]
  BY <1>1, WhatIsThere
<1>3. PICK to, s, t, w :
        /\ to \in FourierViews
        /\ s = [r EXCEPT !.prev = r.view, !.view = to, !.menu = (r.menu \ Views) \cup {to}]
        /\ t = IF to = "PHASE_OPT_REAL" THEN MakePhaseOptReal(c, s) ELSE s
        /\ w = IF t.crashed THEN t
               ELSE IF ~t.difference THEN PlotFourier(c, HandleFourier(c, t))
               ELSE IF PreviousView(c) = "DATA"
                 THEN PlotFourierDifference(c, HandleDifferenceFourier(c, t))
                 ELSE PlotFourierDifference(c, HandleFourierDifference(c, t))
        /\ AfterMenu(c, w)
  BY <1>2 DEF MenuFourier
<1>4. PICK v \in Views, d \in BOOLEAN, g \in BOOLEAN, m \in SUBSET Entries :
        /\ v = r.view /\ d = r.difference /\ g = r.averaged
        /\ m = (r.menu \ Views) \cup {to}
  BY <1>3, CanvasParts, SetsOfNames
<1>5. s = Flagged(r, to, v, d, g, m)
  BY <1>3, <1>4 DEF Flagged, CanvasSet
<1>6. /\ s \in CanvasSet /\ s.view = to /\ s.prev = v /\ s.difference = d
      /\ s.averaged = g /\ s.avg = r.avg /\ s.frame = r.frame /\ s.drawn = r.drawn
  <2>1. to \in Views
    BY <1>3, SetsOfNames
  <2> QED
    BY <1>5, <2>1, FlaggedFacts
<1>7. t \in CanvasSet /\ SamePad(s, t)
  <2>1. CASE to = "PHASE_OPT_REAL"
    BY <1>3, <1>6, <2>1, MakePhaseOptRealFacts
  <2>2. CASE to # "PHASE_OPT_REAL"
    BY <1>3, <1>6, <2>2 DEF SamePad, SameFlags
  <2> QED
    BY <2>1, <2>2
<1>8. /\ t.view = to /\ to # "DATA" /\ t.difference = d /\ t.averaged = g /\ t.avg = r.avg
      /\ t.frame = r.frame /\ t.drawn = r.drawn
  BY <1>3, <1>6, <1>7, SetsOfNames DEF SamePad, SameFlags
<1>9. PadInTime(t) /\ (t.averaged => t.avg \in Spectra)
  BY <1>1, <1>2, <1>4, <1>8, WhatIsThere DEF InTime, PadInTime
<1>10. CASE t.crashed
  <2>1. w = t
    BY <1>3, <1>10
  <2>2. Good(t)
    BY <1>7, <1>8, <1>9, <1>10 DEF Good, InTime
  <2> QED
    BY <1>1, <1>3, <2>1, <2>2, WhatIsThere, AfterMenuInv
<1>11. CASE ~t.crashed /\ ~d
  <2>1. PICK u : u = HandleFourier(c, t)
    OBVIOUS
  <2>2. u \in CanvasSet /\ SamePad(t, u)
    BY <1>7, <2>1, HandleFourierFacts
  <2>0. ~t.crashed /\ ~t.difference
    BY <1>8, <1>11
  <2>3. w = PlotFourier(c, u)
    BY <1>3, <2>0, <2>1
  <2>4. Redrawn(c, t, w)
    BY <1>7, <1>8, <1>9, <1>11, <2>2, <2>3, FourierRedrawn
  <2> QED
    BY <1>1, <1>3, <1>9, <2>4, WhatIsThere, RedrawnGood, AfterMenuInv
<1>12. CASE ~t.crashed /\ d
  <2>1. PICK u : u = IF PreviousView(c) = "DATA" THEN HandleDifferenceFourier(c, t)
                     ELSE HandleFourierDifference(c, t)
    OBVIOUS
  <2>2. u \in CanvasSet /\ SamePad(t, u)
    BY <1>7, <2>1, HandleDifferenceFourierFacts, HandleFourierDifferenceFacts
  <2>3. w = PlotFourierDifference(c, u)
    BY <1>3, <1>8, <1>12, <2>1
  <2>4. Redrawn(c, t, w)
    BY <1>7, <1>8, <1>9, <1>12, <2>2, <2>3, FourierDifferenceRedrawn
  <2> QED
    BY <1>1, <1>3, <1>9, <2>4, WhatIsThere, RedrawnGood, AfterMenuInv
<1> QED
  BY <1>10, <1>11, <1>12

LEMMA MenuPhaseInv ==
  ASSUME Inv, NEW c \in open, MenuPhase(c)
  PROVE  Inv'
<1>1. app = "running" /\ user.entries # {}
  BY DEF MenuPhase, Menu
<1>2. PICK s \in CanvasSet : s = canvas[c]
  BY <1>1, WhatIsThere
<1>3. PICK step, t : /\ step \in {-1, 1}
                     /\ t = TurnPhase(s, step) /\ Bounded(t) /\ AfterMenu(c, t)
  BY <1>2 DEF MenuPhase
<1>4. t \in CanvasSet /\ SamePad(s, t) /\ (s.crashed => t.crashed)
  BY <1>3, TurnPhaseFacts
<1>5. Good(s)
  BY <1>1, <1>2, WhatIsThere DEF Good
<1>6. Good(t)
  BY <1>4, <1>5 DEF Good, InTime, PadInTime, SamePad, SameFlags
<1> QED
  BY <1>1, <1>3, <1>6, WhatIsThere, AfterMenuInv

LEMMA MenuDifferenceInv ==
  ASSUME Inv, NEW c \in open, MenuDifference(c)
  PROVE  Inv'
<1>1. app = "running" /\ user.entries # {}
  BY DEF MenuDifference, Menu
<1>2. PICK r \in CanvasSet : r = canvas[c]
  BY <1>1, WhatIsThere
<1>3. PICK on \in BOOLEAN : on = ~r.difference
  OBVIOUS
<1>4. PICK m \in SUBSET Entries : m = Check(r, "DIFFERENCE", on).menu
  BY CanvasParts, SetsOfNames DEF Check, CanvasSet
<1>5. PICK v \in Views, p \in Views, g \in BOOLEAN : v = r.view /\ p = r.prev /\ g = r.averaged
  BY CanvasParts
<1>6. PICK s : s = Flagged(r, v, p, on, g, m)
  OBVIOUS
<1>7. /\ s \in CanvasSet /\ s.view = v /\ s.prev = p /\ s.difference = on
      /\ s.averaged = g /\ s.avg = r.avg /\ s.frame = r.frame /\ s.drawn = r.drawn
  BY <1>6, FlaggedFacts
<1>8. s = [Check(canvas[c], "DIFFERENCE", on) EXCEPT !.difference = on]
  BY <1>2, <1>4, <1>5, <1>6 DEF Flagged, Check, CanvasSet
<1> DEFINE Drawing(x, y, o) ==
      IF x.view = "PHASE_OPT_REAL" THEN x
      ELSE IF x.view = "DATA" \/ ~o THEN Show(c, x, SwitchOf(x.view, o))
      ELSE IF "DATA" \in x.menu
        THEN PlotFourierDifference(c, HandleDifferenceFourier(c, y))
        ELSE PlotFourierDifference(c, HandleFourierDifference(c, y))
<1>12. PICK o, x : /\ o = ~canvas[c].difference
                   /\ x = [Check(canvas[c], "DIFFERENCE", o) EXCEPT !.difference = o]
                   /\ AfterMenu(c, Drawing(x, CleanupFourierDifference(x), o))
  <2>1. LET o == ~canvas[c].difference
            x == [Check(canvas[c], "DIFFERENCE", o) EXCEPT !.difference = o]
        IN  AfterMenu(c, Drawing(x, CleanupFourierDifference(x), o))
    BY DEF MenuDifference
  <2> HIDE DEF Drawing
  <2> QED
    BY <2>1
<1>13. o = on /\ x = s
  BY <1>2, <1>3, <1>8, <1>12
<1>14. PICK clean : clean = CleanupFourierDifference(s)
  OBVIOUS
<1>9. PICK t : t = Drawing(s, clean, on) /\ AfterMenu(c, t)
  <2> HIDE DEF Drawing
  <2>1. PICK t : t = Drawing(s, clean, on)
    OBVIOUS
  <2>2. AfterMenu(c, t)
    BY <1>12, <1>13, <1>14, <2>1
  <2> QED
    BY <2>1, <2>2
<1>10. InTime(s) /\ (s.averaged => s.avg \in Spectra)
  BY <1>1, <1>2, <1>5, <1>7, WhatIsThere DEF InTime, PadInTime
<1>11. Good(t)
  <2>1. CASE s.view = "PHASE_OPT_REAL"
    BY <1>7, <1>9, <1>10, <2>1 DEF Good
  <2>2. CASE s.view # "PHASE_OPT_REAL" /\ (s.view = "DATA" \/ ~on)
    <3>1. PICK w : w = SwitchOf(s.view, on)
      OBVIOUS
    <3>2. ReadyToShow(w, s)
      BY <1>7, <1>10, <3>1, SwitchFits DEF ReadyToShow, InTime
    <3>3. Redrawn(c, s, t)
      BY <1>9, <2>2, <3>1, <3>2, ShowRedraws
    <3> QED
      BY <1>10, <3>3, RedrawnGood
  <2>3. CASE s.view # "PHASE_OPT_REAL" /\ s.view # "DATA" /\ on
    <3>1. clean \in CanvasSet /\ SamePad(s, clean)
      BY <1>7, <1>14, CleanupFourierDifferenceFacts
    <3>2. PICK u : u = IF "DATA" \in s.menu THEN HandleDifferenceFourier(c, clean)
                       ELSE HandleFourierDifference(c, clean)
      OBVIOUS
    <3>3. u \in CanvasSet /\ SamePad(clean, u)
      BY <3>1, <3>2, HandleDifferenceFourierFacts, HandleFourierDifferenceFacts
    <3>4. SamePad(s, u)
      BY <3>1, <3>3 DEF SamePad, SameFlags
    <3>5. t = PlotFourierDifference(c, u)
      BY <1>9, <2>3, <3>2
    <3>6. Redrawn(c, s, t)
      BY <1>7, <1>10, <2>3, <3>3, <3>4, <3>5, FourierDifferenceRedrawn DEF InTime
    <3> QED
      BY <1>10, <3>6, RedrawnGood
  <2> QED
    BY <2>1, <2>2, <2>3
<1> QED
  BY <1>1, <1>9, <1>11, WhatIsThere, AfterMenuInv

LEMMA MenuAverageInv ==
  ASSUME Inv, NEW c \in open, MenuAverage(c)
  PROVE  Inv'
<1>1. app = "running" /\ user.entries # {}
  BY DEF MenuAverage, Menu
<1>2. PICK s \in CanvasSet : s = canvas[c]
  BY <1>1, WhatIsThere
<1>3. PICK on \in BOOLEAN : on = ~s.averaged
  OBVIOUS
<1>4. PICK u : u = Toggled(s, on)
  OBVIOUS
<1>5. /\ u \in CanvasSet /\ u.view = s.view /\ u.difference = s.difference
      /\ u.averaged = on /\ u.frame = s.frame /\ u.drawn = s.drawn /\ u.crashed = s.crashed
  BY <1>4, AverageToggled
<1>6. InTime(u) /\ ~u.crashed
  BY <1>1, <1>2, <1>5, WhatIsThere DEF InTime, PadInTime
<1>7. PICK t : /\ t = IF on THEN PlotAverage(HandleAverage(u)) ELSE CleanupAverage(u)
               /\ AfterMenu(c, t)
  BY <1>2, <1>3, <1>4 DEF MenuAverage, Toggled
<1>8. Good(t)
  <2>1. CASE on
    BY <1>5, <1>6, <1>7, <2>1, AveragedGood
  <2>2. CASE ~on
    <3>1. t \in CanvasSet /\ SameFlags(u, t) /\ t.frame = u.frame /\ t.drawn = u.drawn
      BY <1>5, <1>7, <2>2, CleanupAverageFacts
    <3> QED
      BY <1>5, <1>6, <2>2, <3>1 DEF Good, InTime, PadInTime, SameFlags
  <2> QED
    BY <2>1, <2>2
<1> QED
  BY <1>1, <1>7, <1>8, WhatIsThere, AfterMenuInv

LEMMA MenuExportInv ==
  ASSUME Inv, NEW c \in open, MenuExport(c)
  PROVE  Inv'
<1>1. app = "running" /\ user.entries # {}
  BY DEF MenuExport, Menu
<1>2. PICK s \in CanvasSet : s = canvas[c]
  BY <1>1, WhatIsThere
<1>3. PICK t : (t = s \/ t = Crash(s)) /\ AfterMenu(c, t)
  BY <1>2 DEF MenuExport
<1>4. Good(s)
  BY <1>1, <1>2, WhatIsThere DEF Good
<1>5. Good(t)
  <2>1. CASE t = s
    BY <1>4, <2>1
  <2>2. CASE t = Crash(s)
    BY <1>4, <2>2, CrashFacts DEF Good, InTime, PadInTime, SamePad, SameFlags
  <2> QED
    BY <1>3, <2>1, <2>2
<1> QED
  BY <1>1, <1>3, <1>5, WhatIsThere, AfterMenuInv

(* The entries which are not for a canvas.                                 *)
LEMMA RefreshedInv ==
  ASSUME Inv, app = "running", user.entries # {},
         NEW g, g = Refreshed(canvas), NEW S \in SUBSET user.canvases,
         canvas' \in {g} \cup {[g EXCEPT ![c] = canvas[c]] : c \in user.canvases},
         lastView' = ViewAfter(S, lastView), UNCHANGED <<user, setup, open, lastKey, app>>
  PROVE  Inv'
<1>1. TypeInv
  BY DEF Inv
<1>2. \A d \in user.canvases : canvas[d] \in CanvasSet /\ ~canvas[d].crashed
  BY DEF Inv, Good
<1>3. DOMAIN g = user.canvases /\ g = [d \in user.canvases |-> g[d]]
  BY DEF Refreshed
<1>4. \A d \in user.canvases : Good(g[d]) /\ ~g[d].crashed
  <2> SUFFICES ASSUME NEW d \in user.canvases PROVE Good(g[d]) /\ ~g[d].crashed
    OBVIOUS
  <2>1. PICK t : t = g[d]
    OBVIOUS
  <2>2. t \in CanvasSet /\ SamePad(canvas[d], t) /\ t.crashed = canvas[d].crashed
    BY <1>1, <1>2, <2>1, RefreshedFacts
  <2> QED
    BY <1>2, <2>1, <2>2, GoodRefreshed DEF Inv
<1>5. \A d \in user.canvases : canvas'[d] \in {g[d], canvas[d]}
  BY <1>3
<1>6. DOMAIN canvas' = user.canvases /\ canvas' = [d \in user.canvases |-> canvas'[d]]
  BY <1>3
<1>7. \A d \in user.canvases : Good(canvas'[d]) /\ ~canvas'[d].crashed
  BY <1>2, <1>4, <1>5 DEF Inv
<1>8. lastView' \in Views
  BY <1>1, ViewAfterType DEF TypeInv
<1>9. TypeInv'
  BY <1>1, <1>6, <1>8 DEF TypeInv
<1> QED
  BY <1>7, <1>9 DEF Inv

LEMMA MenuNoAverageInv ==
  ASSUME Inv, NEW c \in open, MenuNoAverage(c)
  PROVE  Inv'
<1>1. app = "running" /\ user.entries # {} /\ c \in user.canvases
  BY DEF MenuNoAverage, Menu, Inv, TypeInv
<1>2. PICK g : g = Refreshed(canvas)
  OBVIOUS
<1>3. canvas' = [g EXCEPT ![c] = canvas[c]]
  BY <1>2 DEF MenuNoAverage
<1>4. PICK S \in SUBSET user.canvases : S = user.canvases \ {c}
  OBVIOUS
<1>5. lastView' = ViewAfter(S, lastView) /\ UNCHANGED <<user, setup, open, lastKey, app>>
  BY <1>4 DEF MenuNoAverage
<1>6. canvas' \in {g} \cup {[g EXCEPT ![d] = canvas[d]] : d \in user.canvases}
  BY <1>1, <1>3
<1> QED
  BY <1>1, <1>2, <1>5, <1>6, RefreshedInv

LEMMA MenuOtherInv ==
  ASSUME Inv, NEW c \in open, MenuOther(c)
  PROVE  Inv'
<1>1. app = "running" /\ user.entries # {}
  BY DEF MenuOther, Menu
<1>2. PICK g : g = Refreshed(canvas)
  OBVIOUS
<1>3. canvas' = g
  BY <1>2 DEF MenuOther
<1>4. PICK S \in SUBSET user.canvases : S = user.canvases
  OBVIOUS
<1>5. lastView' = ViewAfter(S, lastView) /\ UNCHANGED <<user, setup, open, lastKey, app>>
  BY <1>4 DEF MenuOther
<1>6. canvas' \in {g} \cup {[g EXCEPT ![d] = canvas[d]] : d \in user.canvases}
  BY <1>3
<1> QED
  BY <1>1, <1>2, <1>5, <1>6, RefreshedInv

-----------------------------------------------------------------------------
(* The mouse, the end, and the first plot. *)

LEMMA ZoomInv ==
  ASSUME Inv, NEW c \in open, Zoom(c)
  PROVE  Inv'
<1>1. app = "running" /\ UNCHANGED <<user, setup, open, lastKey, lastView, app>>
  BY DEF Zoom
<1>2. PICK s \in CanvasSet : s = canvas[c]
  BY <1>1, WhatIsThere
<1>3. PICK w \in Windows : canvas' = [canvas EXCEPT ![c].frame = w]
  BY DEF Zoom
<1>4. w \in Frames /\ w # "freq"
  BY MusrCanvasAssumption DEF Frames
<1>5. PICK m \in SUBSET Entries, d \in Drawn \cup {None} : m = s.menu /\ d = s.drawn
  BY CanvasParts
<1>6. PICK t : t = Plotted(s, m, w, d)
  OBVIOUS
<1>7. /\ t \in CanvasSet /\ SameState(s, t) /\ t.frame = w /\ t.drawn = s.drawn
      /\ t.crashed = s.crashed
  BY <1>4, <1>5, <1>6, PlottedFacts DEF SameState
<1>8. c \in user.canvases
  BY <1>1, WhatIsThere
<1>9. canvas' = [canvas EXCEPT ![c] = t]
  <2>1. t = [s EXCEPT !.frame = w]
    BY <1>5, <1>6 DEF Plotted, CanvasSet
  <2> QED
    BY <1>2, <1>3, <2>1
<1>10. Good(s) /\ ~s.crashed /\ (user.entries = {} => AsAsked(c, s))
  BY <1>1, <1>2, WhatIsThere DEF Good
<1>11. Good(t) /\ ~t.crashed /\ (user.entries = {} => AsAsked(c, t))
  BY <1>4, <1>7, <1>10 DEF Good, InTime, PadInTime, AsAsked, Asked, SameState
<1>12. TypeInv
  BY DEF Inv
<1>13. /\ canvas'[c] = t /\ DOMAIN canvas' = user.canvases
       /\ \A d2 \in user.canvases \ {c} : canvas'[d2] = canvas[d2]
  BY <1>8, <1>9, <1>12, OneCanvas
<1>14. TypeInv'
  BY <1>1, <1>9, <1>12, <1>13 DEF TypeInv
<1>15. \A d2 \in user'.canvases : Good(canvas'[d2]) /\ ~canvas'[d2].crashed
  BY <1>1, <1>11, <1>13 DEF Inv
<1>16. (user.entries = {} => \A d2 \in user.canvases : AsAsked(d2, canvas[d2]))'
  BY <1>1, <1>11, <1>13 DEF Inv, AsAsked, Musr
<1> QED
  BY <1>14, <1>15, <1>16 DEF Inv

LEMMA WindowClosedInv ==
  ASSUME Inv, NEW c \in open, WindowClosed(c)
  PROVE  Inv'
BY DEF WindowClosed, Inv, TypeInv, AsAsked, Musr

LEMMA StutterInv ==
  ASSUME Inv, UNCHANGED vars
  PROVE  Inv'
BY DEF vars, Inv, TypeInv, AsAsked, Musr

(* A new canvas, in a view.                                                *)
Started(v, b) == [InitCanvas EXCEPT !.view = v, !.menu = {v}, !.phaseEntries = b]

Fresh(v, p, m, b, g, x) ==
  [view |-> v, prev |-> p, difference |-> FALSE, averaged |-> FALSE, menu |-> m,
   phaseEntries |-> b, frame |-> g, phase |-> None, set |-> x, avg |-> None, drawn |-> None,
   crashed |-> FALSE]

LEMMA FreshFacts ==
  ASSUME NEW v \in Views, NEW p \in Views, NEW m \in SUBSET Entries,
         NEW b \in BOOLEAN, NEW g \in Frames, NEW x \in Spectra,
         NEW r, r = Fresh(v, p, m, b, g, x)
  PROVE  /\ r \in CanvasSet /\ r.frame = g /\ r.view = v /\ r.prev = p /\ r.set = x
         /\ r.avg = None /\ r.drawn = None /\ ~r.crashed /\ ~r.averaged /\ ~r.difference
BY DEF Fresh, CanvasSet

LEMMA StartedFacts ==
  ASSUME NEW v \in Views, NEW b \in BOOLEAN, NEW s, s = Started(v, b)
  PROVE  /\ s \in CanvasSet
         /\ s.frame = "msr" /\ s.view = v /\ s.prev = "DATA" /\ s.set = NoSpectra
         /\ s.avg = None /\ s.drawn = None /\ ~s.crashed /\ ~s.averaged /\ ~s.difference
<1>1. PICK x : x = NoSpectra
  OBVIOUS
<1>2. x \in Spectra
  BY <1>1 DEF NoSpectra, Spectra
<1>3. PICK m \in SUBSET Entries, p \in Views, g \in Frames :
        m = {v} /\ p = "DATA" /\ g = "msr"
  BY SetsOfNames DEF Views
<1>4. s = Fresh(v, p, m, b, g, x)
  BY <1>1, <1>3 DEF InitCanvas, Started, Fresh
<1>5. /\ s \in CanvasSet /\ s.frame = g /\ s.view = v /\ s.prev = p /\ s.set = x
      /\ s.avg = None /\ s.drawn = None /\ ~s.crashed /\ ~s.averaged /\ ~s.difference
  BY <1>2, <1>4, FreshFacts
<1> QED
  BY <1>1, <1>3, <1>5

LEMMA FirstViewFacts ==
  ASSUME NEW c, setup[c] \in Setup, NEW t, t = FirstView(c)
  PROVE  t \in CanvasSet /\ Good(t) /\ AsAsked(c, t)
<1>1. CASE ~setup[c].startFourier \/ ~Musr(c)
  <2>1. PICK v \in Views, b \in BOOLEAN : v = "DATA" /\ ~b
    BY DEF Views
  <2>2. PICK s : s = Started(v, b)
    OBVIOUS
  <2>3. s = InitCanvas
    BY <2>1, <2>2 DEF InitCanvas, Started
  <2>4. /\ s \in CanvasSet /\ s.frame = "msr" /\ s.view = v /\ s.drawn = None
        /\ ~s.averaged /\ ~s.difference
    BY <2>2, StartedFacts
  <2>7. PadInTime(s)
    BY <2>4 DEF PadInTime
  <2>5. t = PlotData(s, FALSE) /\ SamePad(s, s)
    BY <1>1, <2>3 DEF FirstView, SamePad, SameFlags
  <2>6. Redrawn(c, s, t)
    BY <2>1, <2>4, <2>5, SetsOfNames, RedrawnInTime
  <2> QED
    BY <2>4, <2>6, RedrawnGood DEF Good
<1>2. CASE setup[c].startFourier /\ Musr(c)
  <2>1. PICK v : v = setup[c].tag
    OBVIOUS
  <2>2. v \in Views /\ v # "DATA"
    BY <2>1, SetsOfNames DEF Setup
  <2>3. PICK b \in BOOLEAN : b = (v \in {"REAL", "IMAG", "REAL_AND_IMAG"})
    <3>1. (v \in {"REAL", "IMAG", "REAL_AND_IMAG"}) \in BOOLEAN
      OBVIOUS
    <3> QED
      BY <3>1, Zenon
  <2>4. PICK s : s = Started(v, b)
    OBVIOUS
  <2>5. s \in CanvasSet /\ s.view = v /\ s.drawn = None /\ ~s.averaged /\ ~s.difference
    BY <2>2, <2>4, StartedFacts
  <2>10. PadInTime(s)
    BY <2>5 DEF PadInTime
  <2>6. PICK u : u = HandleFourier(c, s)
    OBVIOUS
  <2>7. u \in CanvasSet /\ SamePad(s, u)
    BY <2>5, <2>6, HandleFourierFacts
  <2>8. t = PlotFourier(c, u)
    BY <1>2, <2>1, <2>3, <2>4, <2>6 DEF FirstView, Started
  <2>9. Redrawn(c, s, t)
    BY <2>2, <2>5, <2>7, <2>8, <2>10, FourierRedrawn
  <2> QED
    BY <2>5, <2>9, RedrawnGood DEF Good
<1> QED
  BY <1>1, <1>2

LEMMA StartAverageFacts ==
  ASSUME NEW c, NEW s, Good(s), AsAsked(c, s), NEW t, t = StartAverage(c, s)
  PROVE  Good(t) /\ AsAsked(c, t)
<1>1. CASE ~(setup[c].startAvg /\ setup[c].sets > 1 /\ ~s.crashed)
  BY <1>1 DEF StartAverage
<1>2. CASE setup[c].startAvg /\ setup[c].sets > 1 /\ ~s.crashed
  <2>0. s \in CanvasSet /\ InTime(s)
    BY DEF Good
  <2>1. PICK v \in Views, p \in Views, d \in BOOLEAN, g \in BOOLEAN, m \in SUBSET Entries :
          /\ v = s.view /\ p = s.prev /\ d = s.difference /\ g = s.averaged
          /\ m = s.menu \cup {"AVERAGE"}
    BY <2>0, CanvasParts, SetsOfNames
  <2>2. PICK u : u = Flagged(s, v, p, d, g, m)
    OBVIOUS
  <2>3. /\ u \in CanvasSet /\ u.view = v /\ u.frame = s.frame /\ u.drawn = s.drawn
        /\ u.crashed = s.crashed
    BY <2>0, <2>2, FlaggedFacts
  <2>4. u = Check(s, "AVERAGE", TRUE)
    BY <2>0, <2>1, <2>2 DEF Flagged, Check, CanvasSet
  <2>5. InTime(u) /\ ~u.crashed
    BY <1>2, <2>0, <2>1, <2>3 DEF InTime, PadInTime
  <2>6. PICK x : x = PlotAverage(HandleAverage(u))
    OBVIOUS
  <2>7. x \in CanvasSet /\ Good(x) /\ (~x.crashed => x.avg \in Spectra)
    BY <2>3, <2>5, <2>6, AveragedGood
  <2>8. PICK b \in BOOLEAN : b = (s.view # "DATA")
    OBVIOUS
  <2>9. t = [x EXCEPT !.averaged = TRUE, !.phaseEntries = b]
    BY <1>2, <2>4, <2>6, <2>8 DEF StartAverage
  <2>10. /\ t \in CanvasSet /\ t.averaged /\ t.view = x.view /\ t.frame = x.frame
         /\ t.drawn = x.drawn /\ t.avg = x.avg /\ t.crashed = x.crashed
    BY <2>7, <2>9 DEF CanvasSet
  <2> QED
    BY <2>7, <2>10 DEF Good, InTime, PadInTime, AsAsked
<1> QED
  BY <1>1, <1>2

LEMMA InitInv == Init => Inv
<1> SUFFICES ASSUME Init PROVE Inv
  OBVIOUS
<1>1. user \in User /\ setup \in [user.canvases -> Setup]
  BY MusrCanvasAssumption DEF Init
<1>2. \A c \in user.canvases : Good(canvas[c]) /\ AsAsked(c, canvas[c])
  <2> SUFFICES ASSUME NEW c \in user.canvases PROVE Good(canvas[c]) /\ AsAsked(c, canvas[c])
    OBVIOUS
  <2>1. PICK s : s = FirstView(c)
    OBVIOUS
  <2>2. PICK t : t = StartAverage(c, s)
    OBVIOUS
  <2>3. setup[c] \in Setup
    BY <1>1
  <2>4. Good(s) /\ AsAsked(c, s)
    BY <2>1, <2>3, FirstViewFacts
  <2>5. Good(t) /\ AsAsked(c, t)
    BY <2>2, <2>4, StartAverageFacts
  <2>6. canvas[c] = t
    BY <2>1, <2>2 DEF Init
  <2> QED
    BY <2>5, <2>6
<1>3. TypeInv
  <2>1. lastKey \in Switches /\ lastView \in Views
    BY DEF Init, Switches, Views
  <2> QED
    BY <1>1, <2>1 DEF Init, TypeInv
<1>4. app = "running" => \A c \in user.canvases : ~canvas[c].crashed
  BY DEF Init
<1> QED
  BY <1>2, <1>3, <1>4 DEF Inv

-----------------------------------------------------------------------------
LEMMA NextInv == Inv /\ [Next]_vars => Inv'
<1> SUFFICES ASSUME Inv, [Next]_vars PROVE Inv'
  OBVIOUS
<1>1. CASE UNCHANGED vars
  BY <1>1, StutterInv
<1>2. CASE Terminated
  BY <1>2, StutterInv DEF Terminated
<1>3. ASSUME NEW c \in open,
             \/ KeyDifference(c) \/ KeyUnzoom(c) \/ KeyFourier(c) \/ KeyPhase(c)
             \/ KeyAverage(c) \/ KeyOther(c) \/ KeyQuit(c)
      PROVE  Inv'
  BY <1>3, KeyDifferenceInv, KeyUnzoomInv, KeyFourierInv, KeyPhaseInv, KeyAverageInv,
     KeyOtherInv, KeyQuitInv
<1>4. ASSUME NEW c \in open,
             \/ MenuData(c) \/ MenuFourier(c) \/ MenuPhase(c) \/ MenuDifference(c)
             \/ MenuAverage(c) \/ MenuNoAverage(c) \/ MenuExport(c) \/ MenuOther(c)
      PROVE  Inv'
  BY <1>4, MenuDataInv, MenuFourierInv, MenuPhaseInv, MenuDifferenceInv, MenuAverageInv,
     MenuNoAverageInv, MenuExportInv, MenuOtherInv
<1>5. ASSUME NEW c \in open, Zoom(c) \/ WindowClosed(c)
      PROVE  Inv'
  BY <1>5, ZoomInv, WindowClosedInv
<1> QED
  BY <1>1, <1>2, <1>3, <1>4, <1>5 DEF Next

(* The invariant of the windows: every canvas has its types, the average   *)
(* its flag announces, and a time axis when it shows data; it is as its    *)
(* flags say as long as only keys are used.                                *)
THEOREM CanvasInvariant == Spec => []Inv
BY InitInv, NextInv, PTL DEF Spec

(* The types of the state of PMusrCanvas, with any number of plots and     *)
(* windows, and the average which fAveragedView announces.                 *)
THEOREM CanvasTypes == Spec => []TypeOK
<1>1. Inv => TypeOK
  <2> SUFFICES ASSUME Inv PROVE TypeOK
    OBVIOUS
  <2>1. ASSUME NEW c \in user.canvases PROVE CanvasOK(canvas[c])
    <3>1. PICK s : s = canvas[c]
      OBVIOUS
    <3>2. Good(s)
      BY <3>1 DEF Inv
    <3>3. CanvasOK(s)
      BY <3>2, CanvasParts DEF CanvasOK, Good, Turns
    <3> QED
      BY <3>1, <3>3
  <2> QED
    BY <2>1 DEF TypeOK, Inv, TypeInv
<1> QED
  BY <1>1, CanvasInvariant, PTL

(* PlotData and PlotDifference never draw data over a frequency axis,      *)
(* whatever the keys and the menu were before: the window of fHistoFrame   *)
(* is kept only when the view before was one of data.                      *)
THEOREM DataKeepsTime == Spec => []DataInTime
<1>1. Inv => DataInTime
  BY DEF Inv, Good, InTime, PadInTime, DataInTime
<1> QED
  BY <1>1, CanvasInvariant, PTL

(* HandleCmdKey draws what the flags of the view and of the difference     *)
(* say, however the keys follow each other, in any number of windows.      *)
THEOREM KeysDrawAsAsked == Spec => []DrawnAsAsked
<1>1. Inv => DrawnAsAsked
  BY DEF Inv, AsAsked, Asked, DrawnAsAsked
<1> QED
  BY <1>1, CanvasInvariant, PTL

-----------------------------------------------------------------------------
(* The keys alone: the spectra are there when they are drawn. *)

(* With a phase, and a view which is not the phase optimised one.          *)
Phased(c) == Musr(c) /\ setup[c].phase /\ setup[c].tag # "PHASE_OPT_REAL"
OnlyKeys == user.entries = {} /\ \A c \in user.canvases : Phased(c)

(* What no key changes, ...                                                *)
Sound(tag, s) ==
  /\ s \in CanvasSet /\ ~s.crashed /\ s.view \in {"DATA", tag}
  /\ ~s.set.optReal /\ ~s.set.diffOptReal
  /\ s.set.fourier # None \/ s.set.diffFourier # None => s.phase # None

(* ... and what the view needs.                                            *)
Complete(s) ==
  IF s.view = "DATA" THEN s.difference => s.set.diff
  ELSE IF s.difference THEN s.set.diffFourier # None ELSE s.set.fourier # None

Lives(tag, s) == Sound(tag, s) /\ Complete(s)

LEMMA DataLives ==
  ASSUME NEW tag, NEW u, Sound(tag, u), u.view = "DATA", u.difference => u.set.diff,
         NEW unzoom \in BOOLEAN,
         NEW t, t = IF u.difference THEN PlotDifference(u, unzoom) ELSE PlotData(u, unzoom)
  PROVE  Lives(tag, t)
<1>1. u \in CanvasSet
  BY DEF Sound
<1>2. t \in CanvasSet /\ SameState(u, t) /\ t.crashed = u.crashed
  BY <1>1, PlotDataFacts, PlotDifferenceFacts
<1> QED
  BY <1>2 DEF Lives, Sound, Complete, SameState

LEMMA FourierLives ==
  ASSUME NEW c, setup[c].tag # "PHASE_OPT_REAL", NEW u, Sound(setup[c].tag, u),
         u.view # "DATA", ~u.difference, u.set.fourier # None, NEW t, t = PlotFourier(c, u)
  PROVE  Lives(setup[c].tag, t)
<1>0. PICK tag : tag = setup[c].tag
  OBVIOUS
<1>1. u \in CanvasSet /\ ~u.crashed /\ u.phase # None /\ u.view # "PHASE_OPT_REAL"
  BY <1>0 DEF Sound
<1>2. HasFourier(u.set, u.view, FALSE)
  BY <1>1 DEF HasFourier
<1>3. ~t.crashed
  BY <1>1, <1>2, PlotFourierLives
<1>4. t \in CanvasSet /\ SameState(u, t)
  BY <1>1, PlotFourierFacts
<1> QED
  BY <1>0, <1>3, <1>4 DEF Lives, Sound, Complete, SameState

LEMMA FourierDifferenceLives ==
  ASSUME NEW c, setup[c].tag # "PHASE_OPT_REAL", NEW u, Sound(setup[c].tag, u),
         u.view # "DATA", u.difference, u.set.diffFourier # None,
         NEW t, t = PlotFourierDifference(c, u)
  PROVE  Lives(setup[c].tag, t)
<1>0. PICK tag : tag = setup[c].tag
  OBVIOUS
<1>1. u \in CanvasSet /\ ~u.crashed /\ u.phase # None /\ u.view # "PHASE_OPT_REAL"
  BY <1>0 DEF Sound
<1>2. HasFourier(u.set, u.view, TRUE)
  BY <1>1 DEF HasFourier
<1>3. ~t.crashed
  BY <1>1, <1>2, PlotFourierDifferenceLives
<1>4. t \in CanvasSet /\ SameState(u, t)
  BY <1>1, PlotFourierDifferenceFacts
<1> QED
  BY <1>0, <1>3, <1>4 DEF Lives, Sound, Complete, SameState

(* The spectra are calculated, and the phase is set with them.             *)
LEMMA HandleFourierSound ==
  ASSUME NEW c, Phased(c), NEW s, Sound(setup[c].tag, s), NEW u, u = HandleFourier(c, s)
  PROVE  Sound(setup[c].tag, u) /\ SamePad(s, u) /\ u.set.fourier # None
<1>0. PICK tag : tag = setup[c].tag
  OBVIOUS
<1>1. s \in CanvasSet /\ s.view # "PHASE_OPT_REAL"
  BY <1>0 DEF Sound, Phased
<1>2. /\ u \in CanvasSet /\ SamePad(s, u) /\ u.crashed = s.crashed
      /\ u.set.diffFourier = s.set.diffFourier /\ u.set.diffOptReal = s.set.diffOptReal
      /\ u.set.optReal => s.set.optReal
      /\ s.phase # None => u.phase # None
  BY <1>1, HandleFourierFacts
<1>3. u.set.fourier # None /\ u.phase # None
  <2>1. CASE s.set.fourier # None
    <3>1. u = s
      BY <1>1, <2>1, HandleFourierFacts
    <3> QED
      BY <2>1, <3>1 DEF Sound
  <2>2. CASE s.set.fourier = None
    <3>1. u.set.fourier # None
      BY <1>1, HandleFourierFacts DEF Phased
    <3>2. u # s
      BY <2>2, <3>1
    <3> QED
      BY <1>1, <3>1, <3>2, HandleFourierFacts DEF Phased
  <2> QED
    BY <2>1, <2>2
<1> QED
  BY <1>0, <1>2, <1>3 DEF Sound, SamePad, SameFlags

LEMMA HandleDifferenceFourierSound ==
  ASSUME NEW c, Phased(c), NEW s, Sound(setup[c].tag, s),
         NEW u, u = HandleDifferenceFourier(c, s)
  PROVE  Sound(setup[c].tag, u) /\ SamePad(s, u) /\ u.set.diffFourier # None
<1>0. PICK tag : tag = setup[c].tag
  OBVIOUS
<1>1. s \in CanvasSet
  BY DEF Sound
<1>2. /\ u \in CanvasSet /\ SamePad(s, u) /\ u.crashed = s.crashed
      /\ u.set.fourier = s.set.fourier /\ u.set.diffOptReal = s.set.diffOptReal
      /\ u.set.optReal = s.set.optReal
      /\ s.phase # None => u.phase # None
  BY <1>1, HandleDifferenceFourierFacts
<1>3. u.set.diffFourier # None /\ u.phase # None
  <2>1. CASE s.set.diffFourier # None
    <3>1. u = s
      BY <1>1, <2>1, HandleDifferenceFourierFacts
    <3> QED
      BY <2>1, <3>1 DEF Sound
  <2>2. CASE s.set.diffFourier = None
    <3>1. u.set.diffFourier # None
      BY <1>1, HandleDifferenceFourierFacts DEF Phased
    <3>2. u # s
      BY <2>2, <3>1
    <3> QED
      BY <1>1, <3>1, <3>2, HandleDifferenceFourierFacts DEF Phased
  <2> QED
    BY <2>1, <2>2
<1> QED
  BY <1>0, <1>2, <1>3 DEF Sound, SamePad, SameFlags

LEMMA HandleFourierDifferenceSound ==
  ASSUME NEW c, Phased(c), NEW s, Sound(setup[c].tag, s),
         s.set.fourier # None \/ s.set.diffFourier # None,
         NEW u, u = HandleFourierDifference(c, s)
  PROVE  Sound(setup[c].tag, u) /\ SamePad(s, u) /\ u.set.diffFourier # None
<1>0. PICK tag : tag = setup[c].tag
  OBVIOUS
<1>1. s \in CanvasSet /\ ~s.crashed /\ s.phase # None
  BY DEF Sound
<1>2. /\ u \in CanvasSet /\ SamePad(s, u) /\ ~u.crashed /\ u.phase = s.phase
      /\ u.set.fourier = s.set.fourier /\ u.set.optReal = s.set.optReal
      /\ (u.set.diffOptReal => s.set.diffOptReal \/ s.set.optReal)
  BY <1>1, HandleFourierDifferenceFacts
<1>3. u.set.diffFourier # None
  BY <1>1, <1>2, HandleFourierDifferenceFacts DEF Phased
<1> QED
  BY <1>0, <1>1, <1>2, <1>3 DEF Sound, SamePad, SameFlags

LEMMA CleanDataSound ==
  ASSUME NEW c, NEW tag, NEW s, Sound(tag, s),
         NEW u, u = CleanupFourier(CleanupDifference(c, s))
  PROVE  Sound(tag, u) /\ SamePad(s, u)
<1>1. PICK x : x = CleanupDifference(c, s)
  OBVIOUS
<1>2. s \in CanvasSet
  BY DEF Sound
<1>3. /\ x \in CanvasSet /\ SamePad(s, x) /\ x.crashed = s.crashed /\ x.phase = s.phase
      /\ x.set.fourier = s.set.fourier /\ x.set.diffFourier = s.set.diffFourier
      /\ x.set.optReal = s.set.optReal /\ x.set.diffOptReal = s.set.diffOptReal
  BY <1>1, <1>2, CleanupDifferenceFacts
<1>4. /\ u \in CanvasSet /\ SamePad(x, u) /\ u.crashed = x.crashed /\ u.phase = x.phase
      /\ u.set.fourier = None /\ ~u.set.optReal
      /\ u.set.diffFourier = x.set.diffFourier /\ u.set.diffOptReal = x.set.diffOptReal
  BY <1>1, <1>3, CleanupFourierFacts
<1> QED
  BY <1>3, <1>4 DEF Sound, SamePad, SameFlags

LEMMA CleanDifferenceSound ==
  ASSUME NEW tag, NEW s, Sound(tag, s),
         NEW u, u = HandleDifference(CleanupFourierDifference(s))
  PROVE  Sound(tag, u) /\ SamePad(s, u) /\ u.set.diff
<1>1. PICK x : x = CleanupFourierDifference(s)
  OBVIOUS
<1>2. s \in CanvasSet
  BY DEF Sound
<1>3. /\ x \in CanvasSet /\ SamePad(s, x) /\ x.crashed = s.crashed /\ x.phase = s.phase
      /\ x.set.diffFourier = None /\ ~x.set.diffOptReal
      /\ x.set.fourier = s.set.fourier /\ x.set.optReal = s.set.optReal
  BY <1>1, <1>2, CleanupFourierDifferenceFacts
<1>4. /\ u \in CanvasSet /\ SamePad(x, u) /\ u.crashed = x.crashed /\ u.phase = x.phase
      /\ u.set.diff /\ u.set.fourier = x.set.fourier /\ u.set.diffFourier = x.set.diffFourier
      /\ u.set.optReal = x.set.optReal /\ u.set.diffOptReal = x.set.diffOptReal
  BY <1>1, <1>3, HandleDifferenceFacts
<1> QED
  BY <1>3, <1>4 DEF Sound, SamePad, SameFlags

LEMMA ShowLives ==
  ASSUME NEW c, Phased(c), NEW s, Sound(setup[c].tag, s), NEW switch, Fits(switch, s),
         switch = "kFourierDiff" => s.set.fourier # None \/ s.set.diffFourier # None,
         NEW t, t = Show(c, s, switch)
  PROVE  Lives(setup[c].tag, t)
<1>0. s.difference \in BOOLEAN /\ setup[c].tag # "PHASE_OPT_REAL"
  BY CanvasParts DEF Sound, Phased
<1>1. PICK tag : tag = setup[c].tag
  OBVIOUS
<1>2. CASE s.view = "DATA" /\ ~s.difference
  <2>1. PICK u : u = CleanupFourier(CleanupDifference(c, s))
    OBVIOUS
  <2>2. Sound(tag, u) /\ SamePad(s, u)
    BY <1>1, <2>1, CleanDataSound
  <2>3. t = PlotData(u, FALSE)
    BY <1>2, <2>1 DEF Show, Fits
  <2>4. u.view = "DATA" /\ ~u.difference
    BY <1>2, <2>2 DEF SamePad, SameFlags
  <2> QED
    BY <1>1, <2>2, <2>3, <2>4, DataLives
<1>3. CASE s.view = "DATA" /\ s.difference
  <2>1. PICK u : u = HandleDifference(CleanupFourierDifference(s))
    OBVIOUS
  <2>2. Sound(tag, u) /\ SamePad(s, u) /\ u.set.diff
    BY <1>1, <2>1, CleanDifferenceSound
  <2>3. t = PlotDifference(u, FALSE)
    BY <1>3, <2>1 DEF Show, Fits
  <2>4. u.view = "DATA" /\ u.difference
    BY <1>3, <2>2 DEF SamePad, SameFlags
  <2> QED
    BY <1>1, <2>2, <2>3, <2>4, DataLives
<1>4. CASE s.view # "DATA" /\ ~s.difference
  <2>1. PICK u : u = HandleFourier(c, s)
    OBVIOUS
  <2>2. Sound(setup[c].tag, u) /\ SamePad(s, u) /\ u.set.fourier # None
    BY <2>1, HandleFourierSound
  <2>3. t = PlotFourier(c, u)
    BY <1>4, <2>1 DEF Show, Fits
  <2>4. u.view # "DATA" /\ ~u.difference
    BY <1>4, <2>2 DEF SamePad, SameFlags
  <2> QED
    BY <1>0, <2>2, <2>3, <2>4, FourierLives
<1>5. CASE s.view # "DATA" /\ s.difference
  <2>1. PICK u : u = IF switch = "kDiffFourier" THEN HandleDifferenceFourier(c, s)
                     ELSE HandleFourierDifference(c, s)
    OBVIOUS
  <2>2. switch \in {"kDiffFourier", "kFourierDiff"}
    BY <1>5 DEF Fits
  <2>3. Sound(setup[c].tag, u) /\ SamePad(s, u) /\ u.set.diffFourier # None
    <3>1. CASE switch = "kDiffFourier"
      BY <2>1, <3>1, HandleDifferenceFourierSound
    <3>2. CASE switch = "kFourierDiff"
      BY <2>1, <3>2, HandleFourierDifferenceSound
    <3> QED
      BY <2>2, <3>1, <3>2
  <2>4. t = PlotFourierDifference(c, u)
    BY <2>1, <2>2 DEF Show
  <2>5. u.view # "DATA" /\ u.difference
    BY <1>5, <2>3 DEF SamePad, SameFlags
  <2> QED
    BY <1>0, <2>3, <2>4, <2>5, FourierDifferenceLives
<1> QED
  BY <1>0, <1>2, <1>3, <1>4, <1>5

(* The average of spectra which are there.                                 *)
LEMMA AverageLives ==
  ASSUME NEW tag, tag # "PHASE_OPT_REAL", NEW u, Lives(tag, u),
         NEW t, t = PlotAverage(HandleAverage(u))
  PROVE  Lives(tag, t)
<1>1. PICK x : x = HandleAverage(u)
  OBVIOUS
<1>2. u \in CanvasSet /\ ~u.crashed /\ ~u.set.diffOptReal /\ u.view # "PHASE_OPT_REAL"
  BY DEF Lives, Sound
<1>3. x \in CanvasSet /\ SameFlags(u, x) /\ x.set = u.set /\ x.phase = u.phase /\ ~x.crashed
  BY <1>1, <1>2, HandleAverageFacts
<1>4. x.avg = u.set
  BY <1>1, <1>2, <1>3, HandleAverageFacts
<1>5. HasView(x.avg, x.view, x.difference)
  BY <1>2, <1>3, <1>4 DEF Lives, Complete, HasView, HasFourier, SameFlags
<1>6. t \in CanvasSet /\ SameState(x, t) /\ ~t.crashed
  BY <1>1, <1>3, <1>5, PlotAverageFacts
<1> QED
  BY <1>2, <1>3, <1>6 DEF Lives, Sound, Complete, SameState, SameFlags

KeysInv ==
  OnlyKeys => app # "crashed" /\ \A c \in user.canvases : Lives(setup[c].tag, canvas[c])

LEMMA AfterKeyLives ==
  ASSUME Inv, OnlyKeys, KeysInv, app = "running", NEW c \in user.canvases,
         NEW s, NEW switch, AfterKey(c, s, switch), Lives(setup[c].tag, Show(c, s, switch))
  PROVE  KeysInv'
<1>1. PICK shown : shown = Show(c, s, switch)
  OBVIOUS
<1>2. PICK b : b \in BOOLEAN /\ b = (s.view # "DATA")
  OBVIOUS
<1>3. PICK t : t = [shown EXCEPT !.phaseEntries = b]
  OBVIOUS
<1>4. PICK tag : tag = setup[c].tag
  OBVIOUS
<1>5. Lives(tag, shown) /\ shown \in CanvasSet
  BY <1>1, <1>4 DEF Lives, Sound
<1>6. /\ t \in CanvasSet /\ SamePad(shown, t) /\ t.set = shown.set /\ t.phase = shown.phase
      /\ t.crashed = shown.crashed
  BY <1>2, <1>3, <1>5, PhaseEntriesFacts
<1>7. Lives(tag, t)
  BY <1>5, <1>6 DEF Lives, Sound, Complete, SamePad, SameFlags
<1>8. canvas' = [canvas EXCEPT ![c] = t]
  BY <1>1, <1>2, <1>3 DEF AfterKey
<1>9. TypeInv
  BY DEF Inv
<1>10. /\ canvas'[c] = t
       /\ \A d \in user.canvases \ {c} : canvas'[d] = canvas[d]
  BY <1>8, <1>9, OneCanvas
<1>11. UNCHANGED <<user, setup>>
  BY DEF AfterKey
<1>12. \A d \in user'.canvases : Lives(setup'[d].tag, canvas'[d])
  BY <1>4, <1>7, <1>10, <1>11 DEF KeysInv
<1>13. app' # "crashed"
  BY <1>1, <1>5 DEF AfterKey, Lives, Sound
<1> QED
  BY <1>12, <1>13 DEF KeysInv

(* What the state of a canvas is when a key is pressed.                    *)
LEMMA LivesThere ==
  ASSUME Inv, OnlyKeys, KeysInv, NEW c \in open
  PROVE  /\ c \in user.canvases /\ Phased(c) /\ canvas[c] \in CanvasSet
         /\ Sound(setup[c].tag, canvas[c]) /\ Complete(canvas[c])
         /\ setup[c].tag # "DATA"
<1>1. c \in user.canvases
  BY DEF Inv, TypeInv
<1>2. setup[c] \in Setup
  BY <1>1 DEF Inv, TypeInv
<1>3. Lives(setup[c].tag, canvas[c]) /\ Phased(c)
  BY <1>1 DEF OnlyKeys, KeysInv
<1>4. setup[c].tag # "DATA"
  BY <1>2, SetsOfNames DEF Setup
<1> QED
  BY <1>1, <1>3, <1>4 DEF Lives, Sound

(* Flags which are set leave a canvas sound.                               *)
LEMMA FlagsSound ==
  ASSUME NEW tag, NEW s, Sound(tag, s), NEW view \in Views, view \in {"DATA", tag},
         NEW prev \in Views, NEW d \in BOOLEAN, NEW g \in BOOLEAN, NEW m \in SUBSET Entries,
         NEW u, u = Flagged(s, view, prev, d, g, m)
  PROVE  /\ Sound(tag, u) /\ u.view = view /\ u.prev = prev /\ u.difference = d
         /\ u.set = s.set
<1>1. s \in CanvasSet
  BY DEF Sound
<1>2. /\ u \in CanvasSet /\ u.view = view /\ u.prev = prev /\ u.difference = d
      /\ u.set = s.set /\ u.phase = s.phase /\ u.crashed = s.crashed
  BY <1>1, FlaggedFacts
<1> QED
  BY <1>2 DEF Sound

LEMMA KeyDifferenceLives ==
  ASSUME Inv, OnlyKeys, KeysInv, NEW c \in open, KeyDifference(c)
  PROVE  KeysInv'
<1>1. app = "running"
  BY DEF KeyDifference, Key
<1>2. PICK s \in CanvasSet : s = canvas[c]
  BY LivesThere
<1>3. PICK on \in BOOLEAN : on = ~s.difference
  OBVIOUS
<1>4. PICK m \in SUBSET Entries : m = Check(s, "DIFFERENCE", on).menu
  BY CanvasParts, SetsOfNames DEF Check, CanvasSet
<1>5. PICK v, g, tag : /\ v \in Views /\ g \in BOOLEAN
                       /\ v = s.view /\ g = s.averaged /\ tag = setup[c].tag
  BY CanvasParts
<1>6. PICK u : u = Flagged(s, v, v, on, g, m)
  OBVIOUS
<1>7. Sound(tag, s) /\ Complete(s) /\ v \in {"DATA", tag}
  BY <1>2, <1>5, LivesThere DEF Sound
<1>8. Sound(tag, u) /\ u.view = v /\ u.difference = on /\ u.set = s.set
  BY <1>5, <1>6, <1>7, FlagsSound
<1>9. PICK w : w = SwitchOf(u.view, u.difference)
  OBVIOUS
<1>10. AfterKey(c, u, w)
  <2>1. u = [Check(s, "DIFFERENCE", on) EXCEPT !.difference = on, !.prev = s.view]
    BY <1>4, <1>5, <1>6 DEF Check, Flagged, CanvasSet
  <2> QED
    BY <1>2, <1>3, <1>5, <1>8, <1>9, <2>1 DEF KeyDifference
<1>11. Fits(w, u)
  BY <1>9, SwitchFits
<1>12. w = "kFourierDiff" => u.set.fourier # None
  BY <1>3, <1>5, <1>7, <1>8, <1>9 DEF SwitchOf, Complete
<1>13. Lives(setup[c].tag, Show(c, u, w))
  BY <1>5, <1>8, <1>11, <1>12, LivesThere, ShowLives
<1> QED
  BY <1>1, <1>10, <1>13, LivesThere, AfterKeyLives

LEMMA KeyFourierLives ==
  ASSUME Inv, OnlyKeys, KeysInv, NEW c \in open, KeyFourier(c)
  PROVE  KeysInv'
<1>1. app = "running"
  BY DEF KeyFourier, Key
<1>2. PICK s \in CanvasSet : s = canvas[c]
  BY LivesThere
<1>3. PICK to, tag : /\ tag = setup[c].tag
                     /\ to = IF s.view = "DATA" THEN setup[c].tag ELSE "DATA"
  OBVIOUS
<1>4. to \in Views
  BY <1>1, <1>3, WhatIsThere, SetsOfNames DEF Views
<1>5. PICK v \in Views, d \in BOOLEAN, g \in BOOLEAN, m \in SUBSET Entries :
        /\ v = s.view /\ d = s.difference /\ g = s.averaged
        /\ m = (s.menu \ Views) \cup {to}
  BY <1>4, CanvasParts, SetsOfNames
<1>6. PICK u : u = Flagged(s, to, v, d, g, m)
  OBVIOUS
<1>7. Sound(tag, s) /\ to \in {"DATA", tag}
  BY <1>2, <1>3, LivesThere
<1>8. Sound(tag, u) /\ u.view = to /\ u.difference = d
  BY <1>4, <1>6, <1>7, FlagsSound
<1>9. PICK w : w = IF s.view = "DATA"
                   THEN IF s.difference THEN "kDiffFourier" ELSE "kFourier"
                   ELSE IF s.difference THEN "kDiffData" ELSE "kData"
  OBVIOUS
<1>10. AfterKey(c, u, w)
  <2>1. u = [s EXCEPT !.prev = s.view, !.view = to, !.menu = (s.menu \ Views) \cup {to}]
    BY <1>5, <1>6 DEF Flagged, CanvasSet
  <2> QED
    BY <1>2, <1>3, <1>9, <2>1 DEF KeyFourier
<1>11. Fits(w, u) /\ w # "kFourierDiff"
  <2>1. to = "DATA" <=> s.view # "DATA"
    BY <1>3, LivesThere
  <2> QED
    BY <1>5, <1>8, <1>9, <2>1 DEF Fits
<1>12. Lives(setup[c].tag, Show(c, u, w))
  BY <1>3, <1>8, <1>11, LivesThere, ShowLives
<1> QED
  BY <1>1, <1>10, <1>12, LivesThere, AfterKeyLives

LEMMA KeyUnzoomLives ==
  ASSUME Inv, OnlyKeys, KeysInv, NEW c \in open, KeyUnzoom(c)
  PROVE  KeysInv'
<1>1. app = "running"
  BY DEF KeyUnzoom, Key
<1>2. PICK r \in CanvasSet : r = canvas[c]
  BY LivesThere
<1>3. PICK v, d, g, m, tag :
        /\ v \in Views /\ d \in BOOLEAN /\ g \in BOOLEAN /\ m \in SUBSET Entries
        /\ v = r.view /\ d = r.difference /\ g = r.averaged /\ m = r.menu /\ tag = setup[c].tag
  BY CanvasParts
<1>4. PICK s : s = Flagged(r, v, v, d, g, m)
  OBVIOUS
<1>5. Sound(tag, r) /\ v \in {"DATA", tag}
  BY <1>2, <1>3, LivesThere DEF Sound
<1>6. Sound(tag, s) /\ s.view = v /\ s.difference = d
  BY <1>3, <1>4, <1>5, FlagsSound
<1>7. s = [canvas[c] EXCEPT !.prev = canvas[c].view]
  BY <1>2, <1>3, <1>4 DEF Flagged, CanvasSet
<1>8. PICK t : /\ AfterKey(c, t, "kNotRelevant")
               /\ t = CASE s.view = "DATA" /\ ~s.difference ->
                             PlotData(CleanupFourier(CleanupDifference(c, s)), TRUE)
                        [] s.view = "DATA" /\ s.difference ->
                             PlotDifference(HandleDifference(CleanupFourierDifference(s)), TRUE)
                        [] s.view # "DATA" /\ ~s.difference -> PlotFourier(c, HandleFourier(c, s))
                        [] OTHER -> PlotFourierDifference(c, HandleDifferenceFourier(c, s))
  BY <1>7 DEF KeyUnzoom
<1>9. Phased(c) /\ setup[c].tag # "PHASE_OPT_REAL"
  BY LivesThere DEF Phased
<1>10. Lives(setup[c].tag, t)
  <2>1. CASE v = "DATA" /\ ~d
    <3>1. PICK u : u = CleanupFourier(CleanupDifference(c, s))
      OBVIOUS
    <3>2. Sound(tag, u) /\ SamePad(s, u)
      BY <1>6, <3>1, CleanDataSound
    <3>3. t = PlotData(u, TRUE)
      BY <1>6, <1>8, <2>1, <3>1
    <3>4. u.view = "DATA" /\ ~u.difference
      BY <1>6, <2>1, <3>2 DEF SamePad, SameFlags
    <3> QED
      BY <1>3, <3>2, <3>3, <3>4, DataLives
  <2>2. CASE v = "DATA" /\ d
    <3>1. PICK u : u = HandleDifference(CleanupFourierDifference(s))
      OBVIOUS
    <3>2. Sound(tag, u) /\ SamePad(s, u) /\ u.set.diff
      BY <1>6, <3>1, CleanDifferenceSound
    <3>3. t = PlotDifference(u, TRUE)
      BY <1>6, <1>8, <2>2, <3>1
    <3>4. u.view = "DATA" /\ u.difference
      BY <1>6, <2>2, <3>2 DEF SamePad, SameFlags
    <3> QED
      BY <1>3, <3>2, <3>3, <3>4, DataLives
  <2>3. CASE v # "DATA" /\ ~d
    <3>1. PICK u : u = HandleFourier(c, s)
      OBVIOUS
    <3>2. Sound(setup[c].tag, u) /\ SamePad(s, u) /\ u.set.fourier # None
      BY <1>3, <1>6, <1>9, <3>1, HandleFourierSound
    <3>3. t = PlotFourier(c, u)
      BY <1>6, <1>8, <2>3, <3>1
    <3>4. u.view # "DATA" /\ ~u.difference
      BY <1>6, <2>3, <3>2 DEF SamePad, SameFlags
    <3> QED
      BY <1>9, <3>2, <3>3, <3>4, FourierLives
  <2>4. CASE v # "DATA" /\ d
    <3>1. PICK u : u = HandleDifferenceFourier(c, s)
      OBVIOUS
    <3>2. Sound(setup[c].tag, u) /\ SamePad(s, u) /\ u.set.diffFourier # None
      BY <1>3, <1>6, <1>9, <3>1, HandleDifferenceFourierSound
    <3>3. t = PlotFourierDifference(c, u)
      BY <1>6, <1>8, <2>4, <3>1
    <3>4. u.view # "DATA" /\ u.difference
      BY <1>6, <2>4, <3>2 DEF SamePad, SameFlags
    <3> QED
      BY <1>9, <3>2, <3>3, <3>4, FourierDifferenceLives
  <2> QED
    BY <2>1, <2>2, <2>3, <2>4
<1>11. Show(c, t, "kNotRelevant") = t
  BY NothingToShow
<1> QED
  BY <1>1, <1>8, <1>10, <1>11, LivesThere, AfterKeyLives

LEMMA KeyPhaseLives ==
  ASSUME Inv, OnlyKeys, KeysInv, NEW c \in open, KeyPhase(c)
  PROVE  KeysInv'
<1>1. app = "running"
  BY DEF KeyPhase, Key
<1>2. PICK s \in CanvasSet : s = canvas[c]
  BY LivesThere
<1>3. PICK step, t : /\ step \in {-1, 1}
                     /\ t = IF s.view = "DATA" THEN s ELSE TurnPhase(s, step)
                     /\ Bounded(t) /\ AfterKey(c, t, "kNotRelevant")
  BY <1>2 DEF KeyPhase
<1>4. PICK tag : tag = setup[c].tag
  OBVIOUS
<1>5. Sound(tag, s) /\ Complete(s)
  BY <1>2, <1>4, LivesThere
<1>6. CASE s.view = "DATA"
  <2>1. Show(c, t, "kNotRelevant") = s
    BY <1>3, <1>6, NothingToShow
  <2> QED
    BY <1>1, <1>3, <1>4, <1>5, <2>1, LivesThere, AfterKeyLives DEF Lives
<1>7. CASE s.view # "DATA"
  <2>1. t = TurnPhase(s, step)
    BY <1>3, <1>7
  <2>2. /\ t \in CanvasSet /\ SamePad(s, t)
        /\ t.set.diff = s.set.diff /\ t.set.optReal = s.set.optReal
        /\ t.set.diffOptReal = s.set.diffOptReal
    BY <1>3, <2>1, TurnPhaseFacts
  <2>3. /\ s.set.fourier = None <=> t.set.fourier = None
        /\ s.set.diffFourier = None <=> t.set.diffFourier = None
        /\ s.phase = None <=> t.phase = None
    BY <1>3, <2>1, TurnPhaseFacts
  <2>4. t.crashed => s.crashed \/ s.phase = None
    BY <1>3, <2>1, TurnPhaseFacts
  <2>5. ~t.crashed
    BY <1>5, <1>7, <2>4 DEF Sound, Complete
  <2>6. Lives(tag, t)
    BY <1>5, <2>2, <2>3, <2>5 DEF Lives, Sound, Complete, SamePad, SameFlags
  <2>7. Show(c, t, "kNotRelevant") = t
    BY NothingToShow
  <2> QED
    BY <1>1, <1>3, <1>4, <2>6, <2>7, LivesThere, AfterKeyLives
<1> QED
  BY <1>6, <1>7

LEMMA KeyAverageLives ==
  ASSUME Inv, OnlyKeys, KeysInv, NEW c \in open, KeyAverage(c)
  PROVE  KeysInv'
<1>1. app = "running"
  BY DEF KeyAverage, Key
<1>2. PICK s \in CanvasSet : s = canvas[c]
  BY LivesThere
<1>3. PICK on \in BOOLEAN : on = ~s.averaged
  OBVIOUS
<1>4. PICK u : u = Toggled(s, on)
  OBVIOUS
<1>5. /\ u \in CanvasSet /\ u.view = s.view /\ u.difference = s.difference
      /\ u.set = s.set /\ u.phase = s.phase /\ u.crashed = s.crashed
  BY <1>4, AverageToggled
<1>6. PICK tag : tag = setup[c].tag
  OBVIOUS
<1>7. Lives(tag, u) /\ Phased(c) /\ tag # "PHASE_OPT_REAL"
  BY <1>2, <1>5, <1>6, LivesThere DEF Lives, Sound, Complete, Phased
<1>8. CASE on
  <2>1. PICK t : t = PlotAverage(HandleAverage(u))
    OBVIOUS
  <2>2. AfterKey(c, t, "kNotRelevant")
    BY <1>2, <1>3, <1>4, <1>8, <2>1 DEF KeyAverage, Toggled
  <2>3. Lives(tag, t)
    BY <1>7, <2>1, AverageLives
  <2>4. Show(c, t, "kNotRelevant") = t
    BY NothingToShow
  <2> QED
    BY <1>1, <1>6, <2>2, <2>3, <2>4, LivesThere, AfterKeyLives
<1>9. CASE ~on
  <2>1. PICK t : t = CleanupAverage(u)
    OBVIOUS
  <2>2. /\ t \in CanvasSet /\ SameFlags(u, t) /\ t.set = u.set /\ t.phase = u.phase
        /\ t.crashed = u.crashed
    BY <1>5, <2>1, CleanupAverageFacts
  <2>3. Lives(tag, t)
    BY <1>7, <2>2 DEF Lives, Sound, Complete, SameFlags
  <2>4. PICK w : w = SwitchOf(t.view, t.difference)
    OBVIOUS
  <2>5. AfterKey(c, t, w)
    BY <1>2, <1>3, <1>4, <1>5, <1>9, <2>1, <2>2, <2>4 DEF KeyAverage, Toggled, SameFlags
  <2>6. Fits(w, t)
    BY <2>4, SwitchFits
  <2>7. w = "kFourierDiff" => t.set.diffFourier # None
    BY <2>3, <2>4 DEF SwitchOf, Lives, Complete
  <2>8. Sound(setup[c].tag, t)
    BY <1>6, <2>3 DEF Lives
  <2>9. Lives(setup[c].tag, Show(c, t, w))
    BY <1>7, <2>6, <2>7, <2>8, ShowLives
  <2> QED
    BY <1>1, <2>5, <2>9, LivesThere, AfterKeyLives
<1> QED
  BY <1>8, <1>9

LEMMA KeyOtherLives ==
  ASSUME Inv, OnlyKeys, KeysInv, NEW c \in open, KeyOther(c)
  PROVE  KeysInv'
<1>1. app = "running" /\ AfterKey(c, canvas[c], "kNotRelevant")
  BY DEF KeyOther, Key
<1>2. Show(c, canvas[c], "kNotRelevant") = canvas[c]
  BY NothingToShow
<1> QED
  BY <1>1, <1>2, LivesThere, AfterKeyLives DEF Lives

LEMMA ZoomLives ==
  ASSUME Inv, OnlyKeys, KeysInv, NEW c \in open, Zoom(c)
  PROVE  KeysInv'
<1>1. app = "running" /\ UNCHANGED <<user, setup, app>>
  BY DEF Zoom
<1>2. PICK w \in Windows : canvas' = [canvas EXCEPT ![c].frame = w]
  BY DEF Zoom
<1>3. PICK s, tag : s \in CanvasSet /\ s = canvas[c] /\ tag = setup[c].tag
  BY LivesThere
<1>4. Lives(tag, s) /\ c \in user.canvases
  BY <1>3, LivesThere DEF Lives
<1>5. PICK m \in SUBSET Entries, d \in Drawn \cup {None} : m = s.menu /\ d = s.drawn
  BY <1>3, CanvasParts
<1>6. PICK t : t = Plotted(s, m, w, d)
  OBVIOUS
<1>7. t \in CanvasSet /\ SameState(s, t) /\ t.crashed = s.crashed
  <2>1. w \in Frames
    BY DEF Frames
  <2> QED
    BY <1>3, <1>5, <1>6, <2>1, PlottedFacts DEF SameState
<1>8. Lives(tag, t)
  BY <1>4, <1>7 DEF Lives, Sound, Complete, SameState
<1>9. canvas' = [canvas EXCEPT ![c] = t]
  <2>1. t = [s EXCEPT !.frame = w]
    BY <1>5, <1>6 DEF Plotted, CanvasSet
  <2> QED
    BY <1>2, <1>3, <2>1
<1>10. TypeInv
  BY DEF Inv
<1>11. canvas'[c] = t /\ \A e \in user.canvases \ {c} : canvas'[e] = canvas[e]
  BY <1>4, <1>9, <1>10, OneCanvas
<1>12. \A e \in user'.canvases : Lives(setup'[e].tag, canvas'[e])
  BY <1>1, <1>3, <1>8, <1>11 DEF KeysInv
<1> QED
  BY <1>1, <1>12 DEF KeysInv

LEMMA InitLives == Init => KeysInv
<1> SUFFICES ASSUME Init, OnlyKeys
             PROVE  app # "crashed" /\ \A c \in user.canvases : Lives(setup[c].tag, canvas[c])
  BY DEF KeysInv
<1>1. \A c \in user.canvases : Lives(setup[c].tag, canvas[c])
  <2> SUFFICES ASSUME NEW c \in user.canvases PROVE Lives(setup[c].tag, canvas[c])
    OBVIOUS
  <2>0. PICK tag : tag = setup[c].tag
    OBVIOUS
  <2>1. /\ Phased(c) /\ setup[c] \in Setup /\ tag \in FourierViews /\ tag # "DATA"
        /\ tag # "PHASE_OPT_REAL"
    BY <2>0, MusrCanvasAssumption, SetsOfNames DEF Init, OnlyKeys, Phased, Setup
  <2>2. PICK s : s = FirstView(c)
    OBVIOUS
  <2>3. PICK t : t = StartAverage(c, s)
    OBVIOUS
  <2>4. canvas[c] = t
    BY <2>2, <2>3 DEF Init
  <2>5. Lives(tag, s)
    <3>1. CASE ~setup[c].startFourier
      <4>1. PICK v \in Views, b \in BOOLEAN : v = "DATA" /\ ~b
        BY DEF Views
      <4>2. PICK u : u = Started(v, b)
        OBVIOUS
      <4>3. u = InitCanvas
        BY <4>1, <4>2 DEF InitCanvas, Started
      <4>4. /\ u \in CanvasSet /\ u.view = v /\ u.set = NoSpectra /\ ~u.crashed
            /\ ~u.difference
        BY <4>2, StartedFacts
      <4>5. Sound(tag, u)
        BY <4>1, <4>4 DEF Sound, NoSpectra
      <4>6. s = PlotData(u, FALSE)
        BY <2>2, <3>1, <4>3 DEF FirstView
      <4> QED
        BY <4>1, <4>4, <4>5, <4>6, DataLives
    <3>2. CASE setup[c].startFourier
      <4>1. PICK b \in BOOLEAN : b = (tag \in {"REAL", "IMAG", "REAL_AND_IMAG"})
        <5>1. (tag \in {"REAL", "IMAG", "REAL_AND_IMAG"}) \in BOOLEAN
          OBVIOUS
        <5> QED
          BY <5>1, Zenon
      <4>2. PICK r : r = Started(tag, b)
        OBVIOUS
      <4>3. /\ r \in CanvasSet /\ r.view = tag /\ r.set = NoSpectra /\ ~r.crashed
            /\ ~r.difference
        BY <2>1, <4>2, SetsOfNames, StartedFacts
      <4>4. Sound(setup[c].tag, r)
        BY <2>0, <4>3 DEF Sound, NoSpectra
      <4>5. PICK u : u = HandleFourier(c, r)
        OBVIOUS
      <4>6. Sound(setup[c].tag, u) /\ SamePad(r, u) /\ u.set.fourier # None
        BY <2>1, <4>4, <4>5, HandleFourierSound
      <4>7. s = PlotFourier(c, u)
        BY <2>0, <2>1, <2>2, <3>2, <4>1, <4>2, <4>5 DEF FirstView, Started, Phased
      <4>8. u.view # "DATA" /\ ~u.difference
        BY <2>1, <4>3, <4>6 DEF SamePad, SameFlags
      <4>9. Lives(setup[c].tag, s)
        BY <2>0, <2>1, <4>6, <4>7, <4>8, FourierLives
      <4> QED
        BY <2>0, <4>9
    <3> QED
      BY <3>1, <3>2
  <2>6. Lives(tag, t)
    <3>1. CASE ~(setup[c].startAvg /\ setup[c].sets > 1 /\ ~s.crashed)
      BY <2>3, <2>5, <3>1 DEF StartAverage
    <3>2. CASE setup[c].startAvg /\ setup[c].sets > 1 /\ ~s.crashed
      <4>0. s \in CanvasSet
        BY <2>5 DEF Lives, Sound
      <4>1. PICK v \in Views, p \in Views, d \in BOOLEAN, g \in BOOLEAN, m \in SUBSET Entries :
              /\ v = s.view /\ p = s.prev /\ d = s.difference /\ g = s.averaged
              /\ m = s.menu \cup {"AVERAGE"}
        BY <4>0, CanvasParts, SetsOfNames
      <4>2. PICK u : u = Flagged(s, v, p, d, g, m)
        OBVIOUS
      <4>3. /\ u \in CanvasSet /\ u.view = v /\ u.difference = d /\ u.set = s.set
            /\ u.phase = s.phase /\ u.crashed = s.crashed
        BY <4>0, <4>2, FlaggedFacts
      <4>4. u = Check(s, "AVERAGE", TRUE)
        BY <4>0, <4>1, <4>2 DEF Flagged, Check, CanvasSet
      <4>5. Lives(tag, u)
        BY <2>5, <4>1, <4>3 DEF Lives, Sound, Complete
      <4>6. PICK x : x = PlotAverage(HandleAverage(u))
        OBVIOUS
      <4>7. Lives(tag, x) /\ x \in CanvasSet
        BY <2>1, <4>5, <4>6, AverageLives DEF Lives, Sound
      <4>8. PICK b \in BOOLEAN : b = (s.view # "DATA")
        OBVIOUS
      <4>9. t = [x EXCEPT !.averaged = TRUE, !.phaseEntries = b]
        BY <2>3, <3>2, <4>4, <4>6, <4>8 DEF StartAverage
      <4>10. /\ t \in CanvasSet /\ t.view = x.view /\ t.difference = x.difference
             /\ t.set = x.set /\ t.phase = x.phase /\ t.crashed = x.crashed
        BY <4>7, <4>9 DEF CanvasSet
      <4> QED
        BY <4>7, <4>10 DEF Lives, Sound, Complete
    <3> QED
      BY <3>1, <3>2
  <2> QED
    BY <2>0, <2>4, <2>6
<1>2. app # "crashed"
  BY <1>1 DEF Init, Lives, Sound
<1> QED
  BY <1>1, <1>2

(* The user and the msr-files stay.                                        *)
LEMMA SameUser ==
  ASSUME [Next]_vars
  PROVE  UNCHANGED <<user, setup>>
<1>1. ASSUME NEW c, KeyDifference(c) PROVE UNCHANGED <<user, setup>>
  BY <1>1 DEF KeyDifference, AfterKey
<1>2. ASSUME NEW c, KeyUnzoom(c) PROVE UNCHANGED <<user, setup>>
  BY <1>2 DEF KeyUnzoom, AfterKey
<1>3. ASSUME NEW c, KeyFourier(c) PROVE UNCHANGED <<user, setup>>
  BY <1>3 DEF KeyFourier, AfterKey
<1>4. ASSUME NEW c, KeyPhase(c) PROVE UNCHANGED <<user, setup>>
  BY <1>4 DEF KeyPhase, AfterKey
<1>5. ASSUME NEW c, KeyAverage(c) PROVE UNCHANGED <<user, setup>>
  BY <1>5 DEF KeyAverage, AfterKey
<1>6. ASSUME NEW c, KeyOther(c) PROVE UNCHANGED <<user, setup>>
  BY <1>6 DEF KeyOther, AfterKey
<1>7. ASSUME NEW c, KeyQuit(c) PROVE UNCHANGED <<user, setup>>
  BY <1>7 DEF KeyQuit
<1>8. ASSUME NEW c, MenuData(c) PROVE UNCHANGED <<user, setup>>
  BY <1>8 DEF MenuData, AfterMenu
<1>9. ASSUME NEW c, MenuFourier(c) PROVE UNCHANGED <<user, setup>>
  BY <1>9 DEF MenuFourier, AfterMenu
<1>10. ASSUME NEW c, MenuPhase(c) PROVE UNCHANGED <<user, setup>>
  BY <1>10 DEF MenuPhase, AfterMenu
<1>11. ASSUME NEW c, MenuDifference(c) PROVE UNCHANGED <<user, setup>>
  BY <1>11 DEF MenuDifference, AfterMenu
<1>12. ASSUME NEW c, MenuAverage(c) PROVE UNCHANGED <<user, setup>>
  BY <1>12 DEF MenuAverage, AfterMenu
<1>13. ASSUME NEW c, MenuNoAverage(c) PROVE UNCHANGED <<user, setup>>
  BY <1>13 DEF MenuNoAverage, AfterMenu
<1>14. ASSUME NEW c, MenuExport(c) PROVE UNCHANGED <<user, setup>>
  BY <1>14 DEF MenuExport, AfterMenu
<1>15. ASSUME NEW c, MenuOther(c) PROVE UNCHANGED <<user, setup>>
  BY <1>15 DEF MenuOther, AfterMenu
<1>16. ASSUME NEW c, Zoom(c) PROVE UNCHANGED <<user, setup>>
  BY <1>16 DEF Zoom
<1>17. ASSUME NEW c, WindowClosed(c) PROVE UNCHANGED <<user, setup>>
  BY <1>17 DEF WindowClosed
<1>18. CASE Terminated \/ UNCHANGED vars
  BY <1>18 DEF Terminated, vars
<1> QED
  BY <1>1, <1>2, <1>3, <1>4, <1>5, <1>6, <1>7, <1>8, <1>9, <1>10,
     <1>11, <1>12, <1>13, <1>14, <1>15, <1>16, <1>17, <1>18 DEF Next

LEMMA NextLives == Inv /\ KeysInv /\ [Next]_vars => KeysInv'
<1> SUFFICES ASSUME Inv, KeysInv, [Next]_vars, OnlyKeys PROVE KeysInv'
  BY SameUser DEF KeysInv, OnlyKeys, Phased, Musr
<1>1. CASE UNCHANGED vars
  BY <1>1 DEF vars, KeysInv, OnlyKeys, Phased, Musr
<1>2. CASE Terminated
  BY <1>2 DEF Terminated, vars, KeysInv, OnlyKeys, Phased, Musr
<1>3. ASSUME NEW c \in open,
             \/ KeyDifference(c) \/ KeyUnzoom(c) \/ KeyFourier(c) \/ KeyPhase(c)
             \/ KeyAverage(c) \/ KeyOther(c)
      PROVE  KeysInv'
  BY <1>3, KeyDifferenceLives, KeyUnzoomLives, KeyFourierLives, KeyPhaseLives, KeyAverageLives,
     KeyOtherLives
<1>4. ASSUME NEW c \in open, KeyQuit(c) \/ WindowClosed(c)
      PROVE  KeysInv'
  BY <1>4 DEF KeyQuit, WindowClosed, KeysInv
<1>5. ASSUME NEW c \in open, Zoom(c)
      PROVE  KeysInv'
  BY <1>5, ZoomLives
<1>6. ASSUME NEW c \in open,
             \/ MenuData(c) \/ MenuFourier(c) \/ MenuPhase(c) \/ MenuDifference(c)
             \/ MenuAverage(c) \/ MenuNoAverage(c) \/ MenuExport(c) \/ MenuOther(c)
      PROVE  FALSE
  BY <1>6 DEF OnlyKeys, Menu, MenuData, MenuFourier, MenuPhase, MenuDifference, MenuAverage,
     MenuNoAverage, MenuExport, MenuOther
<1> QED
  BY <1>1, <1>2, <1>3, <1>4, <1>5, <1>6 DEF Next

(* HandleCmdKey never draws a spectrum which was not calculated, nor the   *)
(* phase of an empty vector: whatever is pressed in whatever windows, if   *)
(* there is a Fourier phase and the view is not the phase optimised one.   *)
THEOREM KeysAreSafe == Spec => []KeysNeverCrash
<1>1. KeysInv => KeysNeverCrash
  BY DEF KeysInv, OnlyKeys, Phased, KeysNeverCrash
<1>2. Spec => []KeysInv
  BY CanvasInvariant, InitLives, NextLives, PTL DEF Spec
<1> QED
  BY <1>1, <1>2, PTL

-----------------------------------------------------------------------------
(* The keys d and f in one window: which time window a transform is of. *)

FourierPad(s) ==
  s.drawn.kind \in {"data", "diff"} \/ (s.drawn.kind \in FourierKinds /\ s.frame = "freq")

(* A transform of the data goes when the data are shown, that of the       *)
(* difference when the difference is; so what is drawn tells of which kind *)
(* a difference is that is still there, and the last key how it came.      *)
Settled(key, s) ==
  /\ s.view = "DATA" /\ s.difference => s.set.diffFourier = None
  /\ s.view = "DATA" /\ ~s.difference => s.set.fourier = None
  /\ s.view # "DATA" /\ ~s.difference => s.set.fourier # None
  /\ s.set.diffFourier # None =>
       s.set.diffFourier.order = IF s.drawn.kind = "d-f" THEN "d-f" ELSE "f-d"
  /\ s.view # "DATA" /\ s.difference =>
       \/ s.drawn.kind = "d-f" /\ key = "kDiffFourier"
       \/ s.drawn.kind = "f-d" /\ key = "kFourierDiff" /\ s.set.fourier # None

PlainCanvas(c, key, s) ==
  /\ s \in CanvasSet /\ ~s.averaged
  /\ IF Musr(c) THEN s.drawn.kind \in Asked(s) /\ Settled(key, s)
                ELSE s.drawn.kind \in {"data", "diff"}

(* The property: a new transform is of the time window on the screen.      *)
OfWindow(s, t) ==
  t.drawn.kind \in {"fourier", "d-f"} /\ s.drawn.kind # "f-d" =>
    t.drawn.of = IF s.frame = "freq" THEN s.drawn.of ELSE s.frame

(* What a key may make of a canvas.                                        *)
PlainStep(c, key, s, t) ==
  FourierPad(t) /\ OfWindow(s, t) /\ (~t.crashed => PlainCanvas(c, key, t))

LEMMA PlainData ==
  ASSUME NEW c, NEW s, NEW key, PlainCanvas(c, key, s),
         NEW u \in CanvasSet, u.view = "DATA", ~u.averaged, u.set = s.set,
         s.view = "DATA" \/ s.difference = u.difference,
         NEW t, t = Show(c, u, IF u.difference THEN "kDiffData" ELSE "kData")
  PROVE  PlainStep(c, IF u.difference THEN "kDiffData" ELSE "kData", s, t)
<1>1. CASE u.difference
  <2>1. PICK v : v = CleanupFourierDifference(u)
    OBVIOUS
  <2>2. PICK w : w = HandleDifference(v)
    OBVIOUS
  <2>3. v \in CanvasSet /\ SamePad(u, v) /\ v.set.diffFourier = None
    BY <2>1, CleanupFourierDifferenceFacts
  <2>4. w \in CanvasSet /\ SamePad(v, w) /\ w.set.diffFourier = None
    BY <2>2, <2>3, HandleDifferenceFacts
  <2>5. t = PlotDifference(w, FALSE)
    BY <1>1, <2>1, <2>2 DEF Show
  <2>6. t \in CanvasSet /\ SameState(w, t) /\ t.drawn.kind = "diff"
    BY <2>4, <2>5, PlotDifferenceFacts
  <2>7. /\ t.view = "DATA" /\ t.difference /\ ~t.averaged /\ t.set.diffFourier = None
    BY <1>1, <2>3, <2>4, <2>6 DEF SamePad, SameFlags, SameState
  <2> QED
    BY <2>6, <2>7 DEF PlainStep, FourierPad, OfWindow, PlainCanvas, Settled, Asked
<1>2. CASE ~u.difference
  <2>1. PICK v : v = CleanupDifference(c, u)
    OBVIOUS
  <2>2. PICK w : w = CleanupFourier(v)
    OBVIOUS
  <2>3. v \in CanvasSet /\ SamePad(u, v) /\ v.set.diffFourier = u.set.diffFourier
    BY <2>1, CleanupDifferenceFacts
  <2>4. /\ w \in CanvasSet /\ SamePad(v, w) /\ w.set.fourier = None
        /\ w.set.diffFourier = v.set.diffFourier
    BY <2>2, <2>3, CleanupFourierFacts
  <2>5. t = PlotData(w, FALSE)
    BY <1>2, <2>1, <2>2 DEF Show
  <2>6. t \in CanvasSet /\ SameState(w, t) /\ t.drawn.kind = "data"
    BY <2>4, <2>5, PlotDataFacts
  <2>7. /\ t.view = "DATA" /\ ~t.difference /\ ~t.averaged /\ t.set.fourier = None
        /\ t.set.diffFourier = s.set.diffFourier
    BY <1>2, <2>3, <2>4, <2>6 DEF SamePad, SameFlags, SameState
  <2>8. Musr(c) /\ s.set.diffFourier # None => s.set.diffFourier.order = "f-d"
    BY <1>2 DEF PlainCanvas, Settled, Asked
  <2> QED
    BY <2>6, <2>7, <2>8 DEF PlainStep, FourierPad, OfWindow, PlainCanvas, Settled, Asked
<1> QED
  <2>1. u.difference \in BOOLEAN
    BY CanvasParts
  <2> QED
    BY <1>1, <1>2, <2>1

(* From the data to their transform, or back from a difference to it.      *)
LEMMA PlainFourier ==
  ASSUME NEW c, setup[c].startFourier = FALSE, NEW s, NEW key, PlainCanvas(c, key, s),
         FourierPad(s), InTime(s), ~s.crashed,
         NEW u \in CanvasSet, u.view # "DATA", ~u.difference, ~u.averaged, ~u.crashed,
         u.set = s.set, u.frame = s.frame, u.drawn = s.drawn,
         \/ s.view = "DATA" /\ ~s.difference
         \/ s.view # "DATA" /\ s.difference /\ key # "kDiffFourier",
         NEW t, t = Show(c, u, "kFourier")
  PROVE  PlainStep(c, "kFourier", s, t)
<1>1. PICK w : w = HandleFourier(c, u)
  OBVIOUS
<1>2. /\ w \in CanvasSet /\ SamePad(u, w) /\ w.crashed = u.crashed
      /\ Musr(c) => w.set.fourier # None
      /\ u.set.fourier = None /\ Musr(c) => w.set.fourier.of = u.frame
      /\ u.set.fourier # None => w = u
      /\ w.set.diffFourier = u.set.diffFourier
  BY <1>1, HandleFourierFacts DEF StartFrame
<1>3. t = PlotFourier(c, w)
  BY <1>1 DEF Show
<1>4. /\ t \in CanvasSet /\ SameState(w, t)
      /\ \/ t.drawn.kind = "fourier" /\ t.drawn.of = w.set.fourier.of /\ t.frame = "freq"
         \/ t.drawn = w.drawn /\ t.frame = w.frame /\ (Musr(c) => t.crashed)
  BY <1>2, <1>3, PlotFourierFacts
<1>5. /\ t.view # "DATA" /\ ~t.difference /\ ~t.averaged /\ t.set = w.set
      /\ w.drawn = s.drawn /\ w.frame = s.frame
  BY <1>2, <1>4 DEF SamePad, SameFlags, SameState
<1>6. CASE ~Musr(c)
  <2>1. t = w /\ w = u
    BY <1>1, <1>3, <1>6 DEF PlotFourier, HandleFourier
  <2> QED
    BY <1>4, <1>5, <1>6, <2>1 DEF PlainStep, PlainCanvas, FourierPad, OfWindow
<1>7. CASE Musr(c)
  <2>1. s.drawn.kind \in Asked(s) /\ Settled(key, s)
    BY <1>7 DEF PlainCanvas
  <2>2. s.set.diffFourier # None => s.set.diffFourier.order = "f-d"
    BY <2>1 DEF Settled, Asked
  <2>3. s.view = "DATA" => s.set.fourier = None /\ s.frame # "freq" /\ s.drawn.kind = "data"
    BY <2>1 DEF Settled, Asked, InTime
  <2>4. s.view # "DATA" => s.drawn.kind = "f-d"
    BY <2>1 DEF Settled, Asked
  <2>5. OfWindow(s, t)
    BY <1>2, <1>4, <1>5, <1>7, <2>3, <2>4 DEF OfWindow
  <2>6. FourierPad(t)
    BY <1>4, <1>5 DEF FourierPad, FourierKinds
  <2>7. ~t.crashed => Settled("kFourier", t) /\ t.drawn.kind \in Asked(t)
    BY <1>2, <1>4, <1>5, <1>7, <2>2 DEF Settled, Asked
  <2> QED
    BY <1>4, <1>5, <1>7, <2>5, <2>6, <2>7 DEF PlainStep, PlainCanvas
<1> QED
  BY <1>6, <1>7

(* From the difference of the data to its transform.                       *)
LEMMA PlainDifferenceFourier ==
  ASSUME NEW c, NEW s, NEW key, PlainCanvas(c, key, s), FourierPad(s), InTime(s), ~s.crashed,
         NEW u \in CanvasSet, u.view # "DATA", u.difference, ~u.averaged, ~u.crashed,
         u.set = s.set, u.frame = s.frame, u.drawn = s.drawn,
         s.view = "DATA", s.difference, NEW t, t = Show(c, u, "kDiffFourier")
  PROVE  PlainStep(c, "kDiffFourier", s, t)
<1>1. PICK w : w = HandleDifferenceFourier(c, u)
  OBVIOUS
<1>2. /\ w \in CanvasSet /\ SamePad(u, w) /\ w.crashed = u.crashed
      /\ u.set.diffFourier = None /\ Musr(c) =>
           w.set.diffFourier.order = "d-f" /\ w.set.diffFourier.of = u.frame
  BY <1>1, HandleDifferenceFourierFacts
<1>3. t = PlotFourierDifference(c, w)
  BY <1>1 DEF Show
<1>4. /\ t \in CanvasSet /\ SameState(w, t)
      /\ \/ /\ t.drawn.kind = w.set.diffFourier.order /\ t.drawn.kind \in {"d-f", "f-d"}
            /\ t.drawn.of = w.set.diffFourier.of /\ t.frame = "freq"
         \/ t.drawn = w.drawn /\ t.frame = w.frame /\ (Musr(c) => t.crashed)
  BY <1>2, <1>3, PlotFourierDifferenceFacts
<1>5. /\ t.view # "DATA" /\ t.difference /\ ~t.averaged /\ t.set = w.set
      /\ w.drawn = s.drawn /\ w.frame = s.frame
  BY <1>2, <1>4 DEF SamePad, SameFlags, SameState
<1>6. CASE ~Musr(c)
  <2>1. t = w /\ w = u
    BY <1>1, <1>3, <1>6 DEF PlotFourierDifference, HandleDifferenceFourier
  <2> QED
    BY <1>4, <1>5, <1>6, <2>1 DEF PlainStep, PlainCanvas, FourierPad, OfWindow
<1>7. CASE Musr(c)
  <2>1. s.set.diffFourier = None /\ s.frame # "freq" /\ s.drawn.kind = "diff"
    BY <1>7 DEF PlainCanvas, Settled, Asked, InTime
  <2>2. w.set.diffFourier.order = "d-f" /\ w.set.diffFourier.of = s.frame
    BY <1>2, <1>7, <2>1
  <2>3. OfWindow(s, t) /\ FourierPad(t)
    BY <1>4, <1>5, <2>1, <2>2 DEF OfWindow, FourierPad, FourierKinds
  <2>4. ~t.crashed => Settled("kDiffFourier", t) /\ t.drawn.kind \in Asked(t)
    BY <1>4, <1>5, <1>7, <2>2 DEF Settled, Asked
  <2> QED
    BY <1>4, <1>5, <1>7, <2>3, <2>4 DEF PlainStep, PlainCanvas
<1> QED
  BY <1>6, <1>7

(* From the transform of the data to the difference of the transforms.     *)
LEMMA PlainFourierDifference ==
  ASSUME NEW c, NEW s, NEW key, PlainCanvas(c, key, s), FourierPad(s), ~s.crashed,
         NEW u \in CanvasSet, u.view # "DATA", u.difference, ~u.averaged, ~u.crashed,
         u.set = s.set, u.frame = s.frame, u.drawn = s.drawn,
         s.view # "DATA", ~s.difference, NEW t, t = Show(c, u, "kFourierDiff")
  PROVE  PlainStep(c, "kFourierDiff", s, t)
<1>1. PICK w : w = HandleFourierDifference(c, u)
  OBVIOUS
<1>2. /\ w \in CanvasSet /\ SamePad(u, w)
      /\ u.set.fourier # None \/ u.set.diffFourier # None => w.crashed = u.crashed
      /\ u.set.diffFourier = None /\ Musr(c) /\ ~w.crashed => w.set.diffFourier.order = "f-d"
      /\ u.set.diffFourier # None => w = u
      /\ w.set.fourier = u.set.fourier
  BY <1>1, HandleFourierDifferenceFacts
<1>3. t = PlotFourierDifference(c, w)
  BY <1>1 DEF Show
<1>4. /\ t \in CanvasSet /\ SameState(w, t)
      /\ \/ /\ t.drawn.kind = w.set.diffFourier.order /\ t.drawn.kind \in {"d-f", "f-d"}
            /\ t.drawn.of = w.set.diffFourier.of /\ t.frame = "freq"
         \/ t.drawn = w.drawn /\ t.frame = w.frame /\ (Musr(c) => t.crashed)
  BY <1>2, <1>3, PlotFourierDifferenceFacts
<1>5. /\ t.view # "DATA" /\ t.difference /\ ~t.averaged /\ t.set = w.set
      /\ w.drawn = s.drawn /\ w.frame = s.frame
  BY <1>2, <1>4 DEF SamePad, SameFlags, SameState
<1>6. CASE ~Musr(c)
  <2>1. t = w /\ w = u
    BY <1>1, <1>3, <1>6 DEF PlotFourierDifference, HandleFourierDifference
  <2> QED
    BY <1>4, <1>5, <1>6, <2>1 DEF PlainStep, PlainCanvas, FourierPad, OfWindow
<1>7. CASE Musr(c)
  <2>1. /\ s.set.fourier # None /\ s.drawn.kind = "fourier" /\ s.frame = "freq"
        /\ s.set.diffFourier # None => s.set.diffFourier.order = "f-d"
    BY <1>7 DEF PlainCanvas, Settled, Asked, FourierPad
  <2>2. w.set.diffFourier.order = "f-d" /\ w.set.fourier # None
    BY <1>2, <1>7, <2>1
  <2>3. OfWindow(s, t) /\ FourierPad(t)
    BY <1>4, <1>5, <2>1, <2>2 DEF OfWindow, FourierPad, FourierKinds
  <2>4. ~t.crashed => Settled("kFourierDiff", t) /\ t.drawn.kind \in Asked(t)
    BY <1>4, <1>5, <1>7, <2>2 DEF Settled, Asked
  <2> QED
    BY <1>4, <1>5, <1>7, <2>3, <2>4 DEF PlainStep, PlainCanvas
<1> QED
  BY <1>6, <1>7

(* The canvases as long as the user has only these keys.                   *)
PlainInv ==
  PlainUser => \A c \in user.canvases :
    FourierPad(canvas[c]) /\ (~canvas[c].crashed => PlainCanvas(c, lastKey, canvas[c]))

LEMMA PlainThere ==
  ASSUME Inv, PlainInv, PlainUser, app = "running", NEW c \in open
  PROVE  /\ c \in user.canvases /\ canvas[c] \in CanvasSet /\ ~canvas[c].crashed
         /\ PlainCanvas(c, lastKey, canvas[c]) /\ FourierPad(canvas[c]) /\ InTime(canvas[c])
         /\ setup[c].startFourier = FALSE /\ setup[c].tag \in FourierViews
<1>1. c \in user.canvases /\ canvas[c] \in CanvasSet /\ ~canvas[c].crashed /\ InTime(canvas[c])
  BY WhatIsThere
<1>2. setup[c] \in Setup
  BY <1>1 DEF Inv, TypeInv
<1> QED
  BY <1>1, <1>2 DEF PlainInv, PlainUser, Setup

AllOfWindow == \A c \in user.canvases : OfWindow(canvas[c], canvas'[c])

LEMMA AfterKeyPlain ==
  ASSUME Inv, PlainUser, NEW c \in user.canvases, NEW s, NEW u, NEW switch, s = canvas[c],
         AfterKey(c, u, switch), PlainStep(c, switch, s, Show(c, u, switch)),
         Show(c, u, switch) \in CanvasSet
  PROVE  PlainInv' /\ AllOfWindow
<1>1. PICK shown : shown = Show(c, u, switch)
  OBVIOUS
<1>2. PICK b : b \in BOOLEAN /\ b = (u.view # "DATA")
  OBVIOUS
<1>3. PICK t : t = [shown EXCEPT !.phaseEntries = b]
  OBVIOUS
<1>4. /\ t \in CanvasSet /\ SamePad(shown, t) /\ t.set = shown.set
      /\ t.crashed = shown.crashed
  BY <1>1, <1>2, <1>3, PhaseEntriesFacts
<1>5. PlainStep(c, switch, s, shown)
  BY <1>1
<1>6. FourierPad(t) /\ OfWindow(s, t) /\ (~t.crashed => PlainCanvas(c, switch, t))
  BY <1>4, <1>5 DEF PlainStep, FourierPad, OfWindow, PlainCanvas, Settled, Asked, SamePad, SameFlags
<1>7. canvas' = [canvas EXCEPT ![c] = t]
  BY <1>1, <1>2, <1>3 DEF AfterKey
<1>8. TypeInv
  BY DEF Inv
<1>9. canvas'[c] = t
  BY <1>7, <1>8, OneCanvas
<1>10. UNCHANGED <<user, setup>> /\ lastKey' = switch
  BY DEF AfterKey
<1>11. \A d \in user.canvases : d = c
  BY DEF PlainUser
<1>12. AllOfWindow
  BY <1>6, <1>9, <1>11 DEF AllOfWindow
<1>13. PlainInv'
  <2>1. FourierPad(canvas'[c]) /\ (~canvas'[c].crashed => PlainCanvas(c, lastKey', canvas'[c]))
    BY <1>6, <1>9, <1>10
  <2>2. (~canvas[c].crashed => PlainCanvas(c, lastKey, canvas[c]))'
    BY <1>10, <2>1 DEF PlainCanvas, Musr
  <2> QED
    BY <1>10, <1>11, <2>1, <2>2 DEF PlainInv
<1> QED
  BY <1>12, <1>13

LEMMA KeyDifferencePlain ==
  ASSUME Inv, PlainInv, PlainUser, NEW c \in open, KeyDifference(c)
  PROVE  PlainInv' /\ AllOfWindow
<1>1. app = "running" /\ (lastKey = "kDiffFourier" => FALSE)
  BY DEF KeyDifference, Key, Ignored
<1>2. PICK s \in CanvasSet : s = canvas[c]
  BY <1>1, PlainThere
<1>3. PICK on \in BOOLEAN : on = ~s.difference
  OBVIOUS
<1>4. PICK m \in SUBSET Entries : m = Check(s, "DIFFERENCE", on).menu
  BY CanvasParts, SetsOfNames DEF Check, CanvasSet
<1>5. PICK v, g : v \in Views /\ g \in BOOLEAN /\ v = s.view /\ g = s.averaged
  BY CanvasParts
<1>6. PICK u : u = Flagged(s, v, v, on, g, m)
  OBVIOUS
<1>7. /\ u \in CanvasSet /\ u.view = v /\ u.difference = on /\ u.averaged = g
      /\ u.frame = s.frame /\ u.drawn = s.drawn /\ u.set = s.set /\ u.crashed = s.crashed
      /\ u.prev = v
  BY <1>5, <1>6, FlaggedFacts
<1>8. PICK w : w = SwitchOf(u.view, u.difference)
  OBVIOUS
<1>9. AfterKey(c, u, w)
  <2>1. u = [Check(s, "DIFFERENCE", on) EXCEPT !.difference = on, !.prev = s.view]
    BY <1>4, <1>5, <1>6 DEF Check, Flagged, CanvasSet
  <2> QED
    BY <1>2, <1>3, <1>5, <1>7, <1>8, <2>1 DEF KeyDifference
<1>10. PICK key : key = lastKey /\ key # "kDiffFourier"
  BY <1>1
<1>11. /\ PlainCanvas(c, key, s) /\ FourierPad(s) /\ InTime(s) /\ ~s.crashed /\ ~u.averaged
       /\ setup[c].startFourier = FALSE
  BY <1>1, <1>2, <1>5, <1>7, <1>10, PlainThere DEF PlainCanvas
<1>12. PICK t : t = Show(c, u, w)
  OBVIOUS
<1>13. PlainStep(c, w, s, t)
  <2>1. CASE u.view = "DATA"
    BY <1>5, <1>7, <1>8, <1>11, <1>12, <2>1, PlainData DEF SwitchOf
  <2>2. CASE u.view # "DATA" /\ u.difference
    <3>1. w = "kFourierDiff" /\ s.view # "DATA" /\ ~s.difference
      BY <1>3, <1>5, <1>7, <1>8, <2>2 DEF SwitchOf
    <3> QED
      BY <1>7, <1>11, <1>12, <2>2, <3>1, PlainFourierDifference
  <2>3. CASE u.view # "DATA" /\ ~u.difference
    <3>1. w = "kFourier" /\ s.view # "DATA" /\ s.difference
      BY <1>3, <1>5, <1>7, <1>8, <2>3 DEF SwitchOf
    <3> QED
      BY <1>7, <1>10, <1>11, <1>12, <2>3, <3>1, PlainFourier
  <2> QED
    BY <2>1, <2>2, <2>3
<1>14. t \in CanvasSet
  <2>1. ReadyToShow(w, u)
    BY <1>5, <1>7, <1>8, <1>11, SwitchFits DEF ReadyToShow, InTime, PadInTime
  <2> QED
    BY <1>12, <2>1, ShowRedraws DEF Redrawn
<1> QED
  BY <1>1, <1>2, <1>9, <1>12, <1>13, <1>14, PlainThere, AfterKeyPlain

LEMMA KeyFourierPlain ==
  ASSUME Inv, PlainInv, PlainUser, NEW c \in open, KeyFourier(c)
  PROVE  PlainInv' /\ AllOfWindow
<1>1. app = "running"
  BY DEF KeyFourier, Key
<1>2. PICK s \in CanvasSet : s = canvas[c]
  BY <1>1, PlainThere
<1>3. PICK to : to = IF s.view = "DATA" THEN setup[c].tag ELSE "DATA"
  OBVIOUS
<1>4. to \in Views /\ (to = "DATA" <=> s.view # "DATA")
  BY <1>1, <1>3, PlainThere, SetsOfNames DEF Views
<1>5. PICK v \in Views, d \in BOOLEAN, g \in BOOLEAN, m \in SUBSET Entries :
        /\ v = s.view /\ d = s.difference /\ g = s.averaged
        /\ m = (s.menu \ Views) \cup {to}
  BY <1>4, CanvasParts, SetsOfNames
<1>6. PICK u : u = Flagged(s, to, v, d, g, m)
  OBVIOUS
<1>7. /\ u \in CanvasSet /\ u.view = to /\ u.difference = d /\ u.averaged = g /\ u.prev = v
      /\ u.frame = s.frame /\ u.drawn = s.drawn /\ u.set = s.set /\ u.crashed = s.crashed
  BY <1>4, <1>6, FlaggedFacts
<1>8. PICK w : w = IF s.view = "DATA"
                   THEN IF s.difference THEN "kDiffFourier" ELSE "kFourier"
                   ELSE IF s.difference THEN "kDiffData" ELSE "kData"
  OBVIOUS
<1>9. AfterKey(c, u, w)
  <2>1. u = [s EXCEPT !.prev = s.view, !.view = to, !.menu = (s.menu \ Views) \cup {to}]
    BY <1>5, <1>6 DEF Flagged, CanvasSet
  <2> QED
    BY <1>2, <1>3, <1>8, <2>1 DEF KeyFourier
<1>10. PICK key : key = lastKey
  OBVIOUS
<1>11. /\ PlainCanvas(c, key, s) /\ FourierPad(s) /\ InTime(s) /\ ~s.crashed /\ ~u.averaged
       /\ setup[c].startFourier = FALSE
  BY <1>1, <1>2, <1>5, <1>7, <1>10, PlainThere DEF PlainCanvas
<1>12. PICK t : t = Show(c, u, w)
  OBVIOUS
<1>13. PlainStep(c, w, s, t)
  <2>1. CASE u.view = "DATA"
    <3>1. w = IF u.difference THEN "kDiffData" ELSE "kData"
      BY <1>4, <1>5, <1>7, <1>8, <2>1
    <3> QED
      BY <1>5, <1>7, <1>11, <1>12, <2>1, <3>1, PlainData
  <2>2. CASE u.view # "DATA" /\ u.difference
    <3>1. w = "kDiffFourier" /\ s.view = "DATA" /\ s.difference
      BY <1>4, <1>5, <1>7, <1>8, <2>2
    <3> QED
      BY <1>7, <1>11, <1>12, <2>2, <3>1, PlainDifferenceFourier
  <2>3. CASE u.view # "DATA" /\ ~u.difference
    <3>1. w = "kFourier" /\ s.view = "DATA" /\ ~s.difference
      BY <1>4, <1>5, <1>7, <1>8, <2>3
    <3> QED
      BY <1>7, <1>11, <1>12, <2>3, <3>1, PlainFourier
  <2> QED
    BY <2>1, <2>2, <2>3
<1>14. t \in CanvasSet
  <2>1. Fits(w, u)
    BY <1>4, <1>5, <1>7, <1>8 DEF Fits
  <2>2. ReadyToShow(w, u)
    BY <1>5, <1>7, <1>11, <2>1 DEF ReadyToShow, InTime, PadInTime
  <2> QED
    BY <1>12, <2>2, ShowRedraws DEF Redrawn
<1> QED
  BY <1>1, <1>2, <1>9, <1>12, <1>13, <1>14, PlainThere, AfterKeyPlain

(* Zooming is for plots of data.                                           *)
LEMMA ZoomPlain ==
  ASSUME Inv, PlainInv, PlainUser, NEW c \in open, Zoom(c)
  PROVE  PlainInv' /\ AllOfWindow
<1>1. app = "running" /\ UNCHANGED <<user, setup, lastKey>> /\ canvas[c].frame # "freq"
  BY DEF Zoom
<1>2. PICK w \in Windows : canvas' = [canvas EXCEPT ![c].frame = w]
  BY DEF Zoom
<1>3. PICK s : s \in CanvasSet /\ s = canvas[c]
  BY <1>1, PlainThere
<1>4. /\ c \in user.canvases /\ ~s.crashed
      /\ PlainCanvas(c, lastKey, s) /\ s.drawn.kind \in {"data", "diff"}
  BY <1>1, <1>3, PlainThere DEF FourierPad
<1>5. PICK m \in SUBSET Entries, d \in Drawn \cup {None} : m = s.menu /\ d = s.drawn
  BY <1>3, CanvasParts
<1>6. PICK t : t = Plotted(s, m, w, d)
  OBVIOUS
<1>7. t \in CanvasSet /\ SameState(s, t) /\ t.crashed = s.crashed /\ t.drawn = s.drawn
  <2>1. w \in Frames
    BY DEF Frames
  <2> QED
    BY <1>3, <1>5, <1>6, <2>1, PlottedFacts DEF SameState
<1>8. PlainCanvas(c, lastKey, t) /\ FourierPad(t) /\ OfWindow(s, t)
  BY <1>4, <1>7 DEF PlainCanvas, FourierPad, OfWindow, Settled, Asked, SameState
<1>9. canvas' = [canvas EXCEPT ![c] = t]
  <2>1. t = [s EXCEPT !.frame = w]
    BY <1>5, <1>6 DEF Plotted, CanvasSet
  <2> QED
    BY <1>2, <1>3, <2>1
<1>10. TypeInv
  BY DEF Inv
<1>11. canvas'[c] = t
  BY <1>4, <1>9, <1>10, OneCanvas
<1>12. \A e \in user.canvases : e = c
  BY <1>4 DEF PlainUser
<1>13. AllOfWindow
  BY <1>3, <1>8, <1>11, <1>12 DEF AllOfWindow
<1>14. (~canvas[c].crashed => PlainCanvas(c, lastKey, canvas[c]))'
  BY <1>1, <1>8, <1>11 DEF PlainCanvas, Musr
<1> QED
  BY <1>1, <1>8, <1>11, <1>12, <1>13, <1>14 DEF PlainInv

(* Nothing is drawn: a window is closed, or the program has ended.         *)
LEMMA NothingDrawnPlain ==
  ASSUME PlainInv, PlainUser, UNCHANGED <<user, setup, canvas, lastKey>>
  PROVE  PlainInv' /\ AllOfWindow
<1>1. \A c \in user.canvases : OfWindow(canvas[c], canvas[c])
  BY DEF PlainInv, FourierPad, OfWindow
<1> QED
  BY <1>1 DEF PlainInv, AllOfWindow, PlainUser, PlainCanvas, Musr

LEMMA InitPlain == Init => PlainInv
<1> SUFFICES ASSUME Init, PlainUser, NEW c \in user.canvases
             PROVE  FourierPad(canvas[c]) /\ (~canvas[c].crashed => PlainCanvas(c, lastKey, canvas[c]))
  BY DEF PlainInv
<1>1. PICK v \in Views, b \in BOOLEAN : v = "DATA" /\ ~b
  BY DEF Views
<1>2. PICK s : s = Started(v, b)
  OBVIOUS
<1>3. s = InitCanvas
  BY <1>1, <1>2 DEF InitCanvas, Started
<1>4. s \in CanvasSet /\ s.view = v /\ s.set = NoSpectra /\ ~s.averaged /\ ~s.difference
  BY <1>2, StartedFacts
<1>5. canvas[c] = PlotData(s, FALSE)
  BY <1>3 DEF Init, StartAverage, FirstView, PlainUser
<1>6. PICK t : t = PlotData(s, FALSE)
  OBVIOUS
<1>7. t \in CanvasSet /\ SameState(s, t) /\ t.drawn.kind = "data"
  BY <1>4, <1>6, PlotDataFacts
<1>8. t.set.fourier = None /\ t.set.diffFourier = None
  BY <1>4, <1>7 DEF NoSpectra, SameState
<1>9. FourierPad(t) /\ PlainCanvas(c, lastKey, t)
  BY <1>1, <1>4, <1>7, <1>8 DEF FourierPad, PlainCanvas, Settled, Asked, SameState
<1> QED
  BY <1>5, <1>6, <1>9

LEMMA NextPlain ==
  ASSUME Inv, PlainInv, PlainUser, [Next]_vars
  PROVE  PlainInv' /\ AllOfWindow
<1>1. CASE UNCHANGED vars
  BY <1>1, NothingDrawnPlain DEF vars
<1>2. CASE Terminated
  BY <1>2, NothingDrawnPlain DEF Terminated, vars
<1>3. ASSUME NEW c \in open, KeyDifference(c) \/ KeyFourier(c) \/ Zoom(c)
      PROVE  PlainInv' /\ AllOfWindow
  BY <1>3, KeyDifferencePlain, KeyFourierPlain, ZoomPlain
<1>4. ASSUME NEW c \in open, WindowClosed(c)
      PROVE  PlainInv' /\ AllOfWindow
  BY <1>4, NothingDrawnPlain DEF WindowClosed
<1>5. ASSUME NEW c \in open,
             KeyUnzoom(c) \/ KeyPhase(c) \/ KeyAverage(c) \/ KeyOther(c) \/ KeyQuit(c)
      PROVE  FALSE
  <2>1. user.keys \subseteq {"d", "f"}
    BY DEF PlainUser
  <2> QED
    BY <1>5, <2>1 DEF Key, KeyUnzoom, KeyPhase, KeyAverage, KeyOther, KeyQuit
<1>6. ASSUME NEW c \in open,
             \/ MenuData(c) \/ MenuFourier(c) \/ MenuPhase(c) \/ MenuDifference(c)
             \/ MenuAverage(c) \/ MenuNoAverage(c) \/ MenuExport(c) \/ MenuOther(c)
      PROVE  FALSE
  BY <1>6 DEF PlainUser, Menu, MenuData, MenuFourier, MenuPhase, MenuDifference, MenuAverage,
     MenuNoAverage, MenuExport, MenuOther
<1> QED
  BY <1>1, <1>2, <1>3, <1>4, <1>5, <1>6 DEF Next

(* A user of the keys d and f, in one window, sees the transform of the    *)
(* time window which was on the screen: HandleFourier calculates it anew,  *)
(* since the way back to the data has cleaned up the old one.              *)
THEOREM TransformsFollow == Spec => TransformOfWindow
<1> DEFINE Step == PlainUser => AllOfWindow
<1>1. Inv /\ PlainInv /\ [Next]_vars => PlainInv' /\ Step
  <2> SUFFICES ASSUME Inv, PlainInv, [Next]_vars PROVE PlainInv' /\ Step
    OBVIOUS
  <2>1. CASE PlainUser
    BY <2>1, NextPlain
  <2>2. CASE ~PlainUser
    BY <2>2, SameUser DEF PlainInv, PlainUser
  <2> QED
    BY <2>1, <2>2
<1>2. Spec => []PlainInv
  BY <1>1, CanvasInvariant, InitPlain, PTL DEF Spec
<1>3. Step <=> (PlainUser => \A c \in user.canvases :
                  LET s == canvas[c]
                      t == canvas'[c]
                  IN t.drawn.kind \in {"fourier", "d-f"} /\ s.drawn.kind # "f-d" =>
                       t.drawn.of = IF s.frame = "freq" THEN s.drawn.of ELSE s.frame)
  BY DEF AllOfWindow, OfWindow
<1> QED
  BY <1>1, <1>2, <1>3, CanvasInvariant, PTL DEF Spec, TransformOfWindow

=============================================================================
