------------------------------ MODULE MusrCanvas ------------------------------
(***************************************************************************)
(* The windows of musrview (src/src/classes/PMusrCanvas.cpp): one canvas   *)
(* per PLOT block, each with its keys and its menu.                        *)
(*                                                                         *)
(* A canvas shows data or a Fourier transform (fCurrentPlotView), or the   *)
(* difference to the theory (fDifferenceView), which in the Fourier views  *)
(* is the transform of the difference (d-f) or the difference of the       *)
(* transforms (f-d).  The spectra are calculated when they are first       *)
(* asked for, from the time window which is on the screen (fHistoFrame),   *)
(* and kept until a clean-up.  Two variables of the handlers are static:   *)
(* all the canvases share them.                                            *)
(*                                                                         *)
(* A spectrum is replaced by the frame it was calculated from and by how   *)
(* often its phase was turned since.  The handlers call a sequence of      *)
(* Cleanup, Handle and Plot functions: operators on the state of a canvas. *)
(***************************************************************************)
EXTENDS Integers, FiniteSetsExt

CONSTANTS
  Canvases,     \* the numbers of the PLOT blocks there may be
  Setups,       \* what the msr-file and the options say of a canvas, see Setup
  Users,        \* the users to look at, see User
  Windows,      \* the time windows one can zoom into
  None,         \* a spectrum which is not there, an empty vector
  MaxTurn       \* bound: the net number of phase steps

FourierViews == {"REAL", "IMAG", "REAL_AND_IMAG", "PWR", "PHASE", "PHASE_OPT_REAL"}
Views == {"DATA"} \cup FourierViews
Keys == {"q", "d", "u", "f", "+", "-", "a", "other"}
Entries == Views \cup {"DIFFERENCE", "AVERAGE", "PHASE", "EXPORT", "other"}
Switches == {"kNotRelevant", "kData", "kDiffData", "kFourier", "kDiffFourier", "kFourierDiff"}

(* sets: the data sets of the plot; 0 stands for a non-muSR plot, which    *)
(* has none in fData.  phase: whether there is a Fourier phase.            *)
Setup == [tag : FourierViews, sets : 0..2, phase : BOOLEAN,
          startFourier : BOOLEAN, startAvg : BOOLEAN]
User == [canvases : SUBSET Canvases, keys : SUBSET Keys, entries : SUBSET Entries]

Frames == {"msr", "freq"} \cup Windows

ASSUME MusrCanvasAssumption ==
  /\ Canvases \subseteq Nat /\ \E n \in Canvases : Canvases \subseteq 0..n
  /\ Setups \subseteq Setup /\ Users \subseteq User
  /\ MaxTurn \in Nat
  /\ None \notin Frames /\ "freq" \notin Windows

VARIABLES
  user,         \* who sits there
  setup,        \* the setup of every canvas
  canvas,       \* the state of every canvas
  open,         \* the canvases which are open
  lastKey,      \* lastKeySwitch of HandleCmdKey, static
  lastView,     \* previousPlotView of HandleMenuPopup, static
  app           \* "running", "done" or "crashed"

vars == <<user, setup, canvas, open, lastKey, lastView, app>>

Musr(c) == setup[c].sets > 0

-----------------------------------------------------------------------------
(* The spectra of a canvas.  fourier: dataFourierRe ... and those of the    *)
(* theory, optReal: dataFourierPhaseOptReal, diffFourier and diffOptReal    *)
(* those of the difference, diffFourier.order is diffFourierTag.            *)

NoSpectra == [diff |-> FALSE, fourier |-> None, optReal |-> FALSE,
              diffFourier |-> None, diffOptReal |-> FALSE]

(* menu: the checked entries; phaseEntries: whether "Phase +" is enabled;   *)
(* phase: fCurrentFourierPhase; avg: fDataAvg; drawn: what is in the pad.   *)
InitCanvas ==
  [view |-> "DATA", prev |-> "DATA", difference |-> FALSE, averaged |-> FALSE,
   menu |-> {"DATA"}, phaseEntries |-> FALSE, frame |-> "msr", phase |-> None,
   set |-> NoSpectra, avg |-> None, drawn |-> None, crashed |-> FALSE]

Crash(s) == [s EXCEPT !.crashed = TRUE]

CleanupDifference(c, s) == IF Musr(c) THEN [s EXCEPT !.set.diff = FALSE] ELSE s
CleanupFourier(s) == [s EXCEPT !.set.fourier = None, !.set.optReal = FALSE]
CleanupFourierDifference(s) ==
  [s EXCEPT !.set.diffFourier = None, !.set.diffOptReal = FALSE]
CleanupAverage(s) == [s EXCEPT !.avg = None]

HandleDifference(s) == [s EXCEPT !.set.diff = TRUE]

CalcPhaseOptReFT(s) == [s EXCEPT !.set.optReal = TRUE]

(* fCurrentFourierPhase is set to the phase of the msr-file, if there is one *)
ApplyPhase(c, s) == [s EXCEPT !.phase = IF setup[c].phase THEN 0 ELSE @]

HandleFourier(c, s) ==
  IF ~Musr(c) \/ s.set.fourier # None THEN s
  ELSE LET start == IF setup[c].startFourier THEN "msr" ELSE s.frame
           t == [s EXCEPT !.set.fourier = [of |-> start, turn |-> 0]]
       IN ApplyPhase(c, IF s.view = "PHASE_OPT_REAL" THEN CalcPhaseOptReFT(t) ELSE t)

HandleDifferenceFourier(c, s) ==
  IF ~Musr(c) \/ s.set.diffFourier # None THEN s
  ELSE ApplyPhase(c, [HandleDifference(s) EXCEPT
         !.set.diffFourier = [order |-> "d-f", of |-> s.frame, turn |-> 0]])

(* reads dataFourierRe without a look whether it is there *)
HandleFourierDifference(c, s) ==
  IF ~Musr(c) \/ s.set.diffFourier # None THEN s
  ELSE IF s.set.fourier = None THEN Crash(s)
  ELSE [s EXCEPT !.set.diffOptReal = @ \/ s.set.optReal,
                 !.set.diffFourier = [order |-> "f-d", of |-> s.set.fourier.of,
                                      turn |-> s.set.fourier.turn]]

(* the marker of diffFourierPhaseOptReal is taken from dataFourierPhaseOptReal *)
HandleAverage(s) ==
  IF s.set.diffOptReal /\ ~s.set.optReal THEN Crash(s)
                                         ELSE [s EXCEPT !.avg = s.set]

-----------------------------------------------------------------------------
(* Drawing.  A null pointer among what is drawn ends the program.           *)

(* the spectra of x which a Fourier view needs, of data or of the difference *)
HasFourier(x, view, difference) ==
  IF difference
    THEN x.diffFourier # None /\ (view = "PHASE_OPT_REAL" => x.diffOptReal)
    ELSE x.fourier # None /\ (view = "PHASE_OPT_REAL" => x.optReal)

HasView(x, view, difference) ==
  IF view = "DATA" THEN difference => x.diff ELSE HasFourier(x, view, difference)

(* PlotFourierPhaseValue: fCurrentFourierPhase[0], even of an empty vector  *)
ShowsPhase(view, difference) ==
  view \in {"REAL", "IMAG", "REAL_AND_IMAG"} \/ (view = "PHASE" /\ difference)

PlotFourierPhaseValue(s) == IF s.phase = None THEN Crash(s) ELSE s

(* mutant: the window of the plot before, whatever it was                   *)
TimeFrameAlways(s, unzoom) == IF ~unzoom THEN s.frame ELSE "msr"

(* the time window stays if the plot before was one of data, too *)
TimeFrame(s, unzoom) == IF ~unzoom /\ s.prev = "DATA" THEN s.frame ELSE "msr"

PlotData(s, unzoom) ==
  [s EXCEPT !.menu = @ \ FourierViews, !.frame = TimeFrame(s, unzoom),
            !.drawn = [kind |-> "data", of |-> TimeFrame(s, unzoom)]]

PlotDifference(s, unzoom) ==
  [s EXCEPT !.frame = TimeFrame(s, unzoom),
            !.drawn = [kind |-> "diff", of |-> TimeFrame(s, unzoom)]]

DrawFourier(s, difference, drawn) ==
  IF ~HasFourier(s.set, s.view, difference) THEN Crash(s)
  ELSE LET t == [s EXCEPT !.frame = "freq", !.drawn = drawn]
       IN IF ShowsPhase(s.view, difference) THEN PlotFourierPhaseValue(t) ELSE t

PlotFourier(c, s) ==
  IF ~Musr(c) \/ s.crashed THEN s
  ELSE IF s.set.fourier = None THEN Crash(s)
  ELSE DrawFourier(s, FALSE, [kind |-> "fourier", of |-> s.set.fourier.of])

PlotFourierDifference(c, s) ==
  IF ~Musr(c) \/ s.crashed THEN s
  ELSE IF s.set.diffFourier = None THEN Crash(s)
  ELSE DrawFourier(s, TRUE, [kind |-> s.set.diffFourier.order, of |-> s.set.diffFourier.of])

PlotAverage(s) ==
  IF ~s.crashed /\ HasView(s.avg, s.view, s.difference)
    THEN [s EXCEPT !.drawn = [kind |-> "average", of |-> s.frame]]
    ELSE Crash(s)

(* mutant: a difference leaves the Fourier differences                      *)
ShowNoCleanup(c, s, switch) ==
  CASE switch = "kData" ->
         PlotData(CleanupFourier(CleanupDifference(c, s)), FALSE)
    [] switch = "kDiffData" -> PlotDifference(HandleDifference(s), FALSE)
    [] switch = "kFourier" -> PlotFourier(c, HandleFourier(c, s))
    [] switch = "kDiffFourier" ->
         PlotFourierDifference(c, HandleDifferenceFourier(c, s))
    [] switch = "kFourierDiff" ->
         PlotFourierDifference(c, HandleFourierDifference(c, s))
    [] OTHER -> s

(* mutant: the transforms of the data go when their difference is shown     *)
ShowCleanup(c, s, switch) ==
  IF switch = "kDiffFourier"
    THEN PlotFourier(c, CleanupFourier(HandleDifferenceFourier(c, s)))
    ELSE ShowNoCleanup(c, s, switch)

(* the last switch of HandleCmdKey *)
Show(c, s, switch) ==
  CASE switch = "kData" ->
         PlotData(CleanupFourier(CleanupDifference(c, s)), FALSE)
    [] switch = "kDiffData" ->
         PlotDifference(HandleDifference(CleanupFourierDifference(s)), FALSE)
    [] switch = "kFourier" -> PlotFourier(c, HandleFourier(c, s))
    [] switch = "kDiffFourier" ->
         PlotFourierDifference(c, HandleDifferenceFourier(c, s))
    [] switch = "kFourierDiff" ->
         PlotFourierDifference(c, HandleFourierDifference(c, s))
    [] OTHER -> s

(* the switch for a view, when the difference is toggled in it *)
SwitchOf(view, difference) ==
  IF view = "DATA" THEN IF difference THEN "kDiffData" ELSE "kData"
                   ELSE IF difference THEN "kFourierDiff" ELSE "kFourier"

Check(s, entry, on) == [s EXCEPT !.menu = IF on THEN @ \cup {entry} ELSE @ \ {entry}]

-----------------------------------------------------------------------------
(* UpdateDataTheoryPad: the first plot, with the options -f and -a.         *)

FirstView(c) ==
  IF ~setup[c].startFourier \/ ~Musr(c) THEN PlotData(InitCanvas, FALSE)
  ELSE LET tag == setup[c].tag
       IN PlotFourier(c, HandleFourier(c,
            [InitCanvas EXCEPT !.view = tag, !.menu = {tag},
                !.phaseEntries = tag \in {"REAL", "IMAG", "REAL_AND_IMAG"}]))

StartAverage(c, s) ==
  IF setup[c].startAvg /\ setup[c].sets > 1 /\ ~s.crashed
    THEN [PlotAverage(HandleAverage(Check(s, "AVERAGE", TRUE))) EXCEPT
             !.averaged = TRUE, !.phaseEntries = s.view # "DATA"]
    ELSE s

Init ==
  /\ user \in Users
  /\ setup \in [user.canvases -> Setups]
  /\ canvas = [c \in user.canvases |-> StartAverage(c, FirstView(c))]
  /\ open = user.canvases
  /\ lastKey = "kNotRelevant"
  /\ lastView = "DATA"
  /\ app = IF \E c \in user.canvases : canvas[c].crashed THEN "crashed" ELSE "running"

-----------------------------------------------------------------------------
(* Keys: HandleCmdKey.                                                      *)

(* "f-d-f doesn't make any sense, will ignore", and so does d-f-d *)
Ignored(key) ==
  \/ lastKey = "kFourierDiff" /\ key = "f"
  \/ lastKey = "kDiffFourier" /\ key = "d"

Key(c, key) ==
  /\ app = "running"
  /\ key \in user.keys
  /\ ~Ignored(key)

(* what every key does when the canvas has become s *)
AfterKey(c, s, switch) ==
  LET shown == Show(c, s, switch)
  IN /\ canvas' = [canvas EXCEPT ![c] = [shown EXCEPT !.phaseEntries = s.view # "DATA"]]
     /\ app' = IF shown.crashed THEN "crashed" ELSE app
     /\ lastKey' = switch
     /\ UNCHANGED <<user, setup, open, lastView>>

KeyDifference(c) ==
  /\ Key(c, "d")
  /\ LET s == canvas[c]
         on == ~s.difference
     IN AfterKey(c, [Check(s, "DIFFERENCE", on) EXCEPT !.difference = on, !.prev = s.view],
                 SwitchOf(s.view, on))

KeyUnzoom(c) ==
  /\ Key(c, "u")
  /\ LET s == [canvas[c] EXCEPT !.prev = canvas[c].view]
         shown ==
           CASE s.view = "DATA" /\ ~s.difference ->
                  PlotData(CleanupFourier(CleanupDifference(c, s)), TRUE)
             [] s.view = "DATA" /\ s.difference ->
                  PlotDifference(HandleDifference(CleanupFourierDifference(s)), TRUE)
             [] s.view # "DATA" /\ ~s.difference -> PlotFourier(c, HandleFourier(c, s))
             [] OTHER -> PlotFourierDifference(c, HandleDifferenceFourier(c, s))
     IN AfterKey(c, shown, "kNotRelevant")

(* mutant: the switch is looked for when the view has changed               *)
KeyFourierLate(c) ==
  /\ Key(c, "f")
  /\ LET s == canvas[c]
         to == IF s.view = "DATA" THEN setup[c].tag ELSE "DATA"
         switch == IF to = "DATA"
                     THEN IF s.difference THEN "kDiffFourier" ELSE "kFourier"
                     ELSE IF s.difference THEN "kDiffData" ELSE "kData"
     IN AfterKey(c, [s EXCEPT !.prev = s.view, !.view = to,
                              !.menu = (@ \ Views) \cup {to}], switch)

(* to the Fourier view of the msr-file, or back to the data *)
KeyFourier(c) ==
  /\ Key(c, "f")
  /\ LET s == canvas[c]
         to == IF s.view = "DATA" THEN setup[c].tag ELSE "DATA"
         switch == IF s.view = "DATA"
                     THEN IF s.difference THEN "kDiffFourier" ELSE "kFourier"
                     ELSE IF s.difference THEN "kDiffData" ELSE "kData"
     IN AfterKey(c, [s EXCEPT !.prev = s.view, !.view = to,
                              !.menu = (@ \ Views) \cup {to}], switch)

(* IncrementFourierPhase and DecrementFourierPhase turn all there is *)
TurnPhase(s, step) ==
  IF s.view = "PWR" THEN s
  ELSE LET Turn(x) == IF x = None THEN None ELSE [x EXCEPT !.turn = @ + step]
       IN PlotFourierPhaseValue(
            [s EXCEPT !.phase = IF @ = None THEN None ELSE @ + step,
                      !.set.fourier = Turn(@), !.set.diffFourier = Turn(@)])

(* all the counters of phase steps stay within the bound *)
Bounded(s) ==
  /\ s.phase # None => s.phase \in -MaxTurn..MaxTurn
  /\ s.set.fourier # None => s.set.fourier.turn \in -MaxTurn..MaxTurn
  /\ s.set.diffFourier # None => s.set.diffFourier.turn \in -MaxTurn..MaxTurn

KeyPhase(c) ==
  \E key \in {"+", "-"} :
    /\ Key(c, key)
    /\ LET s == canvas[c]
           t == IF s.view = "DATA" THEN s ELSE TurnPhase(s, IF key = "+" THEN 1 ELSE -1)
       IN Bounded(t) /\ AfterKey(c, t, "kNotRelevant")

KeyAverage(c) ==
  /\ Key(c, "a") /\ setup[c].sets > 1
  /\ LET s == canvas[c]
         on == ~s.averaged
         t == [Check(s, "AVERAGE", on) EXCEPT !.averaged = on]
     IN IF on THEN AfterKey(c, PlotAverage(HandleAverage(t)), "kNotRelevant")
              ELSE AfterKey(c, CleanupAverage(t), SwitchOf(s.view, s.difference))

(* the crosshair, the colour of the theory, any other key *)
KeyOther(c) == Key(c, "other") /\ AfterKey(c, canvas[c], "kNotRelevant")

KeyQuit(c) ==
  /\ Key(c, "q")
  /\ app' = "done" /\ lastKey' = "kNotRelevant"
  /\ UNCHANGED <<user, setup, canvas, open, lastView>>

-----------------------------------------------------------------------------
(* The menu: HandleMenuPopup.  Each canvas connects it to every menu of the *)
(* program, so all the handlers are called, in the order of the plots, and *)
(* those the entry does not belong to still set previousPlotView.          *)

Menu(c, entry) ==
  /\ app = "running"
  /\ entry \in user.entries

(* previousPlotView after the handlers of S, which leave their canvases alone *)
ViewAfter(S, before) == IF S = {} THEN before ELSE canvas[Max(S)].view

(* ... and when the handler of c is called *)
PreviousView(c) == ViewAfter({d \in user.canvases : d < c}, lastView)

Refreshed(f) ==
  [d \in user.canvases |-> [f[d] EXCEPT !.phaseEntries = f[d].view # "DATA"]]

AfterMenu(c, s) ==
  /\ canvas' = Refreshed([canvas EXCEPT ![c] = s])
  /\ app' = IF s.crashed THEN "crashed" ELSE app
  /\ lastView' = ViewAfter({d \in user.canvases : d > c}, s.view)
  /\ UNCHANGED <<user, setup, open, lastKey>>

MenuData(c) ==
  /\ Menu(c, "DATA")
  /\ LET s == [canvas[c] EXCEPT !.prev = canvas[c].view, !.view = "DATA",
                                !.menu = (@ \ FourierViews) \cup {"DATA"}]
     IN AfterMenu(c, IF s.difference
                       THEN PlotDifference(HandleDifference(s), FALSE)
                       ELSE PlotData(CleanupFourier(CleanupDifference(c, s)), FALSE))

(* "make sure that phase opt. real indeed exists" *)
MakePhaseOptReal(c, s) ==
  IF ~Musr(c) THEN Crash(s)
  ELSE IF s.set.optReal THEN s
  ELSE IF s.set.fourier = None THEN HandleFourier(c, s) ELSE CalcPhaseOptReFT(s)

MenuFourier(c) ==
  \E to \in FourierViews :
    /\ Menu(c, to)
    /\ LET s == [canvas[c] EXCEPT !.prev = canvas[c].view, !.view = to,
                                  !.menu = (@ \ Views) \cup {to}]
           t == IF to = "PHASE_OPT_REAL" THEN MakePhaseOptReal(c, s) ELSE s
       IN AfterMenu(c,
            IF t.crashed THEN t
            ELSE IF ~t.difference THEN PlotFourier(c, HandleFourier(c, t))
            ELSE IF PreviousView(c) = "DATA"
              THEN PlotFourierDifference(c, HandleDifferenceFourier(c, t))
              ELSE PlotFourierDifference(c, HandleFourierDifference(c, t)))

MenuPhase(c) ==
  \E step \in {-1, 1} :
    /\ Menu(c, "PHASE") /\ canvas[c].phaseEntries
    /\ LET t == TurnPhase(canvas[c], step)
       IN Bounded(t) /\ AfterMenu(c, t)

(* nothing is done in the view of the phase optimised real part *)
MenuDifference(c) ==
  /\ Menu(c, "DIFFERENCE")
  /\ LET on == ~canvas[c].difference
         s == [Check(canvas[c], "DIFFERENCE", on) EXCEPT !.difference = on]
         clean == CleanupFourierDifference(s)
     IN AfterMenu(c,
          IF s.view = "PHASE_OPT_REAL" THEN s
          ELSE IF s.view = "DATA" \/ ~on THEN Show(c, s, SwitchOf(s.view, on))
          ELSE IF "DATA" \in s.menu
            THEN PlotFourierDifference(c, HandleDifferenceFourier(c, clean))
            ELSE PlotFourierDifference(c, HandleFourierDifference(c, clean)))

(* the average is taken away without drawing anything else *)
MenuAverage(c) ==
  /\ Menu(c, "AVERAGE") /\ setup[c].sets > 1
  /\ LET s == canvas[c]
         on == ~s.averaged
         t == [Check(s, "AVERAGE", on) EXCEPT !.averaged = on]
     IN AfterMenu(c, IF on THEN PlotAverage(HandleAverage(t)) ELSE CleanupAverage(t))

(* ExportData reads what the flags name.  Of a non-muSR plot it asks the    *)
(* axis of fMultiGraphData, which PlotDifference has deleted.               *)
CanExport(c, s) ==
  IF Musr(c)
    THEN (s.difference /\ s.view = "PHASE_OPT_REAL")
         \/ /\ HasView(s.set, s.view, s.difference) \/ (s.view = "DATA" /\ s.averaged)
            /\ s.averaged => HasView(s.avg, s.view, s.difference)
    ELSE s.view = "DATA" => s.drawn.kind = "data"

MenuExport(c) ==
  /\ Menu(c, "EXPORT")
  /\ AfterMenu(c, IF CanExport(c, canvas[c]) THEN canvas[c] ELSE Crash(canvas[c]))

-----------------------------------------------------------------------------
(* Averaging a single data set is refused, in the middle of the handler.    *)
MenuNoAverage(c) ==
  /\ Menu(c, "AVERAGE") /\ setup[c].sets <= 1
  /\ canvas' = [Refreshed(canvas) EXCEPT ![c] = canvas[c]]
  /\ lastView' = ViewAfter(user.canvases \ {c}, lastView)
  /\ UNCHANGED <<user, setup, open, lastKey, app>>

(* the menus which ROOT has in its windows *)
MenuOther(c) ==
  /\ Menu(c, "other")
  /\ canvas' = Refreshed(canvas)
  /\ lastView' = ViewAfter(user.canvases, lastView)
  /\ UNCHANGED <<user, setup, open, lastKey, app>>

-----------------------------------------------------------------------------
(* The mouse, and the end.                                                  *)

Zoom(c) ==
  /\ app = "running" /\ canvas[c].frame # "freq"
  /\ \E w \in Windows : canvas' = [canvas EXCEPT ![c].frame = w]
  /\ UNCHANGED <<user, setup, open, lastKey, lastView, app>>

WindowClosed(c) ==
  /\ app = "running"
  /\ open' = open \ {c}
  /\ app' = IF open' = {} THEN "done" ELSE app
  /\ UNCHANGED <<user, setup, canvas, lastKey, lastView>>

Terminated == app # "running" /\ UNCHANGED vars

Next ==
  \/ \E c \in open :
       \/ KeyDifference(c) \/ KeyUnzoom(c) \/ KeyFourier(c) \/ KeyPhase(c)
       \/ KeyAverage(c) \/ KeyOther(c) \/ KeyQuit(c)
       \/ MenuData(c) \/ MenuFourier(c) \/ MenuPhase(c) \/ MenuDifference(c)
       \/ MenuAverage(c) \/ MenuNoAverage(c) \/ MenuExport(c) \/ MenuOther(c)
       \/ Zoom(c) \/ WindowClosed(c)
  \/ Terminated

Spec == Init /\ [][Next]_vars

-----------------------------------------------------------------------------
FourierKinds == {"fourier", "d-f", "f-d"}

Kept == [of : Frames, turn : -MaxTurn..MaxTurn]
KeptDifference == [order : {"d-f", "f-d"}, of : Frames, turn : -MaxTurn..MaxTurn]
Spectra == [diff : BOOLEAN, fourier : Kept \cup {None}, optReal : BOOLEAN,
            diffFourier : KeptDifference \cup {None}, diffOptReal : BOOLEAN]

ASSUME NoSpectrum ==
  None \notin Int \cup Spectra \cup [of : Frames, turn : Int]
                \cup [order : {"d-f", "f-d"}, of : Frames, turn : Int]

CanvasOK(s) ==
  /\ s.view \in Views /\ s.prev \in Views /\ s.frame \in Frames
  /\ s.phase \in (-MaxTurn..MaxTurn) \cup {None}
  /\ s.set \in Spectra /\ (s.averaged /\ ~s.crashed => s.avg \in Spectra)

(* The types, and: the average that the flag announces is there.           *)
TypeOK ==
  /\ \A c \in user.canvases : CanvasOK(canvas[c])
  /\ open \subseteq user.canvases
  /\ lastKey \in Switches /\ lastView \in Views
  /\ app \in {"running", "done", "crashed"}

(* A data plot has a time axis, not that of the Fourier plot before it:    *)
(* PlotData and PlotDifference keep the window of fHistoFrame only if the  *)
(* plot before was one of data (fPreviousPlotView).                        *)
DataInTime ==
  \A c \in user.canvases :
    canvas[c].drawn # None /\ canvas[c].drawn.kind \in {"data", "diff"} =>
      canvas[c].frame # "freq" /\ canvas[c].drawn.of # "freq"

(* A user who works with the keys d and f in one window, without -f: it is *)
(* for them that HandleCmdKey ignores d-f-d and f-d-f.                     *)
PlainUser ==
  /\ user.keys \subseteq {"d", "f"} /\ user.entries = {}
  /\ \A c, d \in user.canvases : c = d
  /\ \A c \in user.canvases : ~setup[c].startFourier /\ ~setup[c].startAvg

(* For such a user a transform of the data, or of the difference, is one   *)
(* of the time window seen last, however often one goes back and zooms.    *)
TransformOfWindow ==
  [][PlainUser => \A c \in user.canvases :
       LET s == canvas[c]
           t == canvas'[c]
       IN t.drawn.kind \in {"fourier", "d-f"} /\ s.drawn.kind # "f-d" =>
            t.drawn.of = IF s.frame = "freq" THEN s.drawn.of ELSE s.frame]_vars

(* As long as only keys are used, what is drawn is what the flags say: of  *)
(* a muSR plot which does not show an average.                             *)
DrawnAsAsked ==
  user.entries = {} /\ app = "running" =>
    \A c \in user.canvases :
      LET s == canvas[c]
      IN Musr(c) /\ ~s.averaged =>
           s.drawn.kind \in IF s.view = "DATA" THEN {IF s.difference THEN "diff" ELSE "data"}
                            ELSE IF s.difference THEN {"d-f", "f-d"} ELSE {"fourier"}

(* The keys alone never lead to a spectrum which is not there, if there is *)
(* a phase for the views that write it, and the view of the msr-file is    *)
(* not the phase optimised one, of which no d-f is ever made.              *)
KeysNeverCrash ==
  user.entries = {} /\ (\A c \in user.canvases :
      Musr(c) /\ setup[c].phase /\ setup[c].tag # "PHASE_OPT_REAL") =>
    app # "crashed"
=============================================================================
