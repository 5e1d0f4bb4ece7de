------------------------------ MODULE MusrEdit ------------------------------
(* musredit (Qt 6): its tabs, the files they show, and the file system     *)
(* watcher that tells of changes made by others.  The watcher is switched  *)
(* off when musredit writes a file itself or lets musrfit do it, and on    *)
(* again by a timer.  Every message box and every dialog runs the event    *)
(* loop: timers, notifications and the end of other programs come between. *)
(*                                                                         *)
(* A file is a directory and the text of its tab; the directory is "" if   *)
(* the name of the file comes from the command line without one.  What a   *)
(* file or a tab holds is a number: every change makes a new one.          *)
EXTENDS Integers, Sequences, FiniteSets, SequencesExt

CONSTANTS Files,      \* pairs of a directory and a label, "msr" or "mlog"
          Opened,     \* the files opened at the beginning, in this order
          Chosen,     \* the names chosen in the dialogs of "Open" and "Save as"
          None,
          MaxText,    \* bound: changes
          MaxTimers,  \* bound: timers running at a time
          MaxMoves    \* bound: what the user does, the answers not counted

VARIABLES disk,     \* what the files hold
          tabs,     \* fTabWidget, fFilenames: the tabs in their order
          cur,      \* currentIndex, 0 if there is none
          watched,  \* the paths of fFileSystemWatcher
          pending,  \* the changes it has not told of yet
          active,   \* fFileSystemWatcherActive
          timers,   \* single shots that have not fired
          asked,    \* the boxes of fileChanged, the innermost one last
          fit,      \* the dialog of musrfit: None, or its file and whether it has written
          steps,    \* musrStep, the same
          running,
          silent,   \* files musredit does not tell of: see StaleIsReported
          stuck,    \* a handler has left early with the watcher off
          last,     \* the number of the last change
          moves     \* what the user has done

watch == <<watched, pending, active, timers, asked>>
vars == <<disk, tabs, cur, watch, fit, steps, running, silent, stuck, last, moves>>

NoDir == ""
Label(file) == file[2]
Complement(file) == <<file[1], IF file[2] = "msr" THEN "mlog" ELSE "msr">>

ASSUME MusrEditAssumption ==
  /\ Opened \in Seq(Files) /\ Chosen \subseteq Files
  /\ \A f \in Files : f[1] = NoDir => Complement(f) \in Files
  /\ MaxText \in Nat /\ MaxTimers \in Nat

(* A tab: what it shows, what it has shown before (the undo stack), and    *)
(* what its file has held when it was loaded or saved.  The document is    *)
(* modified if there is something to undo: saving does not change that.    *)
Tab(file, text) == [file |-> file, text |-> text, undo |-> <<>>, seen |-> text, star |-> FALSE]

TypeOK ==
  /\ disk \in [Files -> 0..MaxText]
  /\ \A k \in DOMAIN tabs : tabs[k].file \in Files /\ tabs[k].star \in BOOLEAN
  /\ cur \in 0..Len(tabs) /\ (tabs # <<>> => cur # 0)
  /\ watched \subseteq Files /\ pending \subseteq Files
  /\ active \in BOOLEAN /\ timers \in 0..MaxTimers
  /\ \A k \in DOMAIN asked : asked[k] \in Files
  /\ \A p \in {fit, steps} \ {None} : p.file \in Files /\ p.done \in BOOLEAN

Init ==
  /\ disk = [f \in Files |-> 0]
  /\ tabs = [k \in DOMAIN Opened |-> Tab(Opened[k], 0)]
  /\ cur = Len(Opened)
  /\ watched = ToSet(Opened) /\ pending = {}
  /\ active = TRUE /\ timers = 0 /\ asked = <<>>
  /\ fit = None /\ steps = None /\ running = TRUE
  /\ silent = {} /\ stuck = FALSE /\ last = 0 /\ moves = 0

Free == running /\ asked = <<>> /\ fit = None     \* no dialog is open
HasEditor == cur # 0
Current == tabs[cur]

-----------------------------------------------------------------------------
(* Tabs, and what the watcher knows of their files. *)

view == [tabs |-> tabs, watched |-> watched, pending |-> pending, silent |-> silent]
Becomes(v) ==
  /\ tabs' = v.tabs /\ watched' = v.watched
  /\ pending' = v.pending /\ silent' = v.silent

Shown(ts, file) == \E k \in DOMAIN ts : ts[k].file = file

(* The user does not hear of it: of this change, or of the next one.       *)
Ignored(file) ==
  IF \E k \in DOMAIN tabs : tabs[k].file = file /\ (tabs[k].seen # disk[file] \/ file \notin watched)
  THEN silent \cup {file} ELSE silent

(* removePath: what has not been told yet is forgotten, also for another   *)
(* tab with this file.                                                     *)
RemovePath(v, file) ==
  [v EXCEPT !.watched = @ \ {file}, !.pending = @ \ {file},
            !.silent = IF Shown(v.tabs, file) THEN @ \cup {file} ELSE @ \ {file}]
CloseTab(v, k) == RemovePath([v EXCEPT !.tabs = RemoveAt(@, k)], v.tabs[k].file)

(* load: a new tab at the index; its file is watched.                      *)
LoadUnwatched(v, file, k) ==   \* mutant
  [v EXCEPT !.tabs = InsertAt(@, k, Tab(file, disk[file])),
            !.silent = IF Shown(v.tabs, file) THEN @ ELSE @ \ {file}]
Load(v, file, k) ==
  [v EXCEPT !.tabs = InsertAt(@, k, Tab(file, disk[file])),
            !.watched = @ \cup {file},
            !.silent = IF Shown(v.tabs, file) THEN @ ELSE @ \ {file}]

(* fileClose asks if there is a star; the tab is loaded again even if it   *)
(* has not been closed.                                                    *)
ClosesAlways(tab, close) == TRUE   \* mutant
Closes(tab, close) == ~tab.star \/ close
CloseLoad(v, k, close) ==
  Load(IF Closes(v.tabs[k], close) THEN CloseTab(v, k) ELSE v, v.tabs[k].file, k)

-----------------------------------------------------------------------------
(* Saving, and the timer. *)

StartTimer == timers < MaxTimers /\ timers' = timers + 1

(* fileSave, of a tab as a certain file: if the file cannot be opened it   *)
(* leaves with the watcher off.                                            *)
Saved(file) ==
  /\ disk' = [disk EXCEPT ![file] = Current.text]
  /\ tabs' = [tabs EXCEPT ![cur] = [@ EXCEPT !.file = file, !.seen = Current.text, !.star = FALSE]]
  /\ pending' = pending \cup ({file} \cap watched)
  /\ StartTimer /\ UNCHANGED stuck
NotSaved ==
  /\ stuck' = TRUE
  /\ UNCHANGED <<disk, tabs, pending, timers>>

Save ==
  /\ Free /\ HasEditor
  /\ active' = FALSE
  /\ Saved(Current.file) \/ NotSaved
  /\ UNCHANGED <<cur, watched, asked, fit, steps, running, silent, last>>

(* fileSaveAs: the new file is not watched; the timer is always started.   *)
SaveAs ==
  /\ Free /\ HasEditor
  /\ active' = FALSE
  /\ \E f \in Chosen \ {Current.file} :
       \/ Saved(f) /\ silent' = silent \cup {f}
       \/ /\ tabs' = [tabs EXCEPT ![cur].file = f]
          /\ silent' = silent \cup {f}
          /\ StartTimer /\ UNCHANGED <<disk, pending, stuck>>
  /\ UNCHANGED <<cur, watched, asked, fit, steps, running, last>>

(* A starred tab is saved before another program gets the file.            *)
SaveFirst ==
  IF Current.star THEN active' = FALSE /\ (Saved(Current.file) \/ NotSaved)
  ELSE UNCHANGED <<disk, tabs, pending, active, timers, stuck>>

Timer ==
  /\ running /\ timers > 0
  /\ timers' = timers - 1
  /\ active' = TRUE /\ stuck' = FALSE
  /\ UNCHANGED <<disk, tabs, cur, watched, pending, asked, fit, steps, running, silent, last>>

-----------------------------------------------------------------------------
(* The user at the tabs. *)

(* textChanged sets the star, or takes it away.                            *)
Edit ==
  /\ Free /\ HasEditor /\ last < MaxText
  /\ last' = last + 1
  /\ tabs' = [tabs EXCEPT ![cur].text = last', ![cur].undo = Append(@, Current.text),
                          ![cur].star = TRUE]
  /\ UNCHANGED <<disk, cur, watch, fit, steps, running, silent, stuck>>

Undo ==
  /\ Free /\ HasEditor /\ Current.undo # <<>>
  /\ tabs' = [tabs EXCEPT ![cur].text = Last(Current.undo), ![cur].undo = Front(@),
                          ![cur].star = Len(Current.undo) > 1]
  /\ UNCHANGED <<disk, cur, watch, fit, steps, running, silent, stuck, last>>

Switch ==
  /\ Free /\ \E k \in DOMAIN tabs \ {cur} : cur' = k
  /\ UNCHANGED <<disk, tabs, watch, fit, steps, running, silent, stuck, last>>

(* A file that is open is loaded again, with a star or without.            *)
Open ==
  /\ Free
  /\ \E f \in Chosen :
       IF Shown(tabs, f)
       THEN LET k == CHOOSE k \in DOMAIN tabs :
                       tabs[k].file = f /\ \A j \in 1..k - 1 : tabs[j].file # f
            IN Becomes(CloseLoad(view, k, TRUE)) /\ cur' = k
       ELSE Becomes(Load(view, f, Len(tabs) + 1)) /\ cur' = Len(tabs) + 1
  /\ UNCHANGED <<disk, active, timers, asked, fit, steps, running, stuck, last>>

Reload ==
  /\ Free /\ HasEditor
  /\ Becomes(CloseLoad(view, cur, TRUE))
  /\ UNCHANGED <<disk, cur, active, timers, asked, fit, steps, running, stuck, last>>

(* The tab on the right becomes the current one, else the one on the left. *)
Close ==
  /\ Free /\ HasEditor
  /\ Becomes(CloseTab(view, cur))
  /\ cur' = IF cur = Len(tabs) THEN cur - 1 ELSE cur
  /\ UNCHANGED <<disk, active, timers, asked, fit, steps, running, stuck, last>>

(* fileCloseAllOthers, by the text of the tab: a second tab with this text *)
(* is never closed, and the loop leaves the tabs.                          *)
CloseAllOthers ==
  /\ Free /\ HasEditor /\ Len(tabs) > 1
  /\ IF \E k \in DOMAIN tabs \ {cur} :
          Label(tabs[k].file) = Label(Current.file) /\ tabs[k].star = Current.star
     THEN running' = FALSE /\ UNCHANGED <<tabs, watched, pending, silent, cur>>
     ELSE /\ LET closed == {tabs[k].file : k \in DOMAIN tabs \ {cur}}
             IN Becomes([tabs |-> <<Current>>, watched |-> watched \ closed,
                         pending |-> pending \ closed,
                         silent |-> (silent \ closed) \cup (closed \cap {Current.file})])
          /\ cur' = 1 /\ UNCHANGED running
  /\ UNCHANGED <<disk, active, timers, asked, fit, steps, stuck, last>>

Exit ==
  /\ Free /\ running' = FALSE
  /\ UNCHANGED <<disk, tabs, cur, watch, fit, steps, silent, stuck, last>>

-----------------------------------------------------------------------------
(* Other programs.  One that replaces a file takes it from the watcher.    *)

External ==
  /\ running /\ last < MaxText
  /\ last' = last + 1
  /\ \E f \in {g \in Files : Shown(tabs, g)} :     \* of others load will read it
       /\ disk' = [disk EXCEPT ![f] = last']
       /\ pending' = pending \cup ({f} \cap watched)
       /\ watched' \in {watched, watched \ {f}}
  /\ UNCHANGED <<tabs, cur, active, timers, asked, fit, steps, running, silent, stuck>>

(* fileChanged.                                                            *)
Notice ==
  /\ running
  /\ \E f \in pending :
       /\ pending' = pending \ {f}
       /\ IF active
          THEN active' = FALSE /\ asked' = Append(asked, f) /\ UNCHANGED silent
          ELSE /\ silent' = Ignored(f)
               /\ UNCHANGED <<active, asked>>
  /\ UNCHANGED <<disk, tabs, cur, watched, timers, fit, steps, running, stuck, last>>

(* "Do you want to reload it?"  The tab is found by its text: not if there *)
(* is a star, and it may be that of a file in another directory.           *)
Matches(f) == {k \in DOMAIN tabs : Label(tabs[k].file) = Label(f) /\ ~tabs[k].star}

ActivationForgotten(found) == IF found THEN StartTimer ELSE UNCHANGED timers   \* mutant
Activation(found) == StartTimer

Answer ==
  /\ running /\ asked # <<>>
  /\ asked' = Front(asked)
  /\ LET f == Last(asked)
         quiet == [view EXCEPT !.silent = Ignored(f)]
     IN \/ Becomes(quiet) /\ StartTimer /\ UNCHANGED cur
        \/ /\ Activation(Matches(f) # {})
           /\ IF Matches(f) = {}
              THEN Becomes(quiet) /\ UNCHANGED cur
              ELSE LET k == CHOOSE k \in Matches(f) : \A j \in Matches(f) : k <= j
                       without == [view EXCEPT !.tabs = RemoveAt(@, k)]
                   IN Becomes(Load(RemovePath(without, f), f, k)) /\ cur' = k
  /\ UNCHANGED <<disk, active, fit, steps, running, stuck, last>>

(* musrfit on the current file: its dialog is open until the end.          *)
MusrFit ==
  /\ Free /\ HasEditor
  /\ IF Current.star THEN SaveFirst
     ELSE active' = FALSE /\ UNCHANGED <<disk, tabs, pending, timers, stuck>>
  /\ fit' = [file |-> Current.file, done |-> FALSE]
  /\ UNCHANGED <<cur, watched, asked, steps, running, silent, last>>

(* It writes both files (SwappedAtEnd of Musrfit).                         *)
FitWrites ==
  /\ running /\ fit # None /\ ~fit.done /\ last < MaxText
  /\ fit' = [fit EXCEPT !.done = TRUE]
  /\ last' = last + 1
  /\ LET both == {fit.file, Complement(fit.file)}
     IN /\ disk' = [f \in Files |-> IF f \in both THEN last' ELSE disk[f]]
        /\ pending' = pending \cup (both \cap watched)
  /\ UNCHANGED <<tabs, cur, watched, active, timers, asked, steps, running, silent, stuck>>

(* The end of the dialog: the current file is loaded again, and the other  *)
(* one if the text of a tab holds its name, which it does not if the name  *)
(* has a directory.                                                        *)
OtherTab(ts, f) ==
  {k \in DOMAIN ts : f[1] = NoDir /\ Label(ts[k].file) = Label(Complement(f))}
FitEnd(close) ==
  /\ running /\ fit # None /\ asked = <<>>
  /\ fit' = None
  /\ LET v == CloseLoad(view, cur, close)
         other == OtherTab(v.tabs, Current.file)
         k == CHOOSE k \in other : \A j \in other : k <= j
         w == Load(IF Closes(v.tabs[k], close) THEN CloseTab(v, k) ELSE v,
                   Complement(Current.file), k)
     IN Becomes(IF other = {} THEN v ELSE w)
  /\ StartTimer
  /\ UNCHANGED <<disk, cur, active, asked, steps, running, stuck, last>>

(* musrStep: the editor goes on.                                           *)
MusrSetSteps ==
  /\ Free /\ HasEditor /\ steps = None
  /\ SaveFirst
  /\ steps' = [file |-> Current.file, done |-> FALSE]
  /\ UNCHANGED <<cur, watched, asked, fit, running, silent, last>>

StepsWrites ==
  /\ running /\ steps # None /\ ~steps.done /\ last < MaxText
  /\ steps' = [steps EXCEPT !.done = TRUE]
  /\ last' = last + 1
  /\ disk' = [disk EXCEPT ![steps.file] = last']
  /\ pending' = pending \cup ({steps.file} \cap watched)
  /\ UNCHANGED <<tabs, cur, watched, active, timers, asked, fit, running, silent, stuck>>

(* exitStatusMusrSetSteps: the editor that is the current one by now.      *)
StepsEnd(close) ==
  /\ running /\ steps # None
  /\ steps' = None
  /\ IF ~steps.done THEN UNCHANGED <<tabs, watched, pending, silent, running>>
     ELSE IF ~HasEditor
     THEN running' = FALSE /\ UNCHANGED <<tabs, watched, pending, silent>>
     ELSE Becomes(CloseLoad(view, cur, close)) /\ UNCHANGED running
  /\ UNCHANGED <<disk, cur, active, timers, asked, fit, stuck, last>>

-----------------------------------------------------------------------------
User ==
  /\ moves < MaxMoves /\ moves' = moves + 1
  /\ \/ Edit \/ Undo \/ Switch \/ Open \/ Reload \/ Save \/ SaveAs \/ Close
     \/ CloseAllOthers \/ Exit \/ MusrFit \/ MusrSetSteps
Others ==
  /\ UNCHANGED moves
  /\ \/ Timer \/ Notice \/ Answer
     \/ \E close \in BOOLEAN : FitEnd(close) \/ StepsEnd(close)
     \/ External \/ FitWrites \/ StepsWrites
Terminated == (~running \/ moves = MaxMoves) /\ UNCHANGED vars
Next == User \/ Others \/ Terminated

(* The event loop runs on; users and programs need not do anything.        *)
Fires == Timer /\ UNCHANGED moves
Tells == Notice /\ UNCHANGED moves
Spec == Init /\ [][Next]_vars /\ WF_vars(Fires) /\ WF_vars(Tells)
-----------------------------------------------------------------------------
(* Properties. *)

(* No tab with a star is lost because of what other programs do or of what *)
(* the user has not been asked about: not by a timer, a notification, an   *)
(* answer about another file, or the end of musrfit or musrStep, in        *)
(* whichever order they come.                                              *)
Kept(k) ==
  \/ tabs[k].text = disk'[tabs[k].file]
  \/ \E j \in DOMAIN tabs' : tabs'[j].file = tabs[k].file /\ tabs'[j].text = tabs[k].text
Unasked ==
  \/ Timer \/ Notice \/ Answer \/ FitEnd(FALSE) \/ StepsEnd(FALSE)
  \/ MusrFit \/ MusrSetSteps \/ External \/ FitWrites \/ StepsWrites
EditsKept == [][Unasked => \A k \in DOMAIN tabs : tabs[k].star => Kept(k)]_vars

(* If a tab does not show what is in its file the user is going to be told *)
(* of it, is being asked, or the change is one musredit is silent about:   *)
(* it has come while the watcher was off, the user has said no, there was  *)
(* a star, or the file has got its name by "Save as", has been replaced    *)
(* before, or has been in two tabs.                                        *)
StaleIsReported ==
  \A k \in DOMAIN tabs :
    tabs[k].seen # disk[tabs[k].file] =>
      tabs[k].file \in pending \cup ToSet(asked) \cup silent

(* The watcher is switched on again, unless a question or the dialog of    *)
(* musrfit stays open or saving has failed.                                *)
WatcherComesBack ==
  ~active ~> active \/ asked # <<>> \/ fit # None \/ stuck \/ ~running
=============================================================================
