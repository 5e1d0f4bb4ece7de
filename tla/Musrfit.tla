------------------------------ MODULE Musrfit ------------------------------
(***************************************************************************)
(* The main program (src/src/musrfit.cpp) and its files.  Several musrfit  *)
(* processes may run at once.  A process reads its msr-file, fits (see     *)
(* FitSession for what decides whether there is something to write),       *)
(* writes the mlog-file, keeps MINUIT2.OUTPUT if wanted, and swaps msr-    *)
(* and mlog-file by way of __temp.msr.  A watchdog thread kills a process  *)
(* after its timeout, whatever it is doing.  After the end of a process    *)
(* musrfit may be started again.                                           *)
(*                                                                         *)
(* The text of a file is replaced by who has written it in which session.  *)
(* TSystem::CopyFile is external: it opens and reads the source, truncates *)
(* the target and then writes it; nothing happens if either cannot be      *)
(* opened.                                                                 *)
(***************************************************************************)
EXTENDS Naturals

CONSTANTS
  Procs,        \* the musrfit processes
  Files,        \* the names <name> of <name>.msr
  Dirs,         \* the working directories
  MsrOf,        \* the file each process fits
  Dir,          \* the working directory of each process
  Keep,         \* the processes with -k
  Timeout,      \* the processes whose timeout is enabled
  Unwritable,   \* the files which cannot be opened for writing
  None,         \* there is no such file
  Partial,      \* the file is empty or incomplete
  MaxSessions   \* bound: how often a process is started

Path == ({"msr", "mlog", "kept"} \X Files) \cup ({"temp", "mn2"} \X Dirs)

Msr(p) == <<"msr", MsrOf[p]>>
Mlog(p) == <<"mlog", MsrOf[p]>>
Kept(p) == <<"kept", MsrOf[p]>>     \* <name>-mn2.output
TempInOneDir(p) == <<"temp", CHOOSE d \in Dirs : TRUE>>   \* mutant
Temp(p) == <<"temp", Dir[p]>>       \* __temp.msr
Mn2(p) == <<"mn2", Dir[p]>>         \* MINUIT2.OUTPUT

(* Text no of a file is its own first, that of a process is the result of  *)
(* its session no.                                                         *)
Text == [of : Files \cup Dirs \cup Procs, no : Nat]

ASSUME MusrfitAssumption ==
  /\ MsrOf \in [Procs -> Files]
  /\ Dir \in [Procs -> Dirs]
  /\ Keep \subseteq Procs /\ Timeout \subseteq Procs
  /\ Unwritable \subseteq Path
  /\ Procs \cap (Files \cup Dirs) = {}
  /\ None \notin Text /\ Partial \notin Text /\ None # Partial
  /\ MaxSessions \in Nat

VARIABLES
  fs,      \* the content of the files
  pc,      \* where each process is
  n,       \* how often it has been started
  copy,    \* the copy it has to make next
  buf,     \* what CopyFile has read
  input,   \* the text of the msr-file the process has read
  err,     \* an **ERROR** has been reported in this session
  exit     \* the return code of main

vars == <<fs, pc, n, copy, buf, input, err, exit>>

Result(p) == [of |-> p, no |-> n[p]]

FirstCopy(p) == IF p \in Keep THEN "keep" ELSE "save"

Init ==
  /\ \E present \in SUBSET ({"msr", "mlog"} \X Files) :
       fs = [q \in Path |->
               IF q \in present \/ q[1] = "mn2"
               THEN [of |-> q[2], no |-> IF q[1] = "msr" THEN 1 ELSE 0]
               ELSE None]
  /\ pc = [p \in Procs |-> "start"]
  /\ n = [p \in Procs |-> 1]
  /\ copy = [p \in Procs |-> FirstCopy(p)]
  /\ buf = [p \in Procs |-> None]
  /\ input = [p \in Procs |-> None]
  /\ err = [p \in Procs |-> FALSE]
  /\ exit = [p \in Procs |-> "none"]

GoTo(p, l) == pc' = [pc EXCEPT ![p] = l]
Return(p, code) == GoTo(p, "done") /\ exit' = [exit EXCEPT ![p] = code]
Report(p) == err' = [err EXCEPT ![p] = TRUE]
Put(q, text) == fs' = [fs EXCEPT ![q] = text]

(* PMsrHandler::ReadMsrFile.                                               *)
ReadMsrFile(p) ==
  /\ pc[p] = "start"
  /\ \/ /\ fs[Msr(p)] = None
        /\ Return(p, "fileNotFound") /\ Report(p)
        /\ input' = [input EXCEPT ![p] = None]
     \/ /\ fs[Msr(p)] = Partial
        /\ Return(p, "syntaxError") /\ Report(p)
        /\ input' = [input EXCEPT ![p] = None]
     \/ /\ fs[Msr(p)] \notin {None, Partial}
        /\ input' = [input EXCEPT ![p] = fs[Msr(p)]]
        /\ GoTo(p, "data")
        /\ UNCHANGED <<err, exit>>
  /\ UNCHANGED <<fs, n, copy, buf>>

(* PRunDataHandler::ReadData, PRunListCollection::Add.  If the data cannot *)
(* be read or do not fit, main skips all the rest, and succeeds.           *)
ReadData(p) ==
  /\ pc[p] = "data"
  /\ \/ GoTo(p, "fit") /\ UNCHANGED <<err, exit>>
     \/ Return(p, "success") /\ Report(p)
  /\ UNCHANGED <<fs, n, copy, buf, input>>

(* PFitter: SAVE may write MINUIT2.OUTPUT; with -c or a block that only    *)
(* scans there is nothing to write.                                        *)
Fit(p) ==
  /\ pc[p] = "fit"
  /\ \/ UNCHANGED fs
     \/ Mn2(p) \notin Unwritable /\ Put(Mn2(p), Result(p))
  /\ \/ GoTo(p, "log") /\ UNCHANGED exit
     \/ Return(p, "success")
  /\ UNCHANGED <<n, copy, buf, input, err>>

(* PMsrHandler::WriteMsrLogFile reads the msr-file again, line by line,    *)
(* and writes it with the results.  If it fails, main only says so.        *)
OpenLog(p) ==
  /\ pc[p] = "log"
  /\ IF fs[Msr(p)] = None \/ Mlog(p) \in Unwritable
     THEN GoTo(p, "copy") /\ Report(p) /\ UNCHANGED fs
     ELSE GoTo(p, "logging") /\ Put(Mlog(p), Partial) /\ UNCHANGED err
  /\ UNCHANGED <<n, copy, buf, input, exit>>

Logged(p) == IF fs[Msr(p)] = Partial THEN Partial ELSE Result(p)

WriteLog(p) ==
  /\ pc[p] = "logging"
  /\ Put(Mlog(p), Logged(p))
  /\ GoTo(p, "copy")
  /\ UNCHANGED <<n, copy, buf, input, err, exit>>

(* The copies main makes: "keep" is that of -k, the others are the swap.   *)
After == [keep |-> "save", save |-> "result", result |-> "input", input |-> "delete"]

CopiesMlogFirst(p) ==   \* mutant
  [keep |-> <<Mn2(p), Kept(p)>>, save |-> <<Mlog(p), Temp(p)>>,
   result |-> <<Mlog(p), Msr(p)>>, input |-> <<Temp(p), Mlog(p)>>]
Copies(p) ==
  [keep |-> <<Mn2(p), Kept(p)>>, save |-> <<Msr(p), Temp(p)>>,
   result |-> <<Mlog(p), Msr(p)>>, input |-> <<Temp(p), Mlog(p)>>]

From(p) == Copies(p)[copy[p]][1]
To(p) == Copies(p)[copy[p]][2]
NextCopy(p) == copy' = [copy EXCEPT ![p] = After[@]]

(* The return code of CopyFile is ignored.                                 *)
OpenCopy(p) ==
  /\ pc[p] = "copy" /\ copy[p] # "delete"
  /\ IF fs[From(p)] = None \/ To(p) \in Unwritable
     THEN NextCopy(p) /\ UNCHANGED <<fs, pc, buf>>
     ELSE /\ buf' = [buf EXCEPT ![p] = fs[From(p)]]
          /\ Put(To(p), Partial)
          /\ GoTo(p, "copying")
          /\ UNCHANGED copy
  /\ UNCHANGED <<n, input, err, exit>>

WriteCopy(p) ==
  /\ pc[p] = "copying"
  /\ Put(To(p), buf[p])
  /\ NextCopy(p)
  /\ GoTo(p, "copy")
  /\ UNCHANGED <<n, buf, input, err, exit>>

DeleteTemp(p) ==
  /\ pc[p] = "copy" /\ copy[p] = "delete"
  /\ Put(Temp(p), None)
  /\ Return(p, "success")
  /\ UNCHANGED <<n, copy, buf, input, err>>

(* musrfit_timeout, a thread started just before the fit.                  *)
WatchedNotFit == {"log", "logging", "copy", "copying"}   \* mutant
Watched == {"fit", "log", "logging", "copy", "copying"}

Kill(p) ==
  /\ p \in Timeout /\ pc[p] \in Watched
  /\ GoTo(p, "killed")
  /\ UNCHANGED <<fs, n, copy, buf, input, err, exit>>

Ended(p) == pc[p] \in {"done", "killed"}

(* The user starts musrfit again.                                          *)
Restart(p) ==
  /\ Ended(p) /\ n[p] < MaxSessions
  /\ GoTo(p, "start")
  /\ n' = [n EXCEPT ![p] = @ + 1]
  /\ copy' = [copy EXCEPT ![p] = FirstCopy(p)]
  /\ err' = [err EXCEPT ![p] = FALSE]
  /\ exit' = [exit EXCEPT ![p] = "none"]
  /\ UNCHANGED <<fs, buf, input>>

AfterFit(p) ==
  OpenLog(p) \/ WriteLog(p) \/ OpenCopy(p) \/ WriteCopy(p) \/ DeleteTemp(p)

Step(p) == \/ ReadMsrFile(p) \/ ReadData(p) \/ Fit(p) \/ AfterFit(p)
           \/ Kill(p) \/ Restart(p)

Terminated == (\A p \in Procs : Ended(p) /\ n[p] >= MaxSessions) /\ UNCHANGED vars

Next == (\E p \in Procs : Step(p)) \/ Terminated

Spec == Init /\ [][Next]_vars

(* Reading, writing and the sleep of the watchdog end; a fit may not.      *)
FairSpec ==
  /\ Spec
  /\ \A p \in Procs : /\ WF_vars(ReadMsrFile(p)) /\ WF_vars(ReadData(p))
                      /\ WF_vars(AfterFit(p)) /\ WF_vars(Kill(p))

-----------------------------------------------------------------------------
(* Properties. *)

(* The type invariant.                                                     *)
TypeOK ==
  /\ fs \in [Path -> Text \cup {None, Partial}]
  /\ pc \in [Procs -> {"start", "data", "fit", "log", "logging", "copy",
                       "copying", "done", "killed"}]
  /\ n \in [Procs -> Nat \ {0}]
  /\ copy \in [Procs -> {"keep", "save", "result", "input", "delete"}]
  /\ buf \in [Procs -> Text \cup {None, Partial}]
  /\ input \in [Procs -> Text \cup {None}]
  /\ err \in [Procs -> BOOLEAN]
  /\ exit \in [Procs -> {"none", "success", "fileNotFound", "syntaxError"}]

(* No two processes share a working directory or a file.                   *)
Apart == \A p, q \in Procs : p # q => Dir[p] # Dir[q] /\ MsrOf[p] # MsrOf[q]

(* Whenever the watchdog strikes, be it in the middle of the swap, what    *)
(* the msr-file held before the fit is still there, complete.              *)
InputSurvives ==
  \A p \in Procs : pc[p] # "start" /\ input[p] # None =>
    input[p] \in {fs[Msr(p)], fs[Mlog(p)], fs[Temp(p)]}

(* However often musrfit is killed and started again, msr- and mlog-file   *)
(* are never both incomplete.                                              *)
OneFileComplete ==
  \A p \in Procs : ~(fs[Msr(p)] = Partial /\ fs[Mlog(p)] = Partial)

(* "in the <msr-file> you will find the fit results and in the <mlog-file> *)
(* your initial guess values" (help text).                                 *)
Swapped(p) == fs[Msr(p)] = Result(p) /\ fs[Mlog(p)] = input[p]
SwappedAtEnd ==
  \A p \in Procs : pc[p] = "done" /\ copy[p] = "delete" => Swapped(p)

(* musrfit comes to an end even if its fit does not: the watchdog sees to  *)
(* that.                                                                   *)
WatchdogEndsFit == \A p \in Timeout : pc[p] = "start" ~> Ended(p)

(* Without a watchdog, in a directory of its own and with files it may     *)
(* write, the copies of a process amount to the swap which FitFiles        *)
(* describes, done when the mlog-file is opened; whatever happens to the   *)
(* other processes.                                                        *)
Unwatched == {f \in Files : \A p \in Timeout : MsrOf[p] # f}
Swapping(p) == pc[p] \in {"logging", "copy", "copying"}
Swapper(f) == {p \in Procs : MsrOf[p] = f /\ Swapping(p)}
MsrSeen == [f \in Unwatched |->
  IF Swapper(f) # {} THEN Result(CHOOSE p \in Swapper(f) : TRUE) ELSE fs[<<"msr", f>>]]
MlogSeen == [f \in Unwatched |->
  IF Swapper(f) # {} THEN input[CHOOSE p \in Swapper(f) : TRUE] ELSE fs[<<"mlog", f>>]]

Promise == INSTANCE FitFiles WITH
  Files <- Unwatched, msr <- MsrSeen, mlog <- MlogSeen
KeepsPromise == Promise!Spec
=============================================================================
