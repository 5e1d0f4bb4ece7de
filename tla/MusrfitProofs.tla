---------------------------- MODULE MusrfitProofs ----------------------------
(***************************************************************************)
(* Theorems about Musrfit: for every number of processes, files and        *)
(* sessions, wherever the watchdog strikes.  And about MsrFile, what a     *)
(* session leaves in the file: for every file and number of sessions.      *)
(***************************************************************************)
EXTENDS Musrfit, MsrFile, SequenceTheorems, FiniteSetTheorems, WellFoundedInduction, TLAPS

USE MusrfitAssumption

LEMMA PathsOf ==
  ASSUME NEW p \in Procs
  PROVE  /\ Msr(p) \in Path /\ Mlog(p) \in Path /\ Temp(p) \in Path
         /\ Kept(p) \in Path /\ Mn2(p) \in Path
         /\ copy[p] \in {"keep", "save", "result", "input"} =>
              From(p) \in Path /\ To(p) \in Path
<1>1. MsrOf[p] \in Files /\ Dir[p] \in Dirs
  OBVIOUS
<1>2. /\ Msr(p) \in Path /\ Mlog(p) \in Path /\ Temp(p) \in Path
      /\ Kept(p) \in Path /\ Mn2(p) \in Path
  BY <1>1 DEF Path, Msr, Mlog, Temp, Kept, Mn2
<1> QED
  BY <1>2 DEF From, To, Copies

LEMMA ResultIsText ==
  ASSUME TypeOK, NEW p \in Procs
  PROVE  Result(p) \in Text
BY DEF TypeOK, Result, Text

Texts == Text \cup {None, Partial}

LEMMA InitTypeOK == Init => TypeOK
<1> SUFFICES ASSUME Init PROVE TypeOK
  OBVIOUS
<1>1. fs \in [Path -> Texts]
  <2>1. PICK present \in SUBSET ({"msr", "mlog"} \X Files) :
          fs = [q \in Path |->
               IF q \in present \/ q[1] = "mn2"
               THEN [of |-> q[2], no |-> IF q[1] = "msr" THEN 1 ELSE 0]
               ELSE None]
    BY DEF Init
  <2>2. \A q \in Path : q[2] \in Files \cup Dirs
    BY DEF Path
  <2> QED
    BY <2>1, <2>2 DEF Texts, Text
<1>2. copy \in [Procs -> {"keep", "save", "result", "input", "delete"}]
  BY DEF Init, FirstCopy
<1> QED
  BY <1>1, <1>2 DEF Init, TypeOK, Texts

CopyingOK == \A p \in Procs : pc[p] = "copying" => copy[p] # "delete"

LEMMA NextCopyingOK ==
  ASSUME TypeOK, CopyingOK, [Next]_vars
  PROVE  CopyingOK'
<1> USE DEF CopyingOK, TypeOK, GoTo, Return
<1>1. CASE UNCHANGED vars
  BY <1>1 DEF vars
<1>2. ASSUME NEW p \in Procs, Step(p) PROVE CopyingOK'
  BY <1>2 DEF Step, ReadMsrFile, ReadData, Fit, AfterFit, OpenLog, WriteLog,
              OpenCopy, WriteCopy, DeleteTemp, Kill, Restart, NextCopy
<1> QED
  BY <1>1, <1>2 DEF Next, Terminated

LEMMA NextTypeOK == TypeOK /\ CopyingOK /\ [Next]_vars => TypeOK'
<1> SUFFICES ASSUME TypeOK, CopyingOK, [Next]_vars PROVE TypeOK'
  OBVIOUS
<1> USE DEF TypeOK, GoTo, Return, Report, Put
<1>1. CASE UNCHANGED vars
  BY <1>1 DEF vars
<1>2. ASSUME NEW p \in Procs, Step(p) PROVE TypeOK'
  <2>1. CASE ReadMsrFile(p)
    <3>1. input' \in [Procs -> Text \cup {None}]
      BY <2>1, PathsOf DEF ReadMsrFile
    <3>2. err' \in [Procs -> BOOLEAN]
      BY <2>1 DEF ReadMsrFile
    <3>3. /\ pc' \in [Procs -> {"start", "data", "fit", "log", "logging", "copy",
                                "copying", "done", "killed"}]
          /\ exit' \in [Procs -> {"none", "success", "fileNotFound", "syntaxError"}]
      BY <2>1 DEF ReadMsrFile
    <3> QED
      BY <2>1, <3>1, <3>2, <3>3 DEF ReadMsrFile
  <2>2. CASE ReadData(p)
    <3>1. err' \in [Procs -> BOOLEAN]
      BY <2>2 DEF ReadData
    <3> QED
      BY <2>2, <3>1 DEF ReadData
  <2>3. CASE Fit(p)
    BY <2>3, ResultIsText, PathsOf DEF Fit
  <2>4. CASE OpenLog(p)
    BY <2>4, PathsOf DEF OpenLog
  <2>5. CASE WriteLog(p)
    BY <2>5, ResultIsText, PathsOf DEF WriteLog, Logged
  <2>6. CASE OpenCopy(p)
    <3>1. copy[p] \in {"keep", "save", "result", "input"}
      BY <2>6 DEF OpenCopy
    <3>2. From(p) \in Path /\ To(p) \in Path
      BY <3>1, PathsOf
    <3>3. After[copy[p]] \in {"save", "result", "input", "delete"}
      BY <3>1 DEF After
    <3> QED
      BY <2>6, <3>2, <3>3 DEF OpenCopy, NextCopy
  <2>7. CASE WriteCopy(p)
    <3>1. copy[p] \in {"keep", "save", "result", "input"}
      BY <2>7 DEF WriteCopy, CopyingOK
    <3>2. To(p) \in Path
      BY <3>1, PathsOf
    <3>3. After[copy[p]] \in {"save", "result", "input", "delete"}
      BY <3>1 DEF After
    <3> QED
      BY <2>7, <3>2, <3>3 DEF WriteCopy, NextCopy
  <2>8. CASE DeleteTemp(p)
    BY <2>8, PathsOf DEF DeleteTemp
  <2>9. CASE Kill(p)
    BY <2>9 DEF Kill
  <2>10. CASE Restart(p)
    BY <2>10 DEF Restart, FirstCopy
  <2> QED
    BY <1>2, <2>1, <2>2, <2>3, <2>4, <2>5, <2>6, <2>7, <2>8, <2>9, <2>10
       DEF Step, AfterFit
<1> QED
  BY <1>1, <1>2 DEF Next, Terminated

(* The state of the processes and of the files keeps its type.             *)
THEOREM TypeCorrect == Spec => []TypeOK
<1>1. Init => TypeOK /\ CopyingOK
  BY InitTypeOK DEF Init, CopyingOK
<1> QED
  BY <1>1, NextTypeOK, NextCopyingOK, PTL DEF Spec

-----------------------------------------------------------------------------
(* What the files of a process hold, phase by phase.                       *)

Copying(p) ==
  /\ copy[p] \in {"keep", "save"} =>
       fs[Msr(p)] = input[p] /\ fs[Mlog(p)] = Result(p)
  /\ copy[p] = "save" /\ pc[p] = "copying" => buf[p] = input[p]
  /\ copy[p] = "result" =>
       /\ fs[Mlog(p)] = Result(p) /\ fs[Temp(p)] = input[p]
       /\ pc[p] = "copy" => fs[Msr(p)] = input[p]
       /\ pc[p] = "copying" => buf[p] = Result(p)
  /\ copy[p] = "input" =>
       /\ fs[Msr(p)] = Result(p) /\ fs[Temp(p)] = input[p]
       /\ pc[p] = "copying" => buf[p] = input[p]
  /\ copy[p] = "delete" => Swapped(p)

Phase(p) ==
  /\ pc[p] \in {"start", "data", "fit", "log", "logging"} => copy[p] = FirstCopy(p)
  /\ pc[p] \in {"data", "fit", "log", "logging", "copy", "copying"} => input[p] \in Text
  /\ pc[p] \in {"data", "fit", "log", "logging"} => fs[Msr(p)] = input[p]
  /\ pc[p] \in {"copy", "copying"} => Copying(p)
  /\ pc[p] = "done" /\ copy[p] = "delete" => Swapped(p)

Safe(p) ==
  /\ pc[p] # "start" /\ input[p] # None =>
       input[p] \in {fs[Msr(p)], fs[Mlog(p)], fs[Temp(p)]}
  /\ ~(fs[Msr(p)] = Partial /\ fs[Mlog(p)] = Partial)

(* The paths of a process differ from each other, and from those of any    *)
(* process which works apart.                                              *)
LEMMA PathsDiffer ==
  ASSUME NEW p \in Procs
  PROVE  /\ Msr(p) # Mlog(p) /\ Msr(p) # Temp(p) /\ Mlog(p) # Temp(p)
         /\ Kept(p) \notin {Msr(p), Mlog(p), Temp(p)}
         /\ Mn2(p) \notin {Msr(p), Mlog(p), Temp(p)}
BY DEF Msr, Mlog, Temp, Kept, Mn2

LEMMA PathsApart ==
  ASSUME Apart, NEW p \in Procs, NEW q \in Procs, p # q
  PROVE  {Msr(p), Mlog(p), Temp(p), Kept(p), Mn2(p)}
           \cap {Msr(q), Mlog(q), Temp(q)} = {}
BY DEF Apart, Msr, Mlog, Temp, Kept, Mn2

(* A step of one process changes nothing of another one.                   *)
LEMMA StepOfOne ==
  ASSUME TypeOK, CopyingOK, NEW p \in Procs, Step(p)
  PROVE  /\ \A q \in Path \ {Msr(p), Mlog(p), Temp(p), Kept(p), Mn2(p)} : fs'[q] = fs[q]
         /\ \A q \in Procs \ {p} : /\ pc'[q] = pc[q] /\ n'[q] = n[q]
                                   /\ copy'[q] = copy[q] /\ buf'[q] = buf[q]
                                   /\ input'[q] = input[q]
<1> USE DEF TypeOK, GoTo, Return, Put
<1>1. CASE ReadMsrFile(p) \/ ReadData(p) \/ Kill(p) \/ Restart(p)
  BY <1>1 DEF ReadMsrFile, ReadData, Kill, Restart
<1>2. CASE Fit(p) \/ OpenLog(p) \/ WriteLog(p) \/ DeleteTemp(p)
  BY <1>2 DEF Fit, OpenLog, WriteLog, DeleteTemp
<1>3. CASE OpenCopy(p) \/ WriteCopy(p)
  <2>1. copy[p] \in {"keep", "save", "result", "input"}
    BY <1>3 DEF OpenCopy, WriteCopy, CopyingOK
  <2>2. To(p) \in {Msr(p), Mlog(p), Temp(p), Kept(p)}
    BY <2>1 DEF To, Copies
  <2> QED
    BY <1>3, <2>2 DEF OpenCopy, WriteCopy, NextCopy
<1> QED
  BY <1>1, <1>2, <1>3 DEF Step, AfterFit

LEMMA OthersKeepPhase ==
  ASSUME Apart, TypeOK, CopyingOK, NEW p \in Procs, Step(p),
         NEW q \in Procs, p # q, Phase(q), Safe(q)
  PROVE  Phase(q)' /\ Safe(q)'
<1>1. fs'[Msr(q)] = fs[Msr(q)] /\ fs'[Mlog(q)] = fs[Mlog(q)] /\ fs'[Temp(q)] = fs[Temp(q)]
  BY StepOfOne, PathsApart, PathsOf
<1>2. /\ pc'[q] = pc[q] /\ n'[q] = n[q] /\ copy'[q] = copy[q]
      /\ buf'[q] = buf[q] /\ input'[q] = input[q]
  BY StepOfOne
<1>3. /\ Msr(q)' = Msr(q) /\ Mlog(q)' = Mlog(q) /\ Temp(q)' = Temp(q)
      /\ FirstCopy(q)' = FirstCopy(q)
  BY DEF Msr, Mlog, Temp, FirstCopy
<1>4. Result(q)' = Result(q)
  BY <1>2 DEF Result
<1> QED
  BY <1>1, <1>2, <1>3, <1>4 DEF Phase, Safe, Copying, Swapped

(* The files of the swap can be written; that of -k need not be.           *)
Writable == \A p \in Procs : Unwritable \cap {Msr(p), Mlog(p), Temp(p)} = {}

LEMMA CopyKeepsPhase ==
  ASSUME Writable, TypeOK, CopyingOK, NEW p \in Procs,
         Phase(p), Safe(p), OpenCopy(p) \/ WriteCopy(p)
  PROVE  Phase(p)' /\ Safe(p)'
<1> USE PathsOf, PathsDiffer DEF TypeOK, GoTo, Put
<1>1. /\ Msr(p)' = Msr(p) /\ Mlog(p)' = Mlog(p) /\ Temp(p)' = Temp(p)
      /\ FirstCopy(p)' = FirstCopy(p)
  BY DEF Msr, Mlog, Temp, FirstCopy
<1>2. Result(p)' = Result(p) /\ Result(p) \in Text
  BY ResultIsText DEF OpenCopy, WriteCopy, Result
<1>3. copy[p] \in {"keep", "save", "result", "input"}
  BY DEF OpenCopy, WriteCopy, CopyingOK
<1>4. /\ pc[p] \in {"copy", "copying"} /\ Copying(p)
      /\ input[p] \in Text /\ input'[p] = input[p]
  BY DEF OpenCopy, WriteCopy, Phase
<1>5. CASE OpenCopy(p) /\ (fs[From(p)] = None \/ To(p) \in Unwritable)
  <2>1. copy[p] = "keep"
    BY <1>2, <1>3, <1>4, <1>5 DEF From, To, Copies, Copying, OpenCopy, Writable
  <2>2. /\ copy'[p] = "save" /\ pc'[p] = "copy" /\ fs' = fs
    BY <1>5, <2>1 DEF OpenCopy, NextCopy, After
  <2> QED
    BY <1>1, <1>2, <1>4, <2>1, <2>2 DEF Phase, Safe, Copying
<1>6. CASE OpenCopy(p) /\ fs[From(p)] # None /\ To(p) \notin Unwritable
  <2>1. /\ pc[p] = "copy" /\ pc'[p] = "copying" /\ copy' = copy
        /\ buf'[p] = fs[From(p)]
        /\ fs' = [fs EXCEPT ![To(p)] = Partial]
    BY <1>6 DEF OpenCopy
  <2>2. CASE copy[p] = "keep"
    <3>1. To(p) = Kept(p)
      BY <2>2 DEF To, Copies
    <3> QED
      BY <1>1, <1>2, <1>4, <2>1, <2>2, <3>1 DEF Phase, Safe, Copying
  <2>3. CASE copy[p] = "save"
    <3>1. From(p) = Msr(p) /\ To(p) = Temp(p)
      BY <2>3 DEF From, To, Copies
    <3> QED
      BY <1>1, <1>2, <1>4, <2>1, <2>3, <3>1 DEF Phase, Safe, Copying
  <2>4. CASE copy[p] = "result"
    <3>1. From(p) = Mlog(p) /\ To(p) = Msr(p)
      BY <2>4 DEF From, To, Copies
    <3> QED
      BY <1>1, <1>2, <1>4, <2>1, <2>4, <3>1 DEF Phase, Safe, Copying
  <2>5. CASE copy[p] = "input"
    <3>1. From(p) = Temp(p) /\ To(p) = Mlog(p)
      BY <2>5 DEF From, To, Copies
    <3> QED
      BY <1>1, <1>2, <1>4, <2>1, <2>5, <3>1 DEF Phase, Safe, Copying
  <2> QED
    BY <1>3, <2>2, <2>3, <2>4, <2>5
<1>7. CASE WriteCopy(p)
  <2>1. /\ pc[p] = "copying" /\ pc'[p] = "copy"
        /\ copy'[p] = After[copy[p]]
        /\ fs' = [fs EXCEPT ![To(p)] = buf[p]]
    BY <1>7 DEF WriteCopy, NextCopy
  <2>2. CASE copy[p] = "keep"
    <3>1. To(p) = Kept(p) /\ copy'[p] = "save"
      BY <2>1, <2>2 DEF To, Copies, After
    <3> QED
      BY <1>1, <1>2, <1>4, <2>1, <2>2, <3>1 DEF Phase, Safe, Copying
  <2>3. CASE copy[p] = "save"
    <3>1. To(p) = Temp(p) /\ copy'[p] = "result"
      BY <2>1, <2>3 DEF To, Copies, After
    <3> QED
      BY <1>1, <1>2, <1>4, <2>1, <2>3, <3>1 DEF Phase, Safe, Copying
  <2>4. CASE copy[p] = "result"
    <3>1. To(p) = Msr(p) /\ copy'[p] = "input"
      BY <2>1, <2>4 DEF To, Copies, After
    <3> QED
      BY <1>1, <1>2, <1>4, <2>1, <2>4, <3>1 DEF Phase, Safe, Copying
  <2>5. CASE copy[p] = "input"
    <3>1. To(p) = Mlog(p) /\ copy'[p] = "delete"
      BY <2>1, <2>5 DEF To, Copies, After
    <3> QED
      BY <1>1, <1>2, <1>4, <2>1, <2>5, <3>1 DEF Phase, Safe, Copying, Swapped
  <2> QED
    BY <1>3, <2>2, <2>3, <2>4, <2>5
<1> QED
  BY <1>5, <1>6, <1>7

LEMMA OwnStepKeepsPhase ==
  ASSUME Writable, TypeOK, CopyingOK, NEW p \in Procs,
         Phase(p), Safe(p), Step(p)
  PROVE  Phase(p)' /\ Safe(p)'
<1> USE PathsOf, PathsDiffer DEF TypeOK, GoTo, Return, Put
<1>1. /\ Msr(p)' = Msr(p) /\ Mlog(p)' = Mlog(p) /\ Temp(p)' = Temp(p)
      /\ FirstCopy(p)' = FirstCopy(p) /\ FirstCopy(p) \in {"keep", "save"}
  BY DEF Msr, Mlog, Temp, FirstCopy
<1>2. Result(p) \in Text
  BY ResultIsText
<1>3. CASE ReadMsrFile(p)
  <2>1. /\ pc[p] = "start" /\ copy' = copy /\ fs' = fs
        /\ \/ pc'[p] = "done" /\ input'[p] = None
           \/ pc'[p] = "data" /\ input'[p] = fs[Msr(p)] /\ fs[Msr(p)] \in Text
    BY <1>3 DEF ReadMsrFile
  <2> QED
    BY <1>1, <2>1 DEF Phase, Safe
<1>4. CASE ReadData(p)
  <2>1. /\ pc[p] = "data" /\ pc'[p] \in {"fit", "done"}
        /\ copy' = copy /\ fs' = fs /\ input' = input
    BY <1>4 DEF ReadData
  <2> QED
    BY <1>1, <2>1 DEF Phase, Safe
<1>5. CASE Fit(p)
  <2>1. /\ pc[p] = "fit" /\ pc'[p] \in {"log", "done"}
        /\ copy' = copy /\ input' = input
        /\ fs'[Msr(p)] = fs[Msr(p)] /\ fs'[Mlog(p)] = fs[Mlog(p)]
        /\ fs'[Temp(p)] = fs[Temp(p)]
    BY <1>5 DEF Fit
  <2> QED
    BY <1>1, <2>1 DEF Phase, Safe
<1>6. CASE OpenLog(p)
  <2>1. /\ pc[p] = "log" /\ copy' = copy /\ input' = input
        /\ fs[Msr(p)] = input[p] /\ input[p] \in Text
    BY <1>6 DEF OpenLog, Phase
  <2>2. /\ pc'[p] = "logging" /\ fs' = [fs EXCEPT ![Mlog(p)] = Partial]
    BY <1>6, <2>1 DEF OpenLog, Writable
  <2> QED
    BY <1>1, <2>1, <2>2 DEF Phase, Safe
<1>7. CASE WriteLog(p)
  <2>1. /\ pc[p] = "logging" /\ copy' = copy /\ input' = input /\ n' = n
        /\ fs[Msr(p)] = input[p] /\ input[p] \in Text
    BY <1>7 DEF WriteLog, Phase
  <2>2. /\ pc'[p] = "copy" /\ fs' = [fs EXCEPT ![Mlog(p)] = Result(p)]
        /\ Result(p)' = Result(p)
    BY <1>7, <2>1 DEF WriteLog, Logged, Result
  <2>3. copy[p] = FirstCopy(p)
    BY <2>1 DEF Phase
  <2> QED
    BY <1>1, <1>2, <2>1, <2>2, <2>3 DEF Phase, Safe, Copying
<1>8. CASE OpenCopy(p) \/ WriteCopy(p)
  BY <1>8, CopyKeepsPhase
<1>9. CASE DeleteTemp(p)
  <2>1. /\ pc'[p] = "done" /\ copy' = copy /\ copy[p] = "delete"
        /\ input' = input /\ Swapped(p)
    BY <1>9 DEF DeleteTemp, Phase, Copying
  <2>2. /\ fs'[Msr(p)] = fs[Msr(p)] /\ fs'[Mlog(p)] = fs[Mlog(p)]
        /\ Result(p)' = Result(p)
    BY <1>9 DEF DeleteTemp, Result
  <2> QED
    BY <1>1, <1>2, <2>1, <2>2 DEF Phase, Safe, Swapped
<1>10. CASE Kill(p)
  <2>1. /\ pc[p] # "start" /\ pc'[p] = "killed" /\ copy' = copy /\ fs' = fs
        /\ input' = input
    BY <1>10 DEF Kill, Watched
  <2> QED
    BY <1>1, <2>1 DEF Phase, Safe
<1>11. CASE Restart(p)
  <2>1. pc'[p] = "start" /\ copy'[p] = FirstCopy(p) /\ fs' = fs
    BY <1>11 DEF Restart
  <2> QED
    BY <1>1, <2>1 DEF Phase, Safe
<1> QED
  BY <1>3, <1>4, <1>5, <1>6, <1>7, <1>8, <1>9, <1>10, <1>11 DEF Step, AfterFit

PhaseInv == \A p \in Procs : Phase(p) /\ Safe(p)

LEMMA InitPhase == Init => PhaseInv
<1> SUFFICES ASSUME Init, NEW p \in Procs PROVE Phase(p) /\ Safe(p)
  BY DEF PhaseInv
<1>1. fs[Msr(p)] # Partial
  <2>1. PICK present \in SUBSET ({"msr", "mlog"} \X Files) :
          fs = [q \in Path |->
               IF q \in present \/ q[1] = "mn2"
               THEN [of |-> q[2], no |-> IF q[1] = "msr" THEN 1 ELSE 0]
               ELSE None]
    BY DEF Init
  <2>2. Msr(p)[2] \in Files
    BY DEF Msr
  <2> QED
    BY <2>1, <2>2, PathsOf DEF Text
<1> QED
  BY <1>1 DEF Init, Phase, Safe, FirstCopy

LEMMA NextPhase ==
  ASSUME Apart, Writable, TypeOK, CopyingOK, PhaseInv, [Next]_vars
  PROVE  PhaseInv'
<1>1. CASE UNCHANGED vars
  <2>1. \A p \in Procs : /\ Msr(p)' = Msr(p) /\ Mlog(p)' = Mlog(p)
                        /\ Temp(p)' = Temp(p) /\ FirstCopy(p)' = FirstCopy(p)
                        /\ Result(p)' = Result(p)
    BY <1>1 DEF Msr, Mlog, Temp, FirstCopy, Result, vars
  <2> QED
    BY <1>1, <2>1 DEF PhaseInv, Phase, Safe, Copying, Swapped, vars
<1>2. ASSUME NEW p \in Procs, Step(p) PROVE PhaseInv'
  <2>1. Phase(p)' /\ Safe(p)'
    BY <1>2, OwnStepKeepsPhase DEF PhaseInv
  <2>2. ASSUME NEW q \in Procs, p # q PROVE Phase(q)' /\ Safe(q)'
    BY <1>2, <2>2, OthersKeepPhase DEF PhaseInv
  <2> QED
    BY <2>1, <2>2 DEF PhaseInv
<1> QED
  BY <1>1, <1>2 DEF Next, Terminated

(* Processes which work apart, on files they may write, never lose what    *)
(* the msr-file held before the fit, never leave both files incomplete,    *)
(* and have swapped them when they are through: wherever the watchdog      *)
(* strikes and however often musrfit is started.                           *)
THEOREM SafeApart ==
  ASSUME Apart, Writable
  PROVE  Spec => [](InputSurvives /\ OneFileComplete /\ SwappedAtEnd)
<1>1. Init => CopyingOK
  BY DEF Init, CopyingOK
<1>2. PhaseInv => InputSurvives /\ OneFileComplete /\ SwappedAtEnd
  BY DEF PhaseInv, Phase, Safe, InputSurvives, OneFileComplete, SwappedAtEnd
<1>3. TypeOK /\ CopyingOK /\ PhaseInv /\ [Next]_vars => PhaseInv'
  BY NextPhase
<1> QED
  BY <1>1, <1>2, <1>3, InitTypeOK, NextTypeOK, NextCopyingOK, InitPhase, PTL
     DEF Spec

(* In particular the input: it is in the msr-file, in the mlog-file or in  *)
(* __temp.msr, wherever a kill has ended the swap.                         *)
THEOREM InputSafe ==
  ASSUME Apart, Writable
  PROVE  Spec => []InputSurvives
BY SafeApart, PTL

-----------------------------------------------------------------------------
(* A result is new: until the mlog-file is opened none of the files which  *)
(* take part in the swap holds the result of this session.                 *)

Old(p, t) ==
  t \in Text /\ t.of = p =>
    t.no <= n[p] /\ (pc[p] \in {"start", "data", "fit", "log"} => t.no # n[p])

Fresh(p) ==
  /\ Old(p, fs[Msr(p)]) /\ Old(p, fs[Mlog(p)]) /\ Old(p, fs[Temp(p)])
  /\ pc[p] = "copying" /\ copy[p] # "keep" => Old(p, buf[p])

LEMMA OwnStepKeepsFresh ==
  ASSUME TypeOK, CopyingOK, NEW p \in Procs, Fresh(p), Step(p)
  PROVE  Fresh(p)'
<1> USE PathsOf, PathsDiffer DEF TypeOK, GoTo, Return, Put
<1>1. Msr(p)' = Msr(p) /\ Mlog(p)' = Mlog(p) /\ Temp(p)' = Temp(p)
  BY DEF Msr, Mlog, Temp
<1>2. CASE ReadMsrFile(p) \/ ReadData(p) \/ Fit(p) \/ Kill(p)
  <2>1. /\ fs'[Msr(p)] = fs[Msr(p)] /\ fs'[Mlog(p)] = fs[Mlog(p)]
        /\ fs'[Temp(p)] = fs[Temp(p)]
        /\ n'[p] = n[p] /\ pc'[p] # "copying"
        /\ pc[p] \in {"start", "data", "fit", "log"} \/ pc'[p] = "killed"
    BY <1>2 DEF ReadMsrFile, ReadData, Fit, Kill
  <2> QED
    BY <1>1, <2>1 DEF Fresh, Old
<1>3. CASE OpenLog(p)
  <2>1. /\ n'[p] = n[p] /\ pc[p] = "log" /\ pc'[p] \in {"copy", "logging"}
        /\ fs'[Msr(p)] = fs[Msr(p)] /\ fs'[Temp(p)] = fs[Temp(p)]
        /\ fs'[Mlog(p)] \in {fs[Mlog(p)], Partial}
    BY <1>3 DEF OpenLog
  <2> QED
    BY <1>1, <2>1 DEF Fresh, Old
<1>4. CASE WriteLog(p)
  <2>1. /\ n'[p] = n[p] /\ pc'[p] = "copy"
        /\ fs'[Msr(p)] = fs[Msr(p)] /\ fs'[Temp(p)] = fs[Temp(p)]
        /\ fs'[Mlog(p)] \in {Result(p), Partial}
    BY <1>4 DEF WriteLog, Logged
  <2>2. pc[p] = "logging" /\ n[p] \in Nat
    BY <1>4 DEF WriteLog
  <2> QED
    BY <1>1, <2>1, <2>2 DEF Fresh, Old, Result
<1>5. CASE OpenCopy(p)
  <2>1. /\ n'[p] = n[p] /\ pc[p] = "copy" /\ pc'[p] \in {"copy", "copying"}
        /\ copy[p] \in {"keep", "save", "result", "input"}
        /\ fs' = fs \/ fs' = [fs EXCEPT ![To(p)] = Partial]
        /\ pc'[p] = "copying" => copy'[p] = copy[p] /\ buf'[p] = fs[From(p)]
    BY <1>5 DEF OpenCopy
  <2>2. \A q \in {Msr(p), Mlog(p), Temp(p)} : fs'[q] \in {fs[q], Partial}
    BY <2>1
  <2>3. copy[p] # "keep" => From(p) \in {Msr(p), Mlog(p), Temp(p)}
    BY <2>1 DEF From, Copies
  <2> QED
    BY <1>1, <2>1, <2>2, <2>3 DEF Fresh, Old
<1>6. CASE WriteCopy(p)
  <2>1. /\ n'[p] = n[p] /\ pc[p] = "copying" /\ pc'[p] = "copy"
        /\ copy[p] \in {"keep", "save", "result", "input"}
        /\ fs' = [fs EXCEPT ![To(p)] = buf[p]]
    BY <1>6 DEF WriteCopy, CopyingOK
  <2>2. copy[p] = "keep" => To(p) \notin {Msr(p), Mlog(p), Temp(p)}
    BY DEF To, Copies
  <2>3. \A q \in {Msr(p), Mlog(p), Temp(p)} :
          fs'[q] = fs[q] \/ (copy[p] # "keep" /\ fs'[q] = buf[p])
    BY <2>1, <2>2
  <2> QED
    BY <1>1, <2>1, <2>3 DEF Fresh, Old
<1>7. CASE DeleteTemp(p)
  <2>1. /\ n'[p] = n[p] /\ pc[p] = "copy" /\ pc'[p] = "done"
        /\ fs'[Msr(p)] = fs[Msr(p)] /\ fs'[Mlog(p)] = fs[Mlog(p)]
        /\ fs'[Temp(p)] = None
    BY <1>7 DEF DeleteTemp
  <2> QED
    BY <1>1, <2>1 DEF Fresh, Old
<1>8. CASE Restart(p)
  <2>1. /\ n'[p] = n[p] + 1 /\ n[p] \in Nat /\ pc'[p] = "start" /\ fs' = fs
    BY <1>8 DEF Restart
  <2>2. \A t \in Text : t.no \in Nat
    BY DEF Text
  <2> QED
    BY <1>1, <2>1, <2>2 DEF Fresh, Old
<1> QED
  BY <1>2, <1>3, <1>4, <1>5, <1>6, <1>7, <1>8 DEF Step, AfterFit

FreshInv == \A p \in Procs : Fresh(p)

LEMMA InitFresh == Init => FreshInv
<1> SUFFICES ASSUME Init, NEW p \in Procs PROVE Fresh(p)
  BY DEF FreshInv
<1>1. PICK present \in SUBSET ({"msr", "mlog"} \X Files) :
          fs = [q \in Path |->
               IF q \in present \/ q[1] = "mn2"
               THEN [of |-> q[2], no |-> IF q[1] = "msr" THEN 1 ELSE 0]
               ELSE None]
  BY DEF Init
<1>2. \A q \in Path : q[2] \in Files \cup Dirs
  BY DEF Path
<1>3. \A q \in Path : fs[q] = None \/ fs[q].of # p
  BY <1>1, <1>2
<1> QED
  BY <1>3, PathsOf DEF Fresh, Old, Init

LEMMA NextFresh ==
  ASSUME Apart, TypeOK, CopyingOK, FreshInv, [Next]_vars
  PROVE  FreshInv'
<1>1. ASSUME NEW q \in Procs,
             /\ fs'[Msr(q)] = fs[Msr(q)] /\ fs'[Mlog(q)] = fs[Mlog(q)]
             /\ fs'[Temp(q)] = fs[Temp(q)]
             /\ pc'[q] = pc[q] /\ n'[q] = n[q] /\ copy'[q] = copy[q]
             /\ buf'[q] = buf[q]
      PROVE  Fresh(q)'
  <2>1. Msr(q)' = Msr(q) /\ Mlog(q)' = Mlog(q) /\ Temp(q)' = Temp(q)
    BY DEF Msr, Mlog, Temp
  <2> QED
    BY <1>1, <2>1 DEF FreshInv, Fresh, Old
<1>2. CASE UNCHANGED vars
  BY <1>1, <1>2 DEF FreshInv, vars
<1>3. ASSUME NEW p \in Procs, Step(p) PROVE FreshInv'
  <2>1. Fresh(p)'
    BY <1>3, OwnStepKeepsFresh DEF FreshInv
  <2>2. ASSUME NEW q \in Procs, p # q PROVE Fresh(q)'
    <3>1. /\ fs'[Msr(q)] = fs[Msr(q)] /\ fs'[Mlog(q)] = fs[Mlog(q)]
          /\ fs'[Temp(q)] = fs[Temp(q)]
      BY <1>3, <2>2, StepOfOne, PathsApart, PathsOf
    <3> QED
      BY <1>1, <1>3, <2>2, <3>1, StepOfOne
  <2> QED
    BY <2>1, <2>2 DEF FreshInv
<1> QED
  BY <1>2, <1>3 DEF Next, Terminated

-----------------------------------------------------------------------------
(* The refinement of FitFiles.                                             *)

SeenOf(p) ==
  /\ MsrSeen[MsrOf[p]] = IF Swapping(p) THEN Result(p) ELSE fs[Msr(p)]
  /\ MlogSeen[MsrOf[p]] = IF Swapping(p) THEN input[p] ELSE fs[Mlog(p)]

SeenUnfitted(f) ==
  (\A p \in Procs : MsrOf[p] # f) =>
    MsrSeen[f] = fs[<<"msr", f>>] /\ MlogSeen[f] = fs[<<"mlog", f>>]

Seen == /\ \A p \in Procs : p \notin Timeout => SeenOf(p)
        /\ \A f \in Unwatched : SeenUnfitted(f)

LEMMA UnwatchedOf ==
  ASSUME Apart, NEW p \in Procs
  PROVE  MsrOf[p] \in Unwatched <=> p \notin Timeout
BY DEF Unwatched, Apart

LEMMA SeenHolds ==
  ASSUME Apart
  PROVE  Seen
<1>1. ASSUME NEW p \in Procs, p \notin Timeout PROVE SeenOf(p)
  <2>0. MsrOf[p] \in Unwatched
    BY <1>1, UnwatchedOf
  <2>1. CASE Swapping(p)
    <3>1. Swapper(MsrOf[p]) = {p}
      BY <2>1 DEF Swapper, Apart
    <3> QED
      BY <2>0, <2>1, <3>1 DEF SeenOf, MsrSeen, MlogSeen
  <2>2. CASE ~Swapping(p)
    <3>1. Swapper(MsrOf[p]) = {}
      BY <2>2 DEF Swapper, Apart
    <3> QED
      BY <2>0, <2>2, <3>1 DEF SeenOf, MsrSeen, MlogSeen, Msr, Mlog
  <2> QED
    BY <2>1, <2>2
<1>2. ASSUME NEW f \in Unwatched, \A p \in Procs : MsrOf[p] # f
      PROVE  MsrSeen[f] = fs[<<"msr", f>>] /\ MlogSeen[f] = fs[<<"mlog", f>>]
  <2>1. Swapper(f) = {}
    BY <1>2 DEF Swapper
  <2> QED
    BY <2>1 DEF MsrSeen, MlogSeen
<1> QED
  BY <1>1, <1>2 DEF Seen, SeenUnfitted

(* A step of p leaves what is seen of the other files as it is.            *)
LEMMA OthersSeen ==
  ASSUME Apart, Seen, Seen', TypeOK, CopyingOK, NEW p \in Procs, Step(p),
         NEW f \in Unwatched, f # MsrOf[p]
  PROVE  MsrSeen'[f] = MsrSeen[f] /\ MlogSeen'[f] = MlogSeen[f]
<1>1. /\ <<"msr", f>> \in Path /\ <<"mlog", f>> \in Path
      /\ {<<"msr", f>>, <<"mlog", f>>}
           \cap {Msr(p), Mlog(p), Temp(p), Kept(p), Mn2(p)} = {}
  BY DEF Path, Msr, Mlog, Temp, Kept, Mn2, Unwatched
<1>2. fs'[<<"msr", f>>] = fs[<<"msr", f>>] /\ fs'[<<"mlog", f>>] = fs[<<"mlog", f>>]
  BY <1>1, StepOfOne
<1>3. CASE \A q \in Procs : MsrOf[q] # f
  BY <1>2, <1>3 DEF Seen, SeenUnfitted
<1>4. ASSUME NEW q \in Procs, MsrOf[q] = f
      PROVE  MsrSeen'[f] = MsrSeen[f] /\ MlogSeen'[f] = MlogSeen[f]
  <2>1. /\ pc'[q] = pc[q] /\ n'[q] = n[q] /\ input'[q] = input[q]
    BY <1>4, StepOfOne
  <2>2. /\ Swapping(q)' = Swapping(q) /\ Result(q)' = Result(q)
        /\ Msr(q) = <<"msr", f>> /\ Mlog(q) = <<"mlog", f>>
        /\ Msr(q)' = Msr(q) /\ Mlog(q)' = Mlog(q)
    BY <1>4, <2>1 DEF Swapping, Result, Msr, Mlog
  <2>3. q \notin Timeout
    BY <1>4, UnwatchedOf
  <2> QED
    BY <1>2, <1>4, <2>1, <2>2, <2>3 DEF Seen, SeenOf
<1> QED
  BY <1>3, <1>4

(* Opening the mlog-file is the swap; every other step is a stutter.       *)
LEMMA StepKeepsPromise ==
  ASSUME Apart, Writable, Seen, Seen', TypeOK, CopyingOK, PhaseInv,
         FreshInv, NEW p \in Procs, p \notin Timeout, Step(p)
  PROVE  Promise!Finish(MsrOf[p]) \/ UNCHANGED <<MsrSeen, MlogSeen>>
<1> USE PathsOf, PathsDiffer DEF TypeOK, GoTo, Return, Put
<1> DEFINE f == MsrOf[p]
<1>1. f \in Unwatched /\ Phase(p) /\ Phase(p)'
  BY OwnStepKeepsPhase, UnwatchedOf DEF PhaseInv
<1>2. /\ MsrSeen = [g \in Unwatched |-> MsrSeen[g]] /\ MlogSeen = [g \in Unwatched |-> MlogSeen[g]]
      /\ MsrSeen' = [g \in Unwatched |-> MsrSeen'[g]]
      /\ MlogSeen' = [g \in Unwatched |-> MlogSeen'[g]]
  BY DEF MsrSeen, MlogSeen
<1>3. \A g \in Unwatched \ {f} : MsrSeen'[g] = MsrSeen[g] /\ MlogSeen'[g] = MlogSeen[g]
  BY OthersSeen
<1>4. Msr(p)' = Msr(p) /\ Mlog(p)' = Mlog(p)
  BY DEF Msr, Mlog
<1>5. CASE OpenLog(p)
  <2>1. /\ pc[p] = "log" /\ pc'[p] = "logging" /\ input' = input /\ n' = n
        /\ fs[Msr(p)] = input[p] /\ input[p] \in Text
    BY <1>1, <1>5 DEF OpenLog, Phase, Writable
  <2>2. /\ MsrSeen[f] = input[p] /\ MsrSeen'[f] = Result(p) /\ MlogSeen'[f] = input[p]
    BY <2>1 DEF Seen, SeenOf, Swapping, Result
  <2>3. Result(p) \in Text \ {input[p]}
    BY <2>1, ResultIsText DEF FreshInv, Fresh, Old, Result
  <2>4. /\ MsrSeen' = [MsrSeen EXCEPT ![f] = MsrSeen'[f]]
        /\ MlogSeen' = [MlogSeen EXCEPT ![f] = MsrSeen[f]]
    BY <1>1, <1>2, <1>3, <2>2
  <2> QED
    BY <2>1, <2>2, <2>3, <2>4 DEF Promise!Finish
<1>6. CASE ~OpenLog(p)
  <2>1. MsrSeen'[f] = MsrSeen[f] /\ MlogSeen'[f] = MlogSeen[f]
    <3>1. CASE ReadMsrFile(p) \/ ReadData(p) \/ Fit(p) \/ Restart(p)
      <4>1. /\ fs'[Msr(p)] = fs[Msr(p)] /\ fs'[Mlog(p)] = fs[Mlog(p)]
            /\ ~Swapping(p) /\ ~Swapping(p)'
        BY <3>1 DEF ReadMsrFile, ReadData, Fit, Restart, Ended, Swapping
      <4> QED
        BY <1>4, <4>1 DEF Seen, SeenOf
    <3>2. CASE WriteLog(p) \/ OpenCopy(p) \/ WriteCopy(p)
      <4>1. /\ Swapping(p) /\ Swapping(p)' /\ input' = input /\ n' = n
        BY <3>2 DEF WriteLog, OpenCopy, WriteCopy, Swapping
      <4>2. MsrSeen[f] = Result(p) /\ MlogSeen[f] = input[p]
        BY <4>1 DEF Seen, SeenOf
      <4>3. MsrSeen'[f] = Result(p)' /\ MlogSeen'[f] = input'[p]
        BY <4>1 DEF Seen, SeenOf
      <4> QED
        BY <4>1, <4>2, <4>3 DEF Result
    <3>3. CASE DeleteTemp(p)
      <4>1. /\ Swapping(p) /\ ~Swapping(p)' /\ Swapped(p)
            /\ fs'[Msr(p)] = fs[Msr(p)] /\ fs'[Mlog(p)] = fs[Mlog(p)]
        BY <1>1, <3>3 DEF DeleteTemp, Swapping, Phase, Copying
      <4> QED
        BY <1>4, <4>1 DEF Seen, SeenOf, Swapped
    <3> QED
      BY <1>6, <3>1, <3>2, <3>3 DEF Step, AfterFit, Kill
  <2>2. \A g \in Unwatched : MsrSeen'[g] = MsrSeen[g] /\ MlogSeen'[g] = MlogSeen[g]
    BY <1>3, <2>1
  <2> QED
    BY <1>2, <2>2
<1> QED
  BY <1>5, <1>6

(* Processes which work apart and on files they may write swap msr- and    *)
(* mlog-file as if it were done at once, unless they have a watchdog.      *)
THEOREM SwapRefinesPromise ==
  ASSUME Apart, Writable
  PROVE  Spec => KeepsPromise
<1>1. Init => Promise!Init
  BY DEF Promise!Init, MsrSeen, MlogSeen
<1>2. Seen
  BY SeenHolds
<1>3. Seen'
  BY <1>2, PTL
<1>4. TypeOK /\ CopyingOK /\ PhaseInv /\ FreshInv /\ [Next]_vars =>
        [Promise!Next]_(Promise!Promised)
  <2> SUFFICES ASSUME TypeOK, CopyingOK, PhaseInv, FreshInv, [Next]_vars
               PROVE  Promise!Next \/ UNCHANGED <<MsrSeen, MlogSeen>>
    BY DEF Promise!Promised
  <2>1. CASE UNCHANGED vars
    <3>1. ASSUME NEW f \in Unwatched
          PROVE  MsrSeen'[f] = MsrSeen[f] /\ MlogSeen'[f] = MlogSeen[f]
      <4>1. CASE \A p \in Procs : MsrOf[p] # f
        BY <1>2, <1>3, <2>1, <4>1 DEF Seen, SeenUnfitted, vars
      <4>2. ASSUME NEW p \in Procs, MsrOf[p] = f
            PROVE  MsrSeen'[f] = MsrSeen[f] /\ MlogSeen'[f] = MlogSeen[f]
        <5>1. /\ Swapping(p)' = Swapping(p) /\ Result(p)' = Result(p)
              /\ Msr(p)' = Msr(p) /\ Mlog(p)' = Mlog(p)
              /\ fs' = fs /\ input' = input
          BY <2>1 DEF Swapping, Result, Msr, Mlog, vars
        <5>2. p \notin Timeout
          BY <4>2, UnwatchedOf
        <5> QED
          BY <1>2, <1>3, <4>2, <5>1, <5>2 DEF Seen, SeenOf
      <4> QED
        BY <4>1, <4>2
    <3>2. /\ MsrSeen = [f \in Unwatched |-> MsrSeen[f]]
          /\ MlogSeen = [f \in Unwatched |-> MlogSeen[f]]
          /\ MsrSeen' = [f \in Unwatched |-> MsrSeen'[f]]
          /\ MlogSeen' = [f \in Unwatched |-> MlogSeen'[f]]
      BY DEF MsrSeen, MlogSeen
    <3> QED
      BY <3>1, <3>2
  <2>2. ASSUME NEW p \in Procs, Step(p)
        PROVE  Promise!Next \/ UNCHANGED <<MsrSeen, MlogSeen>>
    <3>1. CASE p \notin Timeout
      <4>1. Promise!Finish(MsrOf[p]) \/ UNCHANGED <<MsrSeen, MlogSeen>>
        BY <1>2, <1>3, <2>2, <3>1, StepKeepsPromise
      <4>2. MsrOf[p] \in Unwatched
        BY <3>1, UnwatchedOf
      <4> QED
        BY <4>1, <4>2 DEF Promise!Next
    <3>2. CASE p \in Timeout
      <4>1. \A f \in Unwatched : f # MsrOf[p]
        BY <3>2, UnwatchedOf
      <4>2. \A f \in Unwatched : MsrSeen'[f] = MsrSeen[f] /\ MlogSeen'[f] = MlogSeen[f]
        BY <1>2, <1>3, <2>2, <4>1, OthersSeen
      <4> QED
        BY <4>2 DEF MsrSeen, MlogSeen
    <3> QED
      BY <3>1, <3>2
  <2> QED
    BY <2>1, <2>2 DEF Next, Terminated
<1>5. Init => CopyingOK
  BY DEF Init, CopyingOK
<1>6. TypeOK /\ CopyingOK /\ PhaseInv /\ [Next]_vars => PhaseInv'
  BY NextPhase
<1>7. TypeOK /\ CopyingOK /\ FreshInv /\ [Next]_vars => FreshInv'
  BY NextFresh
<1> QED
  BY <1>1, <1>4, <1>5, <1>6, <1>7, InitTypeOK, NextTypeOK, NextCopyingOK,
     InitPhase, InitFresh, PTL
     DEF Spec, KeepsPromise, Promise!Spec

-----------------------------------------------------------------------------
HIDE MusrfitAssumption

(* Loops: what a recursive function and the folds of the model compute.    *)

LEMMA LeastNumber ==
  ASSUME NEW S, S # {}, S \subseteq Nat
  PROVE  \E len \in S : \A l \in S : len <= l
<1>1. \E len \in S : \A l \in S : ~(<<l, len>> \in OpToRel(<, Nat))
  BY WFMin, NatLessThanWellFounded
<1>2. PICK len \in S : \A l \in S : ~(<<l, len>> \in OpToRel(<, Nat))
  BY <1>1
<1>3. ASSUME NEW l \in S PROVE len <= l
  <2>1. ~(l < len)
    BY <1>2 DEF OpToRel
  <2> QED BY <2>1
<1> QED BY <1>3

(* A set of numbers that has the first and with each the next has all.     *)
LEMMA UpTo ==
  ASSUME NEW len \in Nat, NEW S, 0 \in S, \A i \in 0..(len - 1) : i \in S => i + 1 \in S
  PROVE  0..len \subseteq S
<1>1. SUFFICES ASSUME NEW T, T = {i \in 0..len : i \notin S}, T # {} PROVE FALSE
  OBVIOUS
<1>2. PICK m \in T : \A l \in T : m <= l
  BY <1>1, LeastNumber
<1>3. m \in 1..len
  BY <1>1
<1>4. m - 1 \in 0..(len - 1) /\ m - 1 \in S
  BY <1>1, <1>2, <1>3
<1>5. (m - 1) + 1 = m
  BY <1>3
<1> QED
  BY <1>1, <1>4, <1>5

(* Step i of a loop makes f[i] of what the step before has left. *)
Runs(f, start, step, len) == f[0] = start /\ \A i \in 1..len : f[i] = step[<<f[i - 1], i>>]

(* A loop can be run: step by step, each value is made from the one before. *)
LEMMA LoopRuns ==
  ASSUME NEW len \in Nat, NEW S, NEW start \in S, NEW step \in [S \X (1..len) -> S]
  PROVE  \E f \in [0..len -> S] : Runs(f, start, step, len)
<1>1. PICK able : able = {m \in 0..len : \E f \in [0..len -> S] : Runs(f, start, step, m)}
  OBVIOUS
<1>2. 0 \in able
  <2>1. PICK f : f = [i \in 0..len |-> start]
    OBVIOUS
  <2>2. f \in [0..len -> S] /\ f[0] = start
    BY <2>1
  <2>3. Runs(f, start, step, 0)
    BY <2>2 DEF Runs
  <2> QED BY <1>1, <2>2, <2>3
<1>3. ASSUME NEW m \in 0..(len - 1), m \in able PROVE m + 1 \in able
  <2>1. PICK f \in [0..len -> S] : Runs(f, start, step, m)
    BY <1>1, <1>3
  <2>2. PICK v : v = step[<<f[m], m + 1>>]
    OBVIOUS
  <2>3. m \in 0..len /\ m + 1 \in 1..len
    OBVIOUS
  <2>4. f[m] \in S
    BY <2>3
  <2>5. v \in S
    BY <2>2, <2>3, <2>4
  <2>6. PICK g : g = [f EXCEPT ![m + 1] = v]
    OBVIOUS
  <2>7. m + 1 \in 0..len
    OBVIOUS
  <2>8. g \in [0..len -> S] /\ g[m + 1] = v
    BY <2>5, <2>6, <2>7
  <2>9. \A i \in 0..m : g[i] = f[i]
    BY <2>6
  <2>10. g[0] = start
    BY <2>1, <2>9 DEF Runs
  <2>11. ASSUME NEW i \in 1..(m + 1) PROVE g[i] = step[<<g[i - 1], i>>]
    <3>1. i - 1 \in 0..m
      OBVIOUS
    <3>2. g[i - 1] = f[i - 1]
      BY <2>9, <3>1
    <3>3. CASE i = m + 1
      <4>1. i - 1 = m
        BY <3>3
      <4> QED BY <2>2, <2>8, <3>2, <3>3, <4>1
    <3>4. CASE i \in 1..m
      <4>1. f[i] = step[<<f[i - 1], i>>]
        BY <2>1, <3>4 DEF Runs
      <4> QED BY <2>9, <3>2, <3>4, <4>1
    <3> QED BY <3>3, <3>4
  <2>12. Runs(g, start, step, m + 1)
    BY <2>10, <2>11 DEF Runs
  <2> QED BY <1>1, <2>7, <2>8, <2>12
<1>4. 0..len \subseteq able
  BY <1>2, <1>3, UpTo
<1>5. len \in able
  BY <1>4
<1> QED BY <1>1, <1>5 DEF Runs

LEMMA MaxIs ==
  ASSUME NEW len \in Nat, NEW s \in SUBSET (1..len), s # {}
  PROVE  Max(s) \in s /\ \A l \in s : l <= Max(s)
<1>1. PICK T : T = {len - l : l \in s}
  OBVIOUS
<1>2. T # {} /\ T \subseteq Nat
  <2>1. ASSUME NEW t \in T PROVE t \in Nat
    <3>1. PICK l \in s : t = len - l
      BY <1>1, Zenon
    <3> QED BY <3>1
  <2>2. PICK l \in s : TRUE
    OBVIOUS
  <2>3. len - l \in T
    BY <1>1
  <2> QED BY <2>1, <2>3
<1>3. PICK m \in T : \A l \in T : m <= l
  BY <1>2, LeastNumber
<1>4. PICK x \in s : m = len - x
  BY <1>1
<1>5. ASSUME NEW l \in s PROVE x >= l
  <2>1. len - l \in T
    BY <1>1
  <2>2. len - x <= len - l
    BY <1>3, <1>4, <2>1
  <2> QED BY <2>2
<1>6. \E y \in s : \A l \in s : y >= l
  BY <1>5
<1>7. Max(s) \in s /\ \A l \in s : Max(s) >= l
  BY <1>6, Zenon DEF Max
<1> QED BY <1>7

LEMMA MaxUpTo ==
  ASSUME NEW len \in Nat, NEW i \in 1..len
  PROVE  1..i \in SUBSET (1..len) /\ 1..i # {} /\ Max(1..i) = i /\ (1..i) \ {i} = 1..(i - 1)
<1>1. PICK s : s = 1..i
  OBVIOUS
<1>2. s \in SUBSET (1..len) /\ i \in s
  BY <1>1
<1>3. PICK x : x = Max(s)
  OBVIOUS
<1>4. x \in s /\ i <= x
  BY <1>2, <1>3, MaxIs
<1>5. x = i
  BY <1>1, <1>4
<1> QED
  BY <1>1, <1>2, <1>3, <1>5

Flattening(seqs, f, X) ==
  /\ f \in [0..Len(seqs) -> Seq(X)]
  /\ f[0] = <<>>
  /\ \A e \in 1..Len(seqs) : f[e] = f[e - 1] \o seqs[e]
  /\ FlattenSeq(seqs) = f[Len(seqs)]

LEMMA Flattens ==
  ASSUME NEW X, NEW seqs \in Seq(Seq(X))
  PROVE  \E f : Flattening(seqs, f, X)
<1>1. PICK len \in Nat : len = Len(seqs) /\ DOMAIN seqs = 1..len
  OBVIOUS
<1>2. PICK S : S = Seq(X)
  OBVIOUS
<1>3. <<>> \in S /\ \A e \in 1..len : seqs[e] \in S
  BY <1>1, <1>2
<1>4. \A a, b \in S : a \o b \in S
  BY <1>2
<1>5. PICK step : step = [a \in S \X (1..len) |-> a[1] \o seqs[a[2]]]
  OBVIOUS
<1>6. \A b \in S, e \in 1..len : step[<<b, e>>] = b \o seqs[e]
  BY <1>5
<1>7. step \in [S \X (1..len) -> S]
  BY <1>3, <1>4, <1>5
<1>8. PICK f \in [0..len -> S] : Runs(f, <<>>, step, len)
  BY <1>3, <1>7, LoopRuns, Zenon
<1>9. ASSUME NEW e \in 1..len PROVE f[e] = f[e - 1] \o seqs[e]
  <2>1. e - 1 \in 0..len
    OBVIOUS
  <2>2. PICK a : a = f[e - 1]
    OBVIOUS
  <2>3. a \in S
    BY <2>1, <2>2
  <2> QED BY <1>6, <1>8, <2>2, <2>3 DEF Runs
<1>10. f[0] = <<>>
  BY <1>8 DEF Runs
<1>11. FlattenSeq(seqs) = f[len]
  <2>1. CASE len = 0
    <3>1. seqs = <<>>
      BY <1>1, <2>1
    <3> QED BY <1>1, <1>10, <2>1, <3>1 DEF FlattenSeq
  <2>2. CASE len # 0
    <3>1. ASSUME NEW e \in 1..len PROVE f[e] = IF e = 1 THEN seqs[e] ELSE f[e - 1] \o seqs[e]
      <4>1. CASE e = 1
        <5>1. f[1] = <<>> \o seqs[1]
          BY <1>9, <1>10, <4>1
        <5>2. <<>> \o seqs[1] = seqs[1]
          BY <1>2, <1>3, <4>1, ConcatEmptySeq
        <5> QED BY <4>1, <5>1, <5>2
      <4>2. CASE e # 1
        BY <1>9, <4>2
      <4> QED BY <4>1, <4>2
    <3>2. PICK g : g = [e \in 1..len |-> f[e]]
      OBVIOUS
    <3>3. g = [e \in 1..len |-> IF e = 1 THEN seqs[e] ELSE g[e - 1] \o seqs[e]]
      <4>1. ASSUME NEW e \in 1..len
            PROVE  f[e] = IF e = 1 THEN seqs[e] ELSE g[e - 1] \o seqs[e]
        <5>1. CASE e = 1
          BY <3>1, <5>1
        <5>2. CASE e # 1
          <6>1. e - 1 \in 1..len
            BY <5>2
          <6> QED BY <3>1, <3>2, <5>2, <6>1
        <5> QED BY <5>1, <5>2
      <4> QED BY <3>2, <4>1
    <3>4. PICK h : h = CHOOSE z : z = [e \in 1..len |-> IF e = 1 THEN seqs[e] ELSE z[e - 1] \o seqs[e]]
      OBVIOUS
    <3>5. h = [e \in 1..len |-> IF e = 1 THEN seqs[e] ELSE h[e - 1] \o seqs[e]]
      BY <3>3, <3>4, Zenon
    <3>6. FlattenSeq(seqs) = h[len]
      BY <1>1, <2>2, <3>4, Zenon DEF FlattenSeq
    <3>7. PICK same : same = {m \in 0..len : m = 0 \/ h[m] = f[m]}
      OBVIOUS
    <3>8. ASSUME NEW m \in 0..(len - 1), m \in same PROVE m + 1 \in same
      <4>1. m + 1 \in 1..len /\ m + 1 \in 0..len /\ (m + 1) - 1 = m
        OBVIOUS
      <4>2. h[m + 1] = IF m + 1 = 1 THEN seqs[m + 1] ELSE h[m] \o seqs[m + 1]
        BY <3>5, <4>1
      <4>3. f[m + 1] = IF m + 1 = 1 THEN seqs[m + 1] ELSE f[m] \o seqs[m + 1]
        BY <3>1, <4>1
      <4>4. h[m + 1] = f[m + 1]
        <5>1. CASE m = 0
          BY <4>2, <4>3, <5>1
        <5>2. CASE m # 0
          <6>1. m + 1 # 1 /\ h[m] = f[m]
            BY <3>7, <3>8, <5>2
          <6> QED BY <4>2, <4>3, <6>1
        <5> QED BY <5>1, <5>2
      <4> QED BY <3>7, <4>1, <4>4
    <3>9. 0..len \subseteq same
      <4>1. 0 \in same
        BY <3>7
      <4> QED BY <3>8, <4>1, UpTo
    <3>10. h[len] = f[len]
      BY <2>2, <3>7, <3>9
    <3> QED BY <3>6, <3>10
  <2> QED BY <2>1, <2>2
<1>12. Flattening(seqs, f, X)
  BY <1>1, <1>2, <1>9, <1>10, <1>11 DEF Flattening
<1> QED BY <1>12

-----------------------------------------------------------------------------
(* The lines without those of certain words, the user's for example. *)

Own(l, words) == IF l.word \in words THEN <<>> ELSE << <<l.word, l.arg>> >>

Pairs(X) == {<<l.word, l.arg>> : l \in X}

LEMMA OwnIs ==
  ASSUME NEW words, NEW X, NEW l \in X
  PROVE  Own(l, words) \in Seq(Pairs(X))
<1>1. <<l.word, l.arg>> \in Pairs(X)
  BY DEF Pairs
<1>2. PICK p : p = <<l.word, l.arg>>
  OBVIOUS
<1>3. <<p>> \in Seq(Pairs(X)) /\ <<>> \in Seq(Pairs(X))
  BY <1>1, <1>2
<1> QED BY <1>2, <1>3 DEF Own

(* They are collected line by line.                                        *)
Collecting(s, f, len, T, words) ==
  /\ f \in [0..len -> T]
  /\ f[0] = <<>> /\ f[len] = LinesWithout(s, words)
  /\ \A i \in 1..len : f[i] = f[i - 1] \o Own(s[i], words)

LEMMA Collects ==
  ASSUME NEW words, NEW X, NEW s \in Seq(X), NEW len \in Nat, len = Len(s), NEW T, T = Seq(Pairs(X))
  PROVE  \E f : Collecting(s, f, len, T, words)
<1>1. DOMAIN s = 1..len
  OBVIOUS
<1>2. PICK q : q = [i \in DOMAIN s |-> Own(s[i], words)]
  OBVIOUS
<1>3. \A i \in 1..len : Own(s[i], words) \in T
  BY <1>1, OwnIs
<1>4. q \in Seq(T) /\ Len(q) = len /\ \A i \in 1..len : q[i] = Own(s[i], words)
  BY <1>1, <1>2, <1>3
<1>5. PICK f : Flattening(q, f, Pairs(X))
  BY <1>1, <1>4, Flattens
<1>6. LinesWithout(s, words) = FlattenSeq(q)
  BY <1>2 DEF LinesWithout, Own
<1> QED BY <1>1, <1>4, <1>5, <1>6 DEF Flattening, Collecting

LEMMA LinesAre ==
  ASSUME NEW words, NEW X, NEW s \in Seq(X)
  PROVE  LinesWithout(s, words) \in Seq(Pairs(X))
<1>1. PICK T : T = Seq(Pairs(X))
  OBVIOUS
<1>2. PICK len \in Nat : len = Len(s)
  OBVIOUS
<1>3. PICK f : Collecting(s, f, len, T, words)
  BY <1>1, <1>2, Collects
<1>4. len \in 0..len
  OBVIOUS
<1> QED BY <1>1, <1>3, <1>4 DEF Collecting

LEMMA LinesOfOne ==
  ASSUME NEW words, NEW l
  PROVE  LinesWithout(<<l>>, words) = Own(l, words)
<1>1. PICK s, X : s = <<l>> /\ X = {l}
  OBVIOUS
<1>2. s \in Seq(X) /\ Len(s) = 1 /\ s[1] = l
  BY <1>1
<1>3. PICK T : T = Seq(Pairs(X))
  OBVIOUS
<1>4. PICK f : Collecting(s, f, 1, T, words)
  BY <1>3, <1>2, Collects
<1>5. f[0] = <<>> /\ f[1] = LinesWithout(s, words) /\ f[1] = f[0] \o Own(l, words)
  <2>1. 1 \in 1..1 /\ 1 - 1 = 0
    OBVIOUS
  <2>2. f[1] = f[1 - 1] \o Own(s[1], words)
    BY <1>4, <2>1 DEF Collecting
  <2> QED BY <1>2, <1>4, <2>1, <2>2 DEF Collecting
<1>6. Own(l, words) \in Seq(Pairs(X))
  BY <1>1, OwnIs
<1>7. <<>> \o Own(l, words) = Own(l, words)
  BY <1>6, ConcatEmptySeq
<1> QED BY <1>1, <1>5, <1>7

LEMMA LinesOfNone ==
  ASSUME NEW words, NEW X, NEW s \in Seq(X), \A i \in DOMAIN s : s[i].word \in words
  PROVE  LinesWithout(s, words) = <<>>
<1>1. PICK len \in Nat : len = Len(s) /\ DOMAIN s = 1..len
  OBVIOUS
<1>2. PICK T : T = Seq(Pairs(X))
  OBVIOUS
<1>3. PICK f : Collecting(s, f, len, T, words)
  BY <1>2, <1>1, Collects
<1>4. /\ f \in [0..len -> T]
      /\ f[0] = <<>>
      /\ f[len] = LinesWithout(s, words)
      /\ \A i \in 1..len : f[i] = f[i - 1] \o Own(s[i], words)
  BY <1>3 DEF Collecting
<1>5. PICK good : good = {m \in 0..len : f[m] = <<>>}
  OBVIOUS
<1>6. ASSUME NEW m \in 0..(len - 1), m \in good PROVE m + 1 \in good
  <2>1. m + 1 \in 1..len /\ m + 1 \in 0..len /\ (m + 1) - 1 = m
    OBVIOUS
  <2>2. Own(s[m + 1], words) = <<>>
    BY <1>1, <2>1 DEF Own
  <2>3. f[m + 1] = <<>> \o <<>>
    BY <1>4, <1>5, <1>6, <2>1, <2>2
  <2> QED BY <1>5, <2>1, <2>3
<1>7. 0 \in good
  BY <1>4, <1>5
<1>8. 0..len \subseteq good
  BY <1>7, <1>6, UpTo
<1> QED BY <1>4, <1>5, <1>8

LEMMA ConcatThird ==
  ASSUME NEW X, NEW s \in Seq(X), NEW t \in Seq(X), NEW u \in Seq(X)
  PROVE  s \o (t \o u) = (s \o t) \o u
BY ConcatAssociative

LEMMA LinesConcat ==
  ASSUME NEW words, NEW X, NEW s \in Seq(X), NEW t \in Seq(X)
  PROVE  LinesWithout(s \o t, words) = LinesWithout(s, words) \o LinesWithout(t, words)
<1>1. PICK m \in Nat, len \in Nat :
           /\ m = Len(s)
           /\ DOMAIN s = 1..m
           /\ len = Len(t)
           /\ DOMAIN t = 1..len
  OBVIOUS
<1>2. PICK P, T : P = Pairs(X) /\ T = Seq(P)
  OBVIOUS
<1>3. PICK r : r = s \o t
  OBVIOUS
<1>4. /\ r \in Seq(X) /\ Len(r) = m + len
      /\ \A i \in 1..m : r[i] = s[i]
      /\ \A i \in 1..len : r[m + i] = t[i]
  <2>1. r \in Seq(X) /\ Len(r) = m + len
    BY <1>1, <1>3
  <2>2. \A i \in 1..(m + len) : r[i] = IF i <= m THEN s[i] ELSE t[i - m]
    BY <1>1, <1>3
  <2>3. ASSUME NEW i \in 1..len PROVE r[m + i] = t[i]
    <3>1. m + i \in 1..(m + len) /\ ~(m + i <= m) /\ (m + i) - m = i
      OBVIOUS
    <3> QED BY <2>2, <3>1
  <2>4. ASSUME NEW i \in 1..m PROVE r[i] = s[i]
    <3>1. i \in 1..(m + len) /\ i <= m
      OBVIOUS
    <3> QED BY <2>2, <3>1
  <2> QED BY <2>1, <2>3, <2>4
<1>5. PICK f : Collecting(s, f, m, T, words)
  BY <1>2, <1>1, Collects
<1>6. /\ f \in [0..m -> T]
      /\ f[0] = <<>>
      /\ f[m] = LinesWithout(s, words)
      /\ \A i \in 1..m : f[i] = f[i - 1] \o Own(s[i], words)
  BY <1>5 DEF Collecting
<1>7. PICK g : Collecting(t, g, len, T, words)
  BY <1>2, <1>1, Collects
<1>8. /\ g \in [0..len -> T]
      /\ g[0] = <<>>
      /\ g[len] = LinesWithout(t, words)
      /\ \A i \in 1..len : g[i] = g[i - 1] \o Own(t[i], words)
  BY <1>7 DEF Collecting
<1>9. m + len \in Nat /\ r \in Seq(X) /\ m + len = Len(r) /\ T = Seq(Pairs(X))
  BY <1>2, <1>4
<1>10. PICK h : Collecting(r, h, m + len, T, words)
  BY <1>9, Collects, Zenon
<1>11. /\ h \in [0..(m + len) -> T]
      /\ h[0] = <<>>
      /\ h[m + len] = LinesWithout(r, words)
      /\ \A i \in 1..(m + len) : h[i] = h[i - 1] \o Own(r[i], words)
  BY <1>10 DEF Collecting
<1>12. h[m] = f[m]
  <2>1. PICK good : good = {i \in 0..m : h[i] = f[i]}
    OBVIOUS
  <2>2. ASSUME NEW i \in 0..(m - 1), i \in good PROVE i + 1 \in good
    <3>1. i + 1 \in 1..m /\ i + 1 \in 0..m /\ i + 1 \in 1..(m + len) /\ (i + 1) - 1 = i
      OBVIOUS
    <3>2. h[i + 1] = h[i] \o Own(s[i + 1], words) /\ f[i + 1] = f[i] \o Own(s[i + 1], words)
      BY <1>4, <1>6, <1>11, <3>1
    <3> QED BY <2>1, <2>2, <3>1, <3>2
  <2>4. 0 \in good
    BY <1>6, <1>11, <2>1
  <2>3. 0..m \subseteq good
    BY <2>4, <2>2, UpTo
  <2> QED BY <2>1, <2>3
<1>13. h[m + len] = f[m] \o g[len]
  <2>1. PICK good : good = {i \in 0..len : h[m + i] = f[m] \o g[i]}
    OBVIOUS
  <2>2. 0 \in good
    <3>1. m \in 0..m /\ f[m] \in T
      BY <1>6
    <3>2. f[m] \o <<>> = f[m]
      BY <1>2, <3>1, ConcatEmptySeq
    <3>3. m + 0 = m /\ 0 \in 0..len
      OBVIOUS
    <3>4. h[m + 0] = f[m] \o g[0]
      BY <1>8, <1>12, <3>2, <3>3
    <3> QED BY <2>1, <3>3, <3>4
  <2>3. ASSUME NEW i \in 0..(len - 1), i \in good PROVE i + 1 \in good
    <3>1. /\ i + 1 \in 1..len /\ i + 1 \in 0..len /\ i \in 0..len /\ m + (i + 1) \in 1..(m + len)
          /\ (i + 1) - 1 = i /\ (m + (i + 1)) - 1 = m + i
      OBVIOUS
    <3>2. h[m + (i + 1)] = h[m + i] \o Own(t[i + 1], words)
      BY <1>4, <1>11, <3>1
    <3>3. g[i + 1] = g[i] \o Own(t[i + 1], words)
      BY <1>8, <3>1
    <3>4. h[m + i] = f[m] \o g[i]
      BY <2>1, <2>3
    <3>5. f[m] \in T /\ g[i] \in T /\ Own(t[i + 1], words) \in T
      <4>1. t[i + 1] \in X
        BY <1>1, <3>1
      <4>2. m \in 0..m
        OBVIOUS
      <4>3. f[m] \in T /\ g[i] \in T
        BY <1>6, <1>8, <3>1, <4>2
      <4>4. Own(t[i + 1], words) \in T
        BY <1>2, <4>1, OwnIs
      <4> QED BY <4>3, <4>4
    <3>7. PICK a, b, c : a = f[m] /\ b = g[i] /\ c = Own(t[i + 1], words)
      OBVIOUS
    <3>8. a \in Seq(P) /\ b \in Seq(P) /\ c \in Seq(P)
      BY <1>2, <3>5, <3>7
    <3>9. a \o (b \o c) = (a \o b) \o c
      BY <3>8, ConcatThird
    <3>6. f[m] \o (g[i] \o Own(t[i + 1], words)) = (f[m] \o g[i]) \o Own(t[i + 1], words)
      BY <3>7, <3>9
    <3> QED BY <2>1, <3>1, <3>2, <3>3, <3>4, <3>6
  <2>4. 0..len \subseteq good
    BY <2>2, <2>3, UpTo
  <2>5. len \in 0..len
    OBVIOUS
  <2>6. len \in good
    BY <2>4, <2>5
  <2> QED BY <2>1, <2>6
<1> QED BY <1>3, <1>6, <1>8, <1>11, <1>13

(* A text of pieces, one for each line, that leave of it what they should. *)
LEMMA LinesOfPieces ==
  ASSUME NEW words, NEW X, NEW lines \in Seq(X), NEW seqs \in Seq(Seq(X)), Len(seqs) = Len(lines),
         \A i \in 1..Len(lines) : LinesWithout(seqs[i], words) = Own(lines[i], words)
  PROVE  /\ LinesWithout(FlattenSeq(seqs), words) = LinesWithout(lines, words)
         /\ FlattenSeq(seqs) \in Seq(X)
<1>1. PICK len \in Nat : len = Len(seqs) /\ DOMAIN seqs = 1..len
  OBVIOUS
<1>2. PICK S, T : S = Seq(X) /\ T = Seq(Pairs(X))
  OBVIOUS
<1>3. PICK f : Flattening(seqs, f, X)
  BY Flattens
<1>4. /\ f \in [0..len -> S]
      /\ f[0] = <<>>
      /\ f[len] = FlattenSeq(seqs)
      /\ \A i \in 1..len : f[i] = f[i - 1] \o seqs[i]
  BY <1>2, <1>1, <1>3 DEF Flattening
<1>5. PICK g : Collecting(lines, g, len, T, words)
  BY <1>2, <1>1, Collects
<1>6. /\ g \in [0..len -> T]
      /\ g[0] = <<>>
      /\ g[len] = LinesWithout(lines, words)
      /\ \A i \in 1..len : g[i] = g[i - 1] \o Own(lines[i], words)
  BY <1>5 DEF Collecting
<1>7. PICK good : good = {i \in 0..len : LinesWithout(f[i], words) = g[i]}
  OBVIOUS
<1>8. 0 \in good
  <2>1. <<>> \in S /\ \A i \in DOMAIN <<>> : FALSE
    BY <1>2, <1>1
  <2>2. LinesWithout(<<>>, words) = <<>>
    BY <1>2, <1>1, <2>1, LinesOfNone
  <2> QED BY <1>4, <1>6, <1>7, <2>2
<1>9. ASSUME NEW i \in 0..(len - 1), i \in good PROVE i + 1 \in good
  <2>1. i + 1 \in 1..len /\ i + 1 \in 0..len /\ i \in 0..len /\ (i + 1) - 1 = i
    OBVIOUS
  <2>6. seqs \in Seq(S)
    BY <1>2
  <2>7. seqs[i + 1] \in S
    BY <1>1, <2>1, <2>6
  <2>2. f[i + 1] = f[i] \o seqs[i + 1] /\ f[i] \in S /\ seqs[i + 1] \in S
    BY <1>4, <2>1, <2>7
  <2>3. LinesWithout(f[i + 1], words) = LinesWithout(f[i], words) \o LinesWithout(seqs[i + 1], words)
    BY <1>2, <1>1, <2>2, LinesConcat
  <2>4. LinesWithout(seqs[i + 1], words) = Own(lines[i + 1], words)
    BY <1>2, <1>1, <2>1
  <2>5. LinesWithout(f[i], words) = g[i] /\ g[i + 1] = g[i] \o Own(lines[i + 1], words)
    BY <1>6, <1>7, <1>9, <2>1
  <2> QED BY <1>7, <2>1, <2>3, <2>4, <2>5
<1>10. 0..len \subseteq good
  BY <1>8, <1>9, UpTo
<1>11. len \in good
  BY <1>10
<1>12. f[len] \in S
  BY <1>4
<1> QED BY <1>2, <1>1, <1>4, <1>6, <1>7, <1>11, <1>12

-----------------------------------------------------------------------------
(* The runs that are read, line by line. *)

ReadStep(runs, i) ==
  IF InBlock(msr, "RUN", i) THEN ReadRunLine(runs, msr[i]) ELSE runs

Folding(h, m) ==
  h = [s \in SUBSET (1..m) |-> IF s = {} THEN <<>> ELSE ReadStep(h[s \ {Max(s)}], Max(s))]

LEMMA FoldingStarts == \E h : Folding(h, 0)
<1>1. PICK h : h = [s \in SUBSET (1..0) |-> <<>>]
  OBVIOUS
<1>2. \A s \in SUBSET (1..0) : s = {}
  OBVIOUS
<1>3. h = [s \in SUBSET (1..0) |-> IF s = {} THEN <<>> ELSE ReadStep(h[s \ {Max(s)}], Max(s))]
  BY <1>1, <1>2, Zenon
<1> QED BY <1>3 DEF Folding

LEMMA FoldingGoesOn ==
  ASSUME NEW m \in Nat, NEW h, Folding(h, m)
  PROVE  \E g : Folding(g, m + 1)
<1>1. PICK g : g = [s \in SUBSET (1..(m + 1)) |->
                      IF m + 1 \in s THEN ReadStep(h[s \ {m + 1}], m + 1) ELSE h[s]]
  OBVIOUS
<1>2. ASSUME NEW s \in SUBSET (1..m) PROVE g[s] = h[s]
  <2>1. s \in SUBSET (1..(m + 1)) /\ m + 1 \notin s
    OBVIOUS
  <2> QED BY <1>1, <2>1, Zenon
<1>3. ASSUME NEW s \in SUBSET (1..(m + 1))
      PROVE  g[s] = IF s = {} THEN <<>> ELSE ReadStep(g[s \ {Max(s)}], Max(s))
  <2>1. CASE m + 1 \in s
    <3>1. s # {} /\ m + 1 \in Nat
      BY <2>1
    <3>2. PICK x : x = Max(s)
      OBVIOUS
    <3>3. x \in s /\ m + 1 <= x
      BY <2>1, <3>1, <3>2, MaxIs
    <3>4. x = m + 1
      BY <3>3
    <3>5. s \ {m + 1} \in SUBSET (1..m)
      OBVIOUS
    <3>6. g[s \ {m + 1}] = h[s \ {m + 1}]
      BY <1>2, <3>5
    <3>7. g[s] = ReadStep(h[s \ {m + 1}], m + 1)
      BY <1>1, <2>1, Zenon
    <3> QED BY <3>1, <3>2, <3>4, <3>6, <3>7, Zenon
  <2>2. CASE m + 1 \notin s
    <3>1. s \in SUBSET (1..m)
      BY <2>2
    <3>2. g[s] = h[s]
      BY <1>2, <3>1
    <3>3. s \ {Max(s)} \in SUBSET (1..m)
      BY <3>1
    <3>4. g[s \ {Max(s)}] = h[s \ {Max(s)}]
      BY <1>2, <3>3
    <3>5. h[s] = IF s = {} THEN <<>> ELSE ReadStep(h[s \ {Max(s)}], Max(s))
      BY <3>1, Zenon DEF Folding
    <3> QED BY <3>2, <3>4, <3>5, Zenon
  <2> QED BY <2>1, <2>2
<1>4. g = [s \in SUBSET (1..(m + 1)) |-> IF s = {} THEN <<>> ELSE ReadStep(g[s \ {Max(s)}], Max(s))]
  <2>1. g = [s \in SUBSET (1..(m + 1)) |-> g[s]]
    BY <1>1
  <2> QED BY <1>3, <2>1, Zenon
<1> QED BY <1>4 DEF Folding

ReadingRuns(g, len) ==
  g[0] = <<>> /\ (\A i \in 1..len : g[i] = ReadStep(g[i - 1], i)) /\ ReadRuns(msr) = g[len]

LEMMA RunsAreRead ==
  ASSUME NEW len \in Nat, DOMAIN msr = 1..len
  PROVE  \E g : ReadingRuns(g, len)
<1>1. PICK able : able = {m \in 0..len : \E h : Folding(h, m)}
  OBVIOUS
<1>2. 0 \in able
  BY <1>1, FoldingStarts
<1>3. ASSUME NEW m \in 0..(len - 1), m \in able PROVE m + 1 \in able
  <2>1. m \in Nat /\ m + 1 \in 0..len
    OBVIOUS
  <2>2. PICK h : Folding(h, m)
    BY <1>1, <1>3
  <2>3. \E g : Folding(g, m + 1)
    BY <2>1, <2>2, FoldingGoesOn
  <2> QED BY <1>1, <2>1, <2>3
<1>4. 0..len \subseteq able
  BY <1>2, <1>3, UpTo
<1>5. len \in able
  BY <1>4
<1>6. PICK h : Folding(h, len)
  BY <1>1, <1>5
<1>7. PICK list : list = [i \in DOMAIN msr |-> i]
  OBVIOUS
<1>8. DOMAIN list = 1..len /\ \A i \in 1..len : list[i] = i
  BY <1>7
<1>9. h = [s \in SUBSET (1..len) |->
             IF s = {} THEN <<>> ELSE ReadStep(h[s \ {Max(s)}], list[Max(s)])]
  <2>1. ASSUME NEW s \in SUBSET (1..len), s # {} PROVE list[Max(s)] = Max(s)
    <3>1. PICK x : x = Max(s)
      OBVIOUS
    <3>2. x \in 1..len
      BY <2>1, <3>1, MaxIs
    <3> QED BY <1>8, <3>1, <3>2
  <2>2. \A s \in SUBSET (1..len) :
          h[s] = IF s = {} THEN <<>> ELSE ReadStep(h[s \ {Max(s)}], list[Max(s)])
    BY <1>6, <2>1, Zenon DEF Folding
  <2>3. h = [s \in SUBSET (1..len) |-> h[s]]
    BY <1>6 DEF Folding
  <2> QED BY <2>2, <2>3, Zenon
<1>10. PICK z : z = CHOOSE y : y = [s \in SUBSET (1..len) |->
                   IF s = {} THEN <<>> ELSE ReadStep(y[s \ {Max(s)}], list[Max(s)])]
  OBVIOUS
<1>11. z = [s \in SUBSET (1..len) |->
              IF s = {} THEN <<>> ELSE ReadStep(z[s \ {Max(s)}], list[Max(s)])]
  BY <1>9, <1>10, Zenon
<1>12. ReadRuns(msr) = z[1..len]
  <2>1. ReadRuns(msr)
          = (CHOOSE y : y = [s \in SUBSET (DOMAIN list) |->
               IF s = {} THEN <<>> ELSE ReadStep(y[s \ {Max(s)}], list[Max(s)])])[DOMAIN list]
    BY <1>7, Zenon DEF ReadRuns, ReadStep, FoldLeftDomain, FoldLeft, MapThenFoldSet
  <2> QED BY <1>8, <1>10, <2>1, Zenon
<1>13. PICK g : g = [i \in 0..len |-> z[1..i]]
  OBVIOUS
<1>14. g[0] = <<>>
  <2>1. 1..0 = {} /\ {} \in SUBSET (1..len) /\ 0 \in 0..len
    OBVIOUS
  <2>2. z[{}] = <<>>
    BY <1>11, <2>1, Zenon
  <2> QED BY <1>13, <2>1, <2>2
<1>15. ASSUME NEW i \in 1..len PROVE g[i] = ReadStep(g[i - 1], i)
  <2>1. 1..i \in SUBSET (1..len) /\ 1..i # {} /\ Max(1..i) = i /\ (1..i) \ {i} = 1..(i - 1)
    BY MaxUpTo
  <2>2. z[1..i] = ReadStep(z[(1..i) \ {Max(1..i)}], list[Max(1..i)])
    BY <1>11, <2>1, Zenon
  <2>3. z[1..i] = ReadStep(z[1..(i - 1)], i)
    BY <1>8, <2>1, <2>2, Zenon
  <2>4. i \in 0..len /\ i - 1 \in 0..len
    OBVIOUS
  <2> QED BY <1>13, <2>3, <2>4
<1>16. g[len] = z[1..len]
  <2>1. len \in 0..len
    OBVIOUS
  <2> QED BY <1>13, <2>1
<1> QED BY <1>12, <1>14, <1>15, <1>16 DEF ReadingRuns

-----------------------------------------------------------------------------
(* The names of the runs that are read. *)

IsRun(r) == r = [name |-> r.name, t0 |-> r.t0, range |-> r.range]

AreRuns(runs) == \E Y : runs \in Seq(Y) /\ \A r \in Y : IsRun(r)

(* Up to line m: as many runs as RUN lines, each with the name it has there. *)
RunsUpTo(runs, m) ==
  /\ AreRuns(runs) /\ Len(runs) = RunNo(m)
  /\ \A i \in 1..m : msr[i].word = "RUN" =>
       RunNo(i) \in 1..RunNo(m) /\ runs[RunNo(i)].name = msr[i].arg.name

LEMMA RunNoIs ==
  ASSUME NEW len \in Nat, DOMAIN msr = 1..len, Plain(msr)
  PROVE  /\ RunNo(0) = 0
         /\ \A i \in 0..len : RunNo(i) \in Nat
         /\ \A i \in 1..len : RunNo(i) = IF msr[i].word = "RUN" THEN RunNo(i - 1) + 1 ELSE RunNo(i - 1)
<1> DEFINE at(i) == {j \in 1..i : msr[j].word = "RUN" /\ ~msr[j].indent}
<1>1. \A i : RunNo(i) = Cardinality(at(i))
  BY DEF RunNo
<1>2. ASSUME NEW i \in 0..len PROVE IsFiniteSet(at(i)) /\ Cardinality(at(i)) \in Nat
  <2>1. i \in Int /\ 1 \in Int /\ at(i) \in SUBSET (1..i)
    OBVIOUS
  <2>2. IsFiniteSet(1..i)
    BY <2>1, FS_Interval
  <2>3. IsFiniteSet(at(i))
    BY <2>1, <2>2, FS_Subset
  <2> QED BY <2>3, FS_CardinalityType
<1>3. RunNo(0) = 0
  <2>1. at(0) = {}
    OBVIOUS
  <2> QED BY <1>1, <2>1, FS_EmptySet
<1>4. ASSUME NEW i \in 1..len
      PROVE  RunNo(i) = IF msr[i].word = "RUN" THEN RunNo(i - 1) + 1 ELSE RunNo(i - 1)
  <2>1. i - 1 \in 0..len /\ i \notin at(i - 1) /\ 1..i = (1..(i - 1)) \cup {i}
    OBVIOUS
  <2>2. CASE msr[i].word = "RUN"
    <3>1. ~msr[i].indent
      BY <2>2 DEF Plain, Tags
    <3>2. at(i) = at(i - 1) \cup {i}
      BY <2>1, <2>2, <3>1
    <3>3. IsFiniteSet(at(i - 1))
      BY <1>2, <2>1
    <3>4. Cardinality(at(i - 1) \cup {i}) = Cardinality(at(i - 1)) + 1
      BY <2>1, <3>3, FS_AddElement
    <3> QED BY <1>1, <2>2, <3>2, <3>4
  <2>3. CASE msr[i].word # "RUN"
    <3>1. at(i) = at(i - 1)
      BY <2>1, <2>3
    <3> QED BY <1>1, <2>3, <3>1
  <2> QED BY <2>2, <2>3
<1> QED BY <1>1, <1>2, <1>3, <1>4

LEMMA RunStays ==
  ASSUME NEW r, IsRun(r), NEW v
  PROVE  /\ IsRun([r EXCEPT !.t0 = v]) /\ [r EXCEPT !.t0 = v].name = r.name
         /\ IsRun([r EXCEPT !.range = v]) /\ [r EXCEPT !.range = v].name = r.name
<1>1. PICK a, b, c : r = [name |-> a, t0 |-> b, range |-> c]
  BY DEF IsRun
<1>2. [r EXCEPT !.t0 = v] = [name |-> a, t0 |-> v, range |-> c]
  BY <1>1
<1>3. [r EXCEPT !.range = v] = [name |-> a, t0 |-> b, range |-> v]
  BY <1>1
<1> QED BY <1>1, <1>2, <1>3 DEF IsRun

(* A line that is no RUN line changes neither their number nor a name.     *)
LEMMA ReadStepKeeps ==
  ASSUME NEW runs, AreRuns(runs), NEW i, msr[i].word # "RUN"
  PROVE  /\ AreRuns(ReadStep(runs, i)) /\ Len(ReadStep(runs, i)) = Len(runs)
         /\ \A k \in 1..Len(runs) : ReadStep(runs, i)[k].name = runs[k].name
<1>1. PICK Y : runs \in Seq(Y) /\ \A r \in Y : IsRun(r)
  BY DEF AreRuns
<1>2. PICK len \in Nat : len = Len(runs) /\ DOMAIN runs = 1..len
  BY <1>1
<1>3. \A k \in 1..len : IsRun(runs[k])
  BY <1>1, <1>2
<1>4. PICK t0, range : /\ t0 = [runs EXCEPT ![len].t0 = @ + msr[i].arg.n]
                       /\ range = [runs EXCEPT ![len].range = ReadRange(msr[i].arg)]
  OBVIOUS
<1>5. ReadStep(runs, i) \in {runs, t0, range}
  BY <1>2, <1>4 DEF ReadStep, ReadRunLine
<1>6. ASSUME NEW x, DOMAIN x = 1..len, x = [k \in 1..len |-> x[k]],
             \A k \in 1..len : IsRun(x[k]) /\ x[k].name = runs[k].name
      PROVE  AreRuns(x) /\ Len(x) = len /\ \A k \in 1..len : x[k].name = runs[k].name
  <2>1. PICK Z : Z = {x[k] : k \in 1..len}
    OBVIOUS
  <2>2. x \in [1..len -> Z]
    BY <1>6, <2>1
  <2>3. x \in Seq(Z) /\ Len(x) = len
    BY <2>2
  <2>4. \A r \in Z : IsRun(r)
    BY <1>6, <2>1
  <2> QED BY <1>6, <2>3, <2>4 DEF AreRuns
<1>7. CASE ReadStep(runs, i) = runs
  BY <1>2, <1>7
<1>8. CASE ReadStep(runs, i) = t0
  <2>1. PICK v : v = runs[len].t0 + msr[i].arg.n
    OBVIOUS
  <2>2. t0 = [k \in 1..len |-> IF k = len THEN [runs[k] EXCEPT !.t0 = v] ELSE runs[k]]
    BY <1>2, <1>4, <2>1
  <2>3. \A k \in 1..len : IsRun(t0[k]) /\ t0[k].name = runs[k].name
    BY <1>3, <2>2, RunStays
  <2>4. DOMAIN t0 = 1..len /\ t0 = [k \in 1..len |-> t0[k]]
    BY <2>2
  <2> QED BY <1>2, <1>6, <1>8, <2>3, <2>4
<1>9. CASE ReadStep(runs, i) = range
  <2>1. PICK v : v = ReadRange(msr[i].arg)
    OBVIOUS
  <2>2. range = [k \in 1..len |-> IF k = len THEN [runs[k] EXCEPT !.range = v] ELSE runs[k]]
    BY <1>2, <1>4, <2>1
  <2>3. \A k \in 1..len : IsRun(range[k]) /\ range[k].name = runs[k].name
    BY <1>3, <2>2, RunStays
  <2>4. DOMAIN range = 1..len /\ range = [k \in 1..len |-> range[k]]
    BY <2>2
  <2> QED BY <1>2, <1>6, <1>9, <2>3, <2>4
<1> QED BY <1>5, <1>7, <1>8, <1>9

(* A RUN line is one of its own block. *)
LEMMA RunLineIsRead ==
  ASSUME NEW len \in Nat, DOMAIN msr = 1..len, msr[1].word = "title",
         NEW i \in 1..len, msr[i].word = "RUN"
  PROVE  InBlock(msr, "RUN", i)
<1>1. i \in 2..i /\ i >= 2
  OBVIOUS
<1>2. PICK s : s = {j \in 2..i : ReadAsTag(msr[j])}
  OBVIOUS
<1>3. i \in s /\ s \in SUBSET (1..len) /\ \A j \in s : j <= i
  BY <1>1, <1>2 DEF ReadAsTag, Tags
<1>4. PICK x : x = Max(s)
  OBVIOUS
<1>5. x \in s /\ i <= x
  BY <1>3, <1>4, MaxIs
<1>6. Max(s) = i
  BY <1>3, <1>4, <1>5
<1>7. SelectLastInSubSeq(msr, 2, i, ReadAsTag) = i
  BY <1>2, <1>3, <1>6 DEF SelectLastInSubSeq
<1>8. ~Skipped(msr[i])
  BY DEF Skipped
<1> QED BY <1>7, <1>8 DEF InBlock

LEMMA NamesAreRead ==
  ASSUME NEW len \in Nat, DOMAIN msr = 1..len, msr[1].word = "title", Plain(msr)
  PROVE  RunsUpTo(ReadRuns(msr), len)
<1>1. PICK g : ReadingRuns(g, len)
  BY RunsAreRead
<1>2. /\ g[0] = <<>> /\ ReadRuns(msr) = g[len]
      /\ \A i \in 1..len : g[i] = ReadStep(g[i - 1], i)
  BY <1>1 DEF ReadingRuns
<1>3. /\ RunNo(0) = 0
      /\ \A i \in 0..len : RunNo(i) \in Nat
      /\ \A i \in 1..len : RunNo(i) = IF msr[i].word = "RUN" THEN RunNo(i - 1) + 1 ELSE RunNo(i - 1)
  BY RunNoIs
<1>4. PICK good : good = {m \in 0..len : RunsUpTo(g[m], m)}
  OBVIOUS
<1>5. 0 \in good
  <2>1. <<>> \in Seq({}) /\ Len(<<>>) = 0
    OBVIOUS
  <2>2. AreRuns(<<>>)
    BY <2>1 DEF AreRuns
  <2>3. RunsUpTo(g[0], 0)
    BY <1>2, <1>3, <2>1, <2>2 DEF RunsUpTo
  <2> QED BY <1>4, <2>3
<1>6. ASSUME NEW m \in 0..(len - 1), m \in good PROVE m + 1 \in good
  <2>1. PICK i : i = m + 1
    OBVIOUS
  <2>2. i \in 1..len /\ i \in 0..len /\ i - 1 = m /\ m \in 0..len
    BY <2>1
  <2>3. g[i] = ReadStep(g[m], i)
    BY <1>2, <2>2
  <2>4. PICK runs, c : runs = g[m] /\ c = RunNo(m)
    OBVIOUS
  <2>5. /\ AreRuns(runs) /\ Len(runs) = c /\ c \in Nat
        /\ \A j \in 1..m : msr[j].word = "RUN" =>
             RunNo(j) \in 1..c /\ runs[RunNo(j)].name = msr[j].arg.name
    BY <1>3, <1>4, <1>6, <2>2, <2>4 DEF RunsUpTo
  <2>6. CASE msr[i].word # "RUN"
    <3>1. RunNo(i) = c
      BY <1>3, <2>2, <2>4, <2>6
    <3>2. PICK x : x = g[i]
      OBVIOUS
    <3>3. /\ AreRuns(x) /\ Len(x) = c
          /\ \A k \in 1..c : x[k].name = runs[k].name
      BY <2>3, <2>4, <2>5, <2>6, <3>2, ReadStepKeeps
    <3>4. ASSUME NEW j \in 1..i, msr[j].word = "RUN"
          PROVE  RunNo(j) \in 1..c /\ x[RunNo(j)].name = msr[j].arg.name
      <4>1. j # i
        BY <2>6, <3>4
      <4>2. j \in 1..m
        BY <2>1, <2>2, <4>1
      <4> QED BY <2>5, <3>3, <3>4, <4>2
    <3>5. RunsUpTo(x, i)
      BY <3>1, <3>3, <3>4 DEF RunsUpTo
    <3> QED BY <1>4, <2>1, <2>2, <3>2, <3>5
  <2>7. CASE msr[i].word = "RUN"
    <3>1. RunNo(i) = c + 1
      BY <1>3, <2>2, <2>4, <2>7
    <3>2. InBlock(msr, "RUN", i)
      BY <2>2, <2>7, RunLineIsRead
    <3>3. PICK r : r = [name |-> msr[i].arg.name, t0 |-> 0, range |-> NoRange]
      OBVIOUS
    <3>4. IsRun(r) /\ r.name = msr[i].arg.name
      BY <3>3 DEF IsRun
    <3>5. g[i] = Append(runs, r)
      BY <2>3, <2>4, <2>7, <3>2, <3>3 DEF ReadStep, ReadRunLine
    <3>6. PICK Y : runs \in Seq(Y) /\ \A z \in Y : IsRun(z)
      BY <2>5 DEF AreRuns
    <3>7. PICK Z : Z = Y \cup {r}
      OBVIOUS
    <3>8. runs \in Seq(Z) /\ r \in Z /\ \A z \in Z : IsRun(z)
      BY <3>4, <3>6, <3>7
    <3>9. PICK x : x = Append(runs, r)
      OBVIOUS
    <3>10. x \in Seq(Z) /\ Len(x) = c + 1 /\ x[c + 1] = r /\ \A k \in 1..c : x[k] = runs[k]
      BY <2>5, <3>8, <3>9
    <3>11. ASSUME NEW j \in 1..i, msr[j].word = "RUN"
           PROVE  RunNo(j) \in 1..(c + 1) /\ x[RunNo(j)].name = msr[j].arg.name
      <4>1. CASE j = i
        BY <2>5, <3>1, <3>4, <3>10, <4>1
      <4>2. CASE j # i
        <5>1. j \in 1..m
          BY <2>1, <2>2, <4>2
        <5>2. RunNo(j) \in 1..c /\ runs[RunNo(j)].name = msr[j].arg.name
          BY <2>5, <3>11, <5>1
        <5> QED BY <2>5, <3>10, <5>2
      <4> QED BY <4>1, <4>2
    <3>12. RunsUpTo(x, i)
      BY <3>1, <3>8, <3>10, <3>11 DEF RunsUpTo, AreRuns
    <3> QED BY <1>4, <2>1, <2>2, <3>5, <3>9, <3>12
  <2> QED BY <2>6, <2>7
<1>7. 0..len \subseteq good
  BY <1>5, <1>6, UpTo
<1>8. len \in good
  BY <1>7
<1> QED BY <1>2, <1>4, <1>8

-----------------------------------------------------------------------------
(* The pieces a file is written of: lines, and those of the user in them.  *)

AreLines(p) == \E Y : p \in Seq(Y) /\ \A l \in Y : IsLine(l)

Piece(p, own) == AreLines(p) /\ LinesWithout(p, MadeAnew) = own

LEMMA LineIsPiece ==
  ASSUME NEW l, IsLine(l)
  PROVE  Piece(<<l>>, Own(l, MadeAnew))
<1>1. PICK p, Y : p = <<l>> /\ Y = {l}
  OBVIOUS
<1>2. p \in Seq(Y) /\ \A x \in Y : IsLine(x)
  BY <1>1
<1>3. LinesWithout(<<l>>, MadeAnew) = Own(l, MadeAnew)
  BY LinesOfOne
<1> QED BY <1>1, <1>2, <1>3 DEF Piece, AreLines

LEMMA NothingIsPiece == Piece(<<>>, <<>>)
<1>1. PICK p, Y : p = <<>> /\ Y = {}
  OBVIOUS
<1>2. p \in Seq(Y) /\ (\A x \in Y : IsLine(x)) /\ \A i \in DOMAIN p : FALSE
  BY <1>1
<1>3. LinesWithout(p, MadeAnew) = <<>>
  BY <1>2, LinesOfNone
<1> QED BY <1>1, <1>2, <1>3 DEF Piece, AreLines

LEMMA PiecesJoin ==
  ASSUME NEW p, NEW q, NEW own, NEW other, Piece(p, own), Piece(q, other)
  PROVE  Piece(p \o q, own \o other)
<1>1. PICK Y : p \in Seq(Y) /\ \A l \in Y : IsLine(l)
  BY DEF Piece, AreLines
<1>2. PICK Z : q \in Seq(Z) /\ \A l \in Z : IsLine(l)
  BY DEF Piece, AreLines
<1>3. PICK X : X = Y \cup Z
  OBVIOUS
<1>4. p \in Seq(X) /\ q \in Seq(X) /\ \A l \in X : IsLine(l)
  BY <1>1, <1>2, <1>3
<1>5. p \o q \in Seq(X)
  BY <1>4
<1>6. LinesWithout(p \o q, MadeAnew) = LinesWithout(p, MadeAnew) \o LinesWithout(q, MadeAnew)
  BY <1>4, LinesConcat
<1> QED BY <1>4, <1>5, <1>6, Zenon DEF Piece, AreLines

LEMMA PieceIs ==
  ASSUME NEW p, NEW own, Piece(p, own)
  PROVE  \E S : own \in Seq(S)
<1>1. PICK Y : p \in Seq(Y)
  BY DEF Piece, AreLines
<1> QED BY <1>1, LinesAre DEF Piece

LEMMA PieceAndMore ==
  ASSUME NEW p, NEW q, NEW own, Piece(p, own), Piece(q, <<>>)
  PROVE  Piece(p \o q, own)
<1>1. PICK S : own \in Seq(S)
  BY PieceIs
<1>2. own \o <<>> = own
  BY <1>1, ConcatEmptySeq
<1> QED BY <1>2, PiecesJoin

(* What the writer makes itself. *)
LEMMA MadeIsPiece ==
  ASSUME NEW word, NEW arg, word \in MadeAnew
  PROVE  Piece(<<Line(word, arg)>>, <<>>)
<1>1. PICK l : l = Line(word, arg)
  OBVIOUS
<1>2. l.word = word /\ l = [word |-> l.word, indent |-> l.indent, arg |-> l.arg]
  BY <1>1 DEF Line
<1>3. IsLine(l) /\ Own(l, MadeAnew) = <<>>
  BY <1>2 DEF IsLine, Own, MadeAnew
<1> QED BY <1>1, <1>3, LineIsPiece

LEMMA WordIsPiece ==
  ASSUME NEW word, word \in MadeAnew
  PROVE  Piece(<<Word(word)>>, <<>>)
BY MadeIsPiece DEF Word

LEMMA UsersWordIsPiece ==
  ASSUME NEW word, word # "RUN"
  PROVE  \E own : Piece(<<Word(word)>>, own)
<1>1. PICK l : l = Word(word)
  OBVIOUS
<1>2. l.word = word /\ l = [word |-> l.word, indent |-> l.indent, arg |-> l.arg]
  BY <1>1 DEF Word, Line
<1>3. IsLine(l)
  BY <1>2 DEF IsLine
<1> QED BY <1>1, <1>3, LineIsPiece

LEMMA ResultIsPiece ==
  ASSUME NEW e
  PROVE  Piece(WriteResult(e), <<>>)
<1>1. PICK a, b, c :
        /\ a = <<Line("result", [chisq |-> mode.chisq, of |-> fStatistic.min])>>
        /\ b = IF e /\ fStatistic.expected # Absent
                 THEN <<Line("expected", [chisq |-> mode.chisq, of |-> fStatistic.expected])>> ELSE <<>>
        /\ c = IF e /\ fStatistic.perRun THEN <<Word("perRun")>> ELSE <<>>
  OBVIOUS
<1>2. WriteResult(e) = (a \o b) \o c
  BY <1>1 DEF WriteResult
<1>3. "result" \in MadeAnew /\ "expected" \in MadeAnew /\ "perRun" \in MadeAnew
  BY DEF MadeAnew
<1>4. Piece(a, <<>>)
  BY <1>1, <1>3, MadeIsPiece
<1>5. Piece(b, <<>>)
  BY <1>1, <1>3, MadeIsPiece, NothingIsPiece
<1>6. Piece(c, <<>>)
  BY <1>1, <1>3, WordIsPiece, NothingIsPiece
<1>7. Piece(a \o b, <<>>)
  BY <1>4, <1>5, PieceAndMore
<1> QED BY <1>2, <1>6, <1>7, PieceAndMore

-----------------------------------------------------------------------------
(* The lines one by one. *)

(* Wherever the names of the runs are those of the file.                   *)
NamesKept ==
  \A i \in DOMAIN msr : msr[i].word = "RUN" => fRuns[RunNo(i)].name = msr[i].arg.name

LEMMA T0IsPiece ==
  ASSUME NEW run
  PROVE  Piece(WriteT0(run), <<>>)
<1>1. "t0" \in MadeAnew
  BY DEF MadeAnew
<1> QED BY <1>1, MadeIsPiece DEF WriteT0

LEMMA FitIsPiece ==
  ASSUME NEW i, NEW run
  PROVE  Piece(WriteFit(i, run), <<>>)
<1>1. PICK a, b : /\ a = IF T0TagMissing(i) /\ run.t0 > 0 THEN WriteT0(run) ELSE <<>>
                  /\ b = <<Line("fit", WriteRange(run.range))>>
  OBVIOUS
<1>2. WriteFit(i, run) = a \o b
  BY <1>1 DEF WriteFit
<1>3. Piece(a, <<>>)
  BY <1>1, T0IsPiece, NothingIsPiece
<1>4. "fit" \in MadeAnew
  BY DEF MadeAnew
<1>5. Piece(b, <<>>)
  BY <1>1, <1>4, MadeIsPiece
<1> QED BY <1>2, <1>3, <1>5, PieceAndMore

LEMMA RunLineIsPiece ==
  ASSUME NEW i \in DOMAIN msr, IsLine(msr[i])
  PROVE  \E own : Piece(WriteRunLine(i), own) /\ (NamesKept => own = Own(msr[i], MadeAnew))
<1>1. PICK run : run = fRuns[RunNo(i)]
  OBVIOUS
<1>2. CASE msr[i].word = "RUN"
  <2>1. PICK l : l = Line("RUN", [name |-> run.name])
    OBVIOUS
  <2>2. WriteRunLine(i) = <<l>>
    BY <1>1, <1>2, <2>1 DEF WriteRunLine
  <2>3. l.word = "RUN" /\ l.arg = [name |-> run.name]
        /\ l = [word |-> l.word, indent |-> l.indent, arg |-> l.arg]
    BY <2>1 DEF Line
  <2>4. IsLine(l)
    BY <2>3 DEF IsLine
  <2>5. ASSUME NamesKept PROVE l.arg = msr[i].arg
    <3>1. msr[i].arg = [name |-> msr[i].arg.name]
      BY <1>2 DEF IsLine
    <3>2. run.name = msr[i].arg.name
      BY <1>1, <1>2, <2>5 DEF NamesKept
    <3> QED BY <2>3, <3>1, <3>2
  <2>6. NamesKept => Own(l, MadeAnew) = Own(msr[i], MadeAnew)
    BY <1>2, <2>3, <2>5 DEF Own
  <2> QED BY <2>2, <2>4, <2>6, LineIsPiece
<1>3. CASE msr[i].word = "t0"
  <2>1. WriteRunLine(i) = WriteT0(run)
    BY <1>1, <1>3 DEF WriteRunLine
  <2>2. Own(msr[i], MadeAnew) = <<>>
    BY <1>3 DEF Own, MadeAnew
  <2> QED BY <2>1, <2>2, T0IsPiece
<1>4. CASE msr[i].word = "fit"
  <2>1. WriteRunLine(i) = WriteFit(i, run)
    BY <1>1, <1>4 DEF WriteRunLine
  <2>2. Own(msr[i], MadeAnew) = <<>>
    BY <1>4 DEF Own, MadeAnew
  <2> QED BY <2>1, <2>2, FitIsPiece
<1>5. CASE msr[i].word \notin {"RUN", "t0", "fit"}
  <2>1. WriteRunLine(i) = <<msr[i]>>
    BY <1>5 DEF WriteRunLine
  <2> QED BY <2>1, LineIsPiece
<1> QED BY <1>2, <1>3, <1>4, <1>5

LEMMA StatisticLineIsPiece ==
  ASSUME NEW i \in DOMAIN msr, IsLine(msr[i]), NEW e
  PROVE  Piece(WriteStatisticLine(i, e), Own(msr[i], MadeAnew))
<1>1. \A w \in {"STATISTIC", "result", "failed", "expected", "perRun"} : w \in MadeAnew
  BY DEF MadeAnew
<1>2. msr[i].word \in {"STATISTIC", "result", "failed", "expected", "perRun"}
        => Own(msr[i], MadeAnew) = <<>>
  BY <1>1 DEF Own
<1>3. CASE msr[i].word = "STATISTIC"
  <2>1. WriteStatisticLine(i, e) = <<Word("STATISTIC")>>
    BY <1>3 DEF WriteStatisticLine
  <2> QED BY <1>1, <1>2, <1>3, <2>1, WordIsPiece
<1>4. CASE msr[i].word \in {"result", "failed"}
  <2>1. WriteStatisticLine(i, e) = IF fStatistic.valid THEN WriteResult(e) ELSE <<Word("failed")>>
    BY <1>4 DEF WriteStatisticLine
  <2> QED BY <1>1, <1>2, <1>4, <2>1, WordIsPiece, ResultIsPiece
<1>5. CASE msr[i].word \in {"expected", "perRun"}
  <2>1. WriteStatisticLine(i, e) = <<>>
    BY <1>5 DEF WriteStatisticLine
  <2> QED BY <1>2, <1>5, <2>1, NothingIsPiece
<1>6. CASE msr[i].word \notin {"STATISTIC", "result", "failed", "expected", "perRun"}
  <2>1. WriteStatisticLine(i, e) = <<msr[i]>>
    BY <1>6 DEF WriteStatisticLine
  <2> QED BY <2>1, LineIsPiece
<1> QED BY <1>3, <1>4, <1>5, <1>6

LEMMA LineUnindented ==
  ASSUME NEW l, IsLine(l), NEW m, m = [l EXCEPT !.indent = FALSE]
  PROVE  m.word = l.word /\ IsLine(m) /\ Own(m, MadeAnew) = Own(l, MadeAnew)
<1>1. PICK w, b, a : l = [word |-> w, indent |-> b, arg |-> a]
  BY DEF IsLine
<1>2. m = [word |-> w, indent |-> FALSE, arg |-> a]
  BY <1>1
<1>3. /\ l.word = w /\ l.arg = a
      /\ m.word = w /\ m.arg = a /\ m.indent = FALSE
  BY <1>1, <1>2
<1>4. m = [word |-> m.word, indent |-> m.indent, arg |-> m.arg]
  BY <1>2, <1>3
<1> QED BY <1>3, <1>4 DEF IsLine, Own

LEMMA LineIsWritten ==
  ASSUME NEW i \in DOMAIN msr, IsLine(msr[i]), NEW e
  PROVE  \E own : Piece(WriteLine(i, e), own) /\ (NamesKept => own = Own(msr[i], MadeAnew))
<1>1. CASE Section(i) = "FITPARAMETER" /\ msr[i].word = "param"
  <2>1. PICK arg : <<Line("param", arg)>> = <<WriteParam(msr[i].arg.no, fParam[msr[i].arg.no])>>
    BY DEF WriteParam
  <2>2. WriteLine(i, e) = <<Line("param", arg)>>
    BY <1>1, <2>1 DEF WriteLine
  <2>3. "param" \in MadeAnew
    BY DEF MadeAnew
  <2>4. Own(msr[i], MadeAnew) = <<>>
    BY <1>1, <2>3 DEF Own
  <2> QED BY <2>2, <2>3, <2>4, MadeIsPiece
<1>2. CASE Section(i) = "RUN"
  <2>1. WriteLine(i, e) = WriteRunLine(i)
    BY <1>2 DEF WriteLine
  <2> QED BY <2>1, RunLineIsPiece
<1>3. CASE Section(i) = "STATISTIC"
  <2>1. WriteLine(i, e) = WriteStatisticLine(i, e)
    BY <1>3 DEF WriteLine
  <2> QED BY <2>1, StatisticLineIsPiece
<1>4. CASE /\ ~(Section(i) = "FITPARAMETER" /\ msr[i].word = "param")
           /\ Section(i) # "RUN" /\ Section(i) # "STATISTIC"
  <2>1. PICK l : l = IF i = 1 THEN [msr[i] EXCEPT !.indent = FALSE] ELSE msr[i]
    OBVIOUS
  <2>2. WriteLine(i, e) = <<l>>
    BY <1>4, <2>1 DEF WriteLine
  <2>5. IsLine(l) /\ Own(l, MadeAnew) = Own(msr[i], MadeAnew)
    BY <2>1, LineUnindented
  <2> QED BY <2>2, <2>5, LineIsPiece
<1> QED BY <1>1, <1>2, <1>3, <1>4

LEMMA FlatIs ==
  ASSUME NEW X, NEW seqs \in Seq(Seq(X))
  PROVE  FlattenSeq(seqs) \in Seq(X)
<1>1. PICK f : Flattening(seqs, f, X)
  BY Flattens
<1>2. PICK len, S : len \in Nat /\ len = Len(seqs) /\ S = Seq(X)
  OBVIOUS
<1>3. f \in [0..len -> S] /\ len \in 0..len /\ FlattenSeq(seqs) = f[len]
  BY <1>1, <1>2 DEF Flattening
<1> QED BY <1>2, <1>3

(* The title is the first line of every file that is written. *)
LEMMA TitleIsWritten ==
  ASSUME 1 \in DOMAIN msr, IsLine(msr[1]), msr[1].word = "title", NEW e
  PROVE  \E l : WriteLine(1, e) = <<l>> /\ l.word = "title"
<1>1. PICK s : s = {j \in 1..1 : WrittenAsTag(msr[j])}
  OBVIOUS
<1>2. s = {}
  BY <1>1 DEF WrittenAsTag, Tags
<1>3. SelectLastInSubSeq(msr, 1, 1, WrittenAsTag) = 0
  BY <1>1, <1>2, Zenon DEF SelectLastInSubSeq
<1>4. Section(1) = "TITLE"
  BY <1>3 DEF Section
<1>5. WriteLine(1, e) = <<[msr[1] EXCEPT !.indent = FALSE]>>
  BY <1>4 DEF WriteLine
<1>6. [msr[1] EXCEPT !.indent = FALSE].word = "title"
  BY LineUnindented
<1> QED BY <1>5, <1>6

LEMMA FirstOfPieces ==
  ASSUME NEW X, NEW seqs \in Seq(Seq(X)), NEW len \in Nat, len = Len(seqs), len >= 1,
         NEW l, seqs[1] = <<l>>
  PROVE  Len(FlattenSeq(seqs)) >= 1 /\ FlattenSeq(seqs)[1] = l
<1>1. PICK S : S = Seq(X)
  OBVIOUS
<1>2. PICK f : Flattening(seqs, f, X)
  BY Flattens
<1>3. /\ f \in [0..len -> S]
      /\ f[0] = <<>>
      /\ f[len] = FlattenSeq(seqs)
      /\ \A i \in 1..len : f[i] = f[i - 1] \o seqs[i]
  BY <1>1, <1>2 DEF Flattening
<1>4. \A i \in 1..len : seqs[i] \in S
  <2>1. seqs \in Seq(S)
    BY <1>1
  <2> QED BY <2>1
<1>5. PICK good : good = {m \in 0..len : m = 0 \/ (Len(f[m]) >= 1 /\ f[m][1] = l)}
  OBVIOUS
<1>6. 0 \in good
  BY <1>5
<1>7. ASSUME NEW m \in 0..(len - 1), m \in good PROVE m + 1 \in good
  <2>1. m + 1 \in 1..len /\ m + 1 \in 0..len /\ m \in 0..len /\ (m + 1) - 1 = m
    OBVIOUS
  <2>2. PICK a, b, c : a = f[m] /\ b = seqs[m + 1] /\ c = f[m + 1]
    OBVIOUS
  <2>3. a \in Seq(X) /\ b \in Seq(X) /\ c = a \o b
    BY <1>1, <1>3, <1>4, <2>1, <2>2
  <2>4. Len(c) >= 1 /\ c[1] = l
    <3>1. CASE m = 0
      <4>1. a = <<>> /\ b = <<l>>
        BY <1>3, <2>1, <2>2, <3>1
      <4>2. c = b
        BY <2>3, <4>1, ConcatEmptySeq
      <4> QED BY <4>1, <4>2
    <3>2. CASE m # 0
      <4>1. Len(a) >= 1 /\ a[1] = l
        BY <1>5, <1>7, <2>2, <3>2
      <4> QED BY <2>3, <4>1
    <3> QED BY <3>1, <3>2
  <2> QED BY <1>5, <2>1, <2>2, <2>4
<1>8. 0..len \subseteq good
  BY <1>6, <1>7, UpTo
<1>9. len \in good
  BY <1>8
<1> QED BY <1>3, <1>5, <1>9

LEMMA EndIsPiece ==
  ASSUME NEW e
  PROVE  \E own : Piece(WriteEndOfFile, own) /\ \E other : Piece(WriteMissing(e), other)
<1>1. \E own : Piece(WriteEndOfFile, own)
  <2>1. \E own : Piece(<<Word("blank")>>, own)
    BY UsersWordIsPiece
  <2> QED BY <2>1, NothingIsPiece DEF WriteEndOfFile
<1>2. \E other : Piece(WriteMissing(e), other)
  <2>1. PICK a, b, c :
          /\ a = IF StatisticBlockFound THEN <<>> ELSE <<Word("comment")>>
          /\ b = <<Word("STATISTIC")>>
          /\ c = IF fStatistic.valid THEN WriteResult(e)
                 ELSE <<Word(IF StatisticBlockFound THEN "failed4" ELSE "failed")>>
    OBVIOUS
  <2>2. WriteMissing(e) = <<>> \/ WriteMissing(e) = (a \o b) \o c
    BY <2>1 DEF WriteMissing
  <2>3. \E own : Piece(a, own)
    <3>1. \E own : Piece(<<Word("comment")>>, own)
      BY UsersWordIsPiece
    <3> QED BY <2>1, <3>1, NothingIsPiece
  <2>4. \E own : Piece(b, own)
    BY <2>1, UsersWordIsPiece
  <2>5. \E own : Piece(c, own)
    <3>1. \E own : Piece(<<Word("failed4")>>, own)
      BY UsersWordIsPiece
    <3>2. \E own : Piece(<<Word("failed")>>, own)
      BY UsersWordIsPiece
    <3> QED BY <2>1, <3>1, <3>2, ResultIsPiece
  <2>6. PICK x, y, z : Piece(a, x) /\ Piece(b, y) /\ Piece(c, z)
    BY <2>3, <2>4, <2>5
  <2>7. Piece((a \o b) \o c, (x \o y) \o z)
    BY <2>6, PiecesJoin
  <2> QED BY <2>2, <2>7, NothingIsPiece
<1> QED BY <1>1, <1>2

LEMMA PrefixOfConcat ==
  ASSUME NEW S, NEW s \in Seq(S), NEW t \in Seq(S)
  PROVE  IsPrefix(s, s \o t)
<1>1. PICK u : u = s \o t
  OBVIOUS
<1>2. u \in Seq(S) /\ Len(s) <= Len(u) /\ Len(s) \in Nat /\ \A i \in 1..Len(s) : u[i] = s[i]
  BY <1>1
<1>3. SubSeq(s, 1, Len(s)) = SubSeq(u, 1, Len(s))
  BY <1>2
<1> QED BY <1>1, <1>2, <1>3 DEF IsPrefix

LEMMA FileIsWritten ==
  ASSUME IsFile(msr), NEW e
  PROVE  /\ IsFile(Written(e))
         /\ NamesKept => IsPrefix(LinesWithout(msr, MadeAnew), LinesWithout(Written(e), MadeAnew))
<1>1. PICK len \in Nat : len = Len(msr) /\ DOMAIN msr = 1..len /\ len >= 1
  BY DEF IsFile
<1>2. \A i \in 1..len : IsLine(msr[i])
  BY <1>1 DEF IsFile
<1>3. PICK seqs : seqs = [i \in DOMAIN msr |-> WriteLine(i, e)]
  OBVIOUS
<1>4. \A i \in 1..len : \E own : Piece(seqs[i], own) /\ (NamesKept => own = Own(msr[i], MadeAnew))
  BY <1>1, <1>2, <1>3, LineIsWritten
<1>5. PICK of : of = [i \in 1..len |-> {seqs[i][k] : k \in DOMAIN seqs[i]}]
  OBVIOUS
<1>6. PICK X : X = (UNION {of[i] : i \in 1..len}) \cup {msr[i] : i \in 1..len}
  OBVIOUS
<1>7. ASSUME NEW i \in 1..len, NEW k \in DOMAIN seqs[i] PROVE seqs[i][k] \in X
  <2>1. seqs[i][k] \in of[i]
    BY <1>5
  <2> QED BY <1>6, <2>1, Zenon
<1>8. ASSUME NEW i \in 1..len PROVE msr[i] \in X
  BY <1>6, Zenon
<1>9. ASSUME NEW i \in 1..len
      PROVE  seqs[i] \in Seq(X) /\ \A k \in DOMAIN seqs[i] : IsLine(seqs[i][k])
  <2>1. PICK Y : seqs[i] \in Seq(Y) /\ \A l \in Y : IsLine(l)
    BY <1>4 DEF Piece, AreLines
  <2>2. PICK p : p = seqs[i]
    OBVIOUS
  <2>3. \A k \in DOMAIN p : p[k] \in X
    BY <1>7, <2>2
  <2>4. p \in Seq(X)
    BY <2>1, <2>2, <2>3
  <2> QED BY <2>1, <2>2, <2>4
<1>10. ASSUME NEW l \in X PROVE IsLine(l)
  <2>1. CASE l \in {msr[i] : i \in 1..len}
    BY <1>2, <2>1
  <2>2. CASE l \in UNION {of[i] : i \in 1..len}
    <3>1. PICK i \in 1..len : l \in of[i]
      BY <2>2, Zenon
    <3>2. l \in {seqs[i][k] : k \in DOMAIN seqs[i]}
      BY <1>5, <3>1, Zenon
    <3>3. PICK k \in DOMAIN seqs[i] : l = seqs[i][k]
      BY <3>2, Zenon
    <3> QED BY <1>9, <3>3
  <2> QED BY <1>6, <2>1, <2>2, Zenon
<1>11. msr \in Seq(X)
  <2>1. \A i \in 1..len : msr[i] \in X
    BY <1>8
  <2> QED BY <1>1, <2>1 DEF IsFile
<1>12. seqs \in Seq(Seq(X)) /\ Len(seqs) = len
  <2>1. PICK S : S = Seq(X)
    OBVIOUS
  <2>2. seqs = [i \in 1..len |-> seqs[i]] /\ \A i \in 1..len : seqs[i] \in S
    BY <1>1, <1>3, <1>9, <2>1
  <2> QED BY <2>1, <2>2
<1>13. PICK flat : flat = FlattenSeq(seqs)
  OBVIOUS
<1>14. flat \in Seq(X)
  BY <1>12, <1>13, FlatIs
<1>15. NamesKept => LinesWithout(flat, MadeAnew) = LinesWithout(msr, MadeAnew)
  <2>1. ASSUME NamesKept PROVE \A i \in 1..Len(msr) : LinesWithout(seqs[i], MadeAnew) = Own(msr[i], MadeAnew)
    BY <1>1, <1>4, <2>1 DEF Piece
  <2> QED BY <1>1, <1>11, <1>12, <1>13, <2>1, LinesOfPieces
<1>16. Len(flat) >= 1 /\ flat[1].word = "title"
  <2>1. 1 \in DOMAIN msr /\ msr[1].word = "title"
    BY <1>1 DEF IsFile
  <2>2. PICK l : WriteLine(1, e) = <<l>> /\ l.word = "title"
    BY <1>1, <1>2, <2>1, TitleIsWritten
  <2>3. seqs[1] = <<l>>
    BY <1>3, <2>1, <2>2
  <2> QED BY <1>1, <1>12, <1>13, <2>2, <2>3, FirstOfPieces
<1>17. PICK a, b : a = WriteEndOfFile /\ b = WriteMissing(e)
  OBVIOUS
<1>18. PICK own, other : Piece(a, own) /\ Piece(b, other)
  BY <1>17, EndIsPiece
<1>19. Written(e) = (flat \o a) \o b
  BY <1>3, <1>13, <1>17, Zenon DEF Written
<1>20. PICK f : f = (flat \o a) \o b
  OBVIOUS
<1>21. Piece(flat, LinesWithout(flat, MadeAnew))
  BY <1>10, <1>14 DEF Piece, AreLines
<1>22. Piece(f, (LinesWithout(flat, MadeAnew) \o own) \o other)
  BY <1>18, <1>20, <1>21, PiecesJoin
<1>23. IsFile(f)
  <2>1. PICK A, B : a \in Seq(A) /\ b \in Seq(B)
    BY <1>18 DEF Piece, AreLines
  <2>2. PICK Z : Z = X \cup A \cup B
    OBVIOUS
  <2>3. flat \in Seq(Z) /\ a \in Seq(Z) /\ b \in Seq(Z)
    BY <1>14, <2>1, <2>2
  <2>4. PICK g : g = flat \o a
    OBVIOUS
  <2>5. g \in Seq(Z) /\ Len(g) >= 1 /\ g[1].word = "title"
    BY <1>16, <2>3, <2>4
  <2>6. f = g \o b
    BY <1>20, <2>4
  <2>7. f \in Seq(Z) /\ Len(f) >= 1 /\ f[1].word = "title"
    BY <2>3, <2>5, <2>6
  <2>8. PICK Y : f \in Seq(Y) /\ \A l \in Y : IsLine(l)
    BY <1>22 DEF Piece, AreLines
  <2>9. PICK R : R = {f[i] : i \in DOMAIN f}
    OBVIOUS
  <2>10. f \in Seq(R) /\ \A i \in DOMAIN f : IsLine(f[i])
    BY <2>8, <2>9
  <2> QED BY <2>7, <2>9, <2>10 DEF IsFile
<1>24. ASSUME NamesKept PROVE IsPrefix(LinesWithout(msr, MadeAnew), LinesWithout(f, MadeAnew))
  <2>1. PICK u : u = LinesWithout(flat, MadeAnew)
    OBVIOUS
  <2>2. PICK S : u \in Seq(S)
    BY <1>21, <2>1, PieceIs
  <2>3. PICK A : own \in Seq(A)
    BY <1>18, PieceIs
  <2>4. PICK B : other \in Seq(B)
    BY <1>18, PieceIs
  <2>5. PICK Z : Z = S \cup A \cup B
    OBVIOUS
  <2>6. u \in Seq(Z) /\ own \in Seq(Z) /\ other \in Seq(Z)
    BY <2>2, <2>3, <2>4, <2>5
  <2>7. (u \o own) \o other = u \o (own \o other)
    BY <2>6, ConcatThird
  <2>8. own \o other \in Seq(Z)
    BY <2>6
  <2>9. IsPrefix(u, u \o (own \o other))
    BY <2>6, <2>8, PrefixOfConcat
  <2>10. LinesWithout(f, MadeAnew) = (u \o own) \o other
    BY <1>22, <2>1 DEF Piece
  <2> QED BY <1>15, <1>24, <2>1, <2>7, <2>9, <2>10
<1> QED BY <1>19, <1>20, <1>23, <1>24

-----------------------------------------------------------------------------
(* Session after session. *)

(* The file is one, and under a file whose tags are all in the first       *)
(* column the handler has the runs by their names.                         *)
MsrInv ==
  /\ IsFile(msr)
  /\ phase \in {"read", "fitted"} /\ Plain(msr) => AreRuns(fRuns) /\ RunsUpTo(fRuns, Len(msr))

LEMMA MsrInitInv == MsrInit => MsrInv
BY FilesAssumption DEF MsrInit, MsrInv

LEMMA FittedRuns ==
  ASSUME NEW len, RunsUpTo(fRuns, len)
  PROVE  RunsUpTo(PreparedRuns, len)
<1>1. PICK Y : fRuns \in Seq(Y) /\ \A r \in Y : IsRun(r)
  BY DEF RunsUpTo, AreRuns
<1>2. PICK c \in Nat : c = Len(fRuns) /\ DOMAIN fRuns = 1..c
  BY <1>1
<1>3. PICK x : x = PreparedRuns
  OBVIOUS
<1>4. x = [r \in 1..c |-> [fRuns[r] EXCEPT !.t0 = IF @ = 0 THEN 1 ELSE @]]
  BY <1>2, <1>3 DEF PreparedRuns
<1>5. \A r \in 1..c : IsRun(fRuns[r])
  BY <1>1, <1>2
<1>6. \A r \in 1..c : IsRun(x[r]) /\ x[r].name = fRuns[r].name
  BY <1>4, <1>5, RunStays
<1>7. PICK Z : Z = {x[r] : r \in 1..c}
  OBVIOUS
<1>8. x \in [1..c -> Z] /\ \A r \in Z : IsRun(r)
  BY <1>4, <1>6, <1>7
<1>9. x \in Seq(Z) /\ Len(x) = c
  BY <1>8
<1>10. AreRuns(x)
  BY <1>8, <1>9 DEF AreRuns
<1> QED BY <1>2, <1>3, <1>6, <1>9, <1>10 DEF RunsUpTo

LEMMA MsrNextInv ==
  ASSUME MsrInv, [MsrNext]_msrVars
  PROVE  MsrInv'
<1>1. CASE Read
  <2>1. IsFile(msr') /\ msr' = msr /\ fRuns' = ReadRuns(msr)
    BY <1>1 DEF Read, MsrInv
  <2>2. PICK len \in Nat : len = Len(msr) /\ DOMAIN msr = 1..len /\ msr[1].word = "title"
    BY DEF MsrInv, IsFile
  <2>3. Plain(msr) => RunsUpTo(ReadRuns(msr), len)
    BY <2>2, NamesAreRead
  <2> QED BY <2>1, <2>2, <2>3 DEF MsrInv, RunsUpTo, RunNo, AreRuns
<1>2. CASE Refuse
  BY <1>2 DEF Refuse, MsrInv
<1>3. CASE phase = "read" /\ fRuns' = PreparedRuns /\ msr' = msr /\ phase' = "fitted"
  <2>1. Plain(msr) => RunsUpTo(PreparedRuns, Len(msr))
    BY <1>3, FittedRuns DEF MsrInv
  <2> QED BY <1>3, <2>1 DEF MsrInv, RunsUpTo, RunNo, AreRuns
<1>4. CASE Write
  <2>1. PICK e \in BOOLEAN : msr' = Written(e)
    BY <1>4 DEF Write
  <2>2. IsFile(Written(e))
    BY FileIsWritten DEF MsrInv
  <2> QED BY <1>4, <2>1, <2>2 DEF Write, MsrInv
<1>5. CASE UNCHANGED msrVars
  BY <1>5 DEF MsrInv, msrVars, RunsUpTo, RunNo
<1>6. FitConverges \/ FitFails \/ FitRejected
        => phase = "read" /\ fRuns' = PreparedRuns /\ msr' = msr /\ phase' = "fitted"
  BY DEF FitConverges, FitFails, FitRejected
<1> QED BY <1>1, <1>2, <1>3, <1>4, <1>5, <1>6 DEF MsrNext, MsrTerminated

LEMMA WriteKeeps ==
  ASSUME MsrInv, MsrNext, Writes, Plain(msr)
  PROVE  IsPrefix(LinesWithout(msr, MadeAnew), LinesWithout(msr', MadeAnew))
<1>1. Write
  BY DEF Writes, MsrNext, Read, Refuse, FitConverges, FitFails, FitRejected, MsrTerminated, msrVars
<1>2. PICK e \in BOOLEAN : msr' = Written(e)
  BY <1>1 DEF Write
<1>3. IsFile(msr) /\ RunsUpTo(fRuns, Len(msr)) /\ DOMAIN msr = 1..Len(msr)
  BY DEF MsrInv, Writes, IsFile
<1>4. NamesKept
  BY <1>3 DEF NamesKept, RunsUpTo
<1> QED BY <1>2, <1>3, <1>4, FileIsWritten

(* KeepsUsersLines for every file and every number of sessions: as long as *)
(* its tags are in the first column, a session never removes, changes or   *)
(* reorders what is the user's in a msr-file.                              *)
THEOREM UsersLinesStay == MsrSpec => KeepsUsersLines
<1>1. MsrInit => MsrInv
  BY MsrInitInv
<1>2. MsrInv /\ [MsrNext]_msrVars => MsrInv'
  BY MsrNextInv
<1>3. MsrInv /\ [MsrNext]_msrVars
        => [Writes /\ Plain(msr)
              => IsPrefix(LinesWithout(msr, MadeAnew), LinesWithout(msr', MadeAnew))]_msrVars
  BY WriteKeeps
<1> QED BY <1>1, <1>2, <1>3, PTL DEF MsrSpec, KeepsUsersLines, UsersLines

=============================================================================
