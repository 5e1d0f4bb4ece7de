------------------------------ MODULE Msr2Data ------------------------------
(* msr2data: for a list of runs it makes msr-files from a template, calls  *)
(* musrfit for each of them and collects the results in a db-file.  In the *)
(* global modes one file is made, fitted and read for all of them.         *)
(*                                                                         *)
(* musrfit is what Musrfit promises of it: it leaves the msr-file alone    *)
(* (refused), with new values and valid (converged), with the old values   *)
(* and not valid, or in pieces (killed while the files are swapped).       *)
EXTENDS GlobalMsr

CONSTANTS Options,      \* the command lines
          InitialDirs,  \* the msr-files and the db-file at the beginning
          MaxSessions   \* bound: calls of msr2data

(* A msr-file has its parameters and may be valid.  The header that an     *)
(* earlier call has written is in front, and its rows are older.           *)
Document(doc) == {"par", "valid"} \subseteq DOMAIN doc /\ doc.par \in Seq(ToSet(doc.par))
RunsOf(o) == ToSet(o.list) \cup ({o.temp} \cap (Nat \ {0}))
DirectoryOf(names, dir) ==
  /\ names \subseteq DOMAIN dir
  /\ \A n \in DOMAIN dir : dir[n] \notin {None, Broken} => Document(dir[n])
OlderDb(lines) ==
  lines # None =>
    /\ lines \in Seq(ToSet(lines))
    /\ \A k \in DOMAIN lines :
         /\ lines[k].kind = "header" /\ lines[k].auto => k = 1
         /\ lines[k].kind = "row" => lines[k].s = 0
ASSUME Msr2DataAssumption ==
  /\ Options # {}
  /\ \A o \in Options : o.list \in Seq(Nat) /\ o.temp \in Int
  /\ \A d \in InitialDirs :
       /\ \A o \in Options : DirectoryOf({"msr", "one", "global"} \X RunsOf(o), d[1])
       /\ OlderDb(d[2])

VARIABLES files,    \* the msr-files
          db,       \* the db-file: None, or its header lines and rows
          pc,
          session,  \* number of this call
          opt,      \* its command line
          i,        \* fRunVectorIter, as an index
          firstrun, oldtemp,
          digits,   \* fRunNumberDigits
          msr,      \* fMsrHandler: None, or what it has read
          line,     \* fRunListFileStream: the lines read of the run list
          num,      \* fNumGlobalParam, fNumSpecParam, fNumTempRunBlocks
          header    \* fHeaderWritten

prog == <<opt, i, firstrun, oldtemp, digits, msr, line, num, header>>
vars == <<files, db, pc, session, prog>>

Msr(run) == <<"msr", run>>
One(run) == <<"one", run>>
GlobalName == <<"global", opt.list[1]>>
Blank == [kind |-> "blank"]

Unknown == [glob |-> 0, spec |-> 0, blocks |-> 0]

Init ==
  /\ \E d \in InitialDirs : files = d[1] /\ db = d[2]
  /\ pc = "done" /\ session = 0
  /\ opt = CHOOSE o \in Options : TRUE
  /\ i = 1 /\ firstrun = TRUE /\ oldtemp = 0 /\ digits = Width
  /\ msr = None /\ line = 0 /\ num = Unknown /\ header = FALSE

GoTo(l) == pc' = l
N == Len(opt.list)
Present == opt.list[i]        \* GetPresentRun
Exists(name) == files[name] # None
Readable(name) == files[name] \notin {None, Broken}
Put(name, doc) == files' = [files EXCEPT ![name] = doc]

-----------------------------------------------------------------------------
(* Start. *)

(* DetermineRunNumberDigits: the file that shows how run numbers are       *)
(* written is the template, else the first one of the list there is.       *)
FirstOf(o) == IF o.temp > 0 THEN o.temp ELSE o.list[1]
FormatFile(o) ==
  IF Exists(Msr(FirstOf(o))) THEN Msr(FirstOf(o))
  ELSE IF FirstOf(o) # o.list[1] THEN None
  ELSE IF o.global # "no"
       THEN IF Exists(<<"global", o.list[1]>>) THEN <<"global", o.list[1]>> ELSE None
  ELSE IF \E a \in DOMAIN o.list : Exists(Msr(o.list[a]))
       THEN Msr(o.list[Min({a \in DOMAIN o.list : Exists(Msr(o.list[a]))})])
  ELSE None

(* A file in pieces may have lost its RUN block, or not.                   *)
FormatFound(o) ==
  LET f == FormatFile(o)
  IN f # None /\ (files[f] # Broken => files[f].blocks[1].data = f[2])

(* CheckRunNumbersInRange: since 2023 one digit more is let through.       *)
InRange(o, d) == \A a \in DOMAIN o.list : o.list[a] < 10 ^ (d + 1)

Accepted(o) == FormatFound(o) /\ InRange(o, DigitsOf(FormatFile(o)[2]))
MayReject(o) == ~Accepted(o) \/ files[FormatFile(o)] = Broken

(* The option new truncates the file.                                      *)
Emptied(o) == IF o.out /\ o.new /\ db # None THEN <<>> ELSE db

Start ==
  /\ pc \in {"done", "error", "crashed"} /\ session < MaxSessions
  /\ session' = session + 1
  /\ opt' \in Options
  /\ i' = 1 /\ firstrun' = TRUE /\ oldtemp' = 0
  /\ msr' = None /\ line' = 0 /\ num' = Unknown /\ header' = FALSE
  /\ \/ /\ Accepted(opt')
        /\ digits' = DigitsOf(FormatFile(opt')[2])
        /\ db' = Emptied(opt')
        /\ GoTo(IF opt'.global = "no" THEN "run" ELSE "global")
     \/ /\ MayReject(opt') = TRUE
        /\ GoTo("error") /\ digits' = Width /\ UNCHANGED db
  /\ UNCHANGED files

(* new stands for a header if none is asked for.                           *)
WithHeader == IF opt.new /\ opt.header = "auto" THEN "header" ELSE opt.header

-----------------------------------------------------------------------------
(* musrfit, called by system: whether it has failed is not asked.          *)
Fitted(name, doc) ==
  [doc EXCEPT !.valid = TRUE,
              !.par = [k \in DOMAIN @ |->
                [name |-> @[k].name, run |-> @[k].run, val |-> [of |-> name, s |-> session]]]]

Musrfit(name) ==
  \/ UNCHANGED files
  \/ Readable(name) /\ \/ Put(name, Fitted(name, files[name]))
                       \/ Put(name, NotConverged(files[name]))
                       \/ Put(name, Broken)

-----------------------------------------------------------------------------
(* One msr-file for each run. *)

Template == IF firstrun \/ ~opt.chain THEN opt.temp ELSE oldtemp
AfterPrepare == IF opt.onlyInput THEN "read" ELSE "fit"

(* PrepareNewInputFile, unless the template is the run itself.             *)
Prepare ==
  /\ pc = "run" /\ i <= N /\ opt.temp > 0
  /\ firstrun' = FALSE /\ oldtemp' = Present
  /\ IF Template = Present THEN GoTo(AfterPrepare) /\ UNCHANGED files
     ELSE IF ~Exists(Msr(Template)) THEN GoTo("error") /\ UNCHANGED files
     ELSE /\ Put(Msr(Present), NewInput(files[Msr(Template)], Template, Present, digits))
          /\ GoTo(AfterPrepare)
  /\ UNCHANGED <<db, session, opt, i, digits, msr, line, num, header>>

NoTemplate ==
  /\ pc = "run" /\ i <= N /\ opt.temp <= 0
  /\ GoTo(IF opt.temp < 0 THEN "fit" ELSE "read")
  /\ UNCHANGED <<files, db, session, prog>>

Fit ==
  /\ pc = "fit"
  /\ Musrfit(Msr(Present))
  /\ GoTo("read")
  /\ UNCHANGED <<db, session, prog>>

(* "if the msr-file cannot be read, write no output but proceed"           *)
ReadMsrFileEnds ==   \* mutant
  /\ pc = "read"
  /\ IF opt.out /\ Readable(Msr(Present))
     THEN msr' = files[Msr(Present)] /\ GoTo("write") /\ UNCHANGED i
     ELSE i' = N + 1 /\ GoTo("run") /\ UNCHANGED msr
  /\ UNCHANGED <<files, db, session, opt, firstrun, oldtemp, digits, line, num, header>>
ReadMsrFile ==
  /\ pc = "read"
  /\ IF opt.out /\ Readable(Msr(Present))
     THEN msr' = files[Msr(Present)] /\ GoTo("write") /\ UNCHANGED i
     ELSE i' = i + 1 /\ GoTo("run") /\ UNCHANGED msr
  /\ UNCHANGED <<files, db, session, opt, firstrun, oldtemp, digits, line, num, header>>

-----------------------------------------------------------------------------
(* WriteOutput. *)

AllBlank == db # None /\ db # <<>> /\ \A k \in DOMAIN db : db[k] = Blank
HeaderAlways == WithHeader # "noheader" /\ (WithHeader = "header" \/ db = None \/ AllBlank)   \* mutant
HeaderNow == ~header /\ HeaderAlways

(* An empty file is not new: auto gives it no header.                      *)
HeaderLine == [kind |-> "header", auto |-> opt.header = "auto"]
Row(ind, pars) ==
  [kind |-> "row", s |-> session, pos |-> i, run |-> Present, ind |-> ind, pars |-> pars]

Append_(ind, pars) ==
  /\ db' = (IF db = None \/ (AllBlank /\ WithHeader = "auto") THEN <<>> ELSE db)
             \o (IF HeaderNow THEN <<HeaderLine>> ELSE <<>>) \o <<Row(ind, pars)>>
  /\ header' = (header \/ HeaderNow \/ (WithHeader = "auto" /\ db # None))

(* The next line of the run list has to be that of the present run.        *)
NextLine == IF opt.runlist THEN line + 1 ELSE line
InStep == opt.runlist => opt.list[NextLine] = Present

Write(pars, next) ==
  /\ line' = NextLine
  /\ IF ~InStep
     THEN GoTo("error") /\ i' = N + 1 /\ UNCHANGED <<db, header, msr>>
     ELSE /\ i' = i + 1
          /\ GoTo(next)
          /\ IF msr.valid
             THEN Append_(IF opt.runlist THEN opt.list[NextLine] ELSE 0, pars)
             ELSE UNCHANGED <<db, header>>
          /\ msr' = (IF msr.valid /\ next = "gwrite" /\ i < N THEN msr ELSE None)
  /\ UNCHANGED <<files, session, opt, firstrun, oldtemp, digits>>

WriteOutput ==
  /\ pc = "write"
  /\ Write(msr.par, "run")
  /\ UNCHANGED num

(* The empty lines at the end of the output.                               *)
End ==
  /\ pc \in {"run", "gwrite"} /\ i > N
  /\ db' = IF opt.out /\ db = <<>> THEN <<Blank>> ELSE db
  /\ GoTo("done")
  /\ UNCHANGED <<files, session, prog>>

-----------------------------------------------------------------------------
(* The global modes. *)

SortedTemplate == Sorted(files[Msr(opt.temp)], opt.temp)

(* PrepareGlobalInputFile, as far as the fits of single runs.              *)
PrepareGlobal ==
  /\ pc = "global"
  /\ IF opt.temp <= 0
     THEN GoTo(IF opt.temp < 0 THEN "gfit" ELSE "gread") /\ UNCHANGED <<msr, num>>
     ELSE IF ~Readable(Msr(opt.temp)) \/ ~Matches(files[Msr(opt.temp)], opt.temp)
          THEN GoTo("error") /\ UNCHANGED <<msr, num>>
     ELSE IF Throws(files[Msr(opt.temp)]) THEN GoTo("crashed") /\ UNCHANGED <<msr, num>>
     ELSE /\ msr' = SortedTemplate
          /\ num' = LET spec == NoOfSpecific(msr', opt.temp)
                    IN  [glob |-> Len(msr'.par) - spec, spec |-> spec, blocks |-> Len(msr'.blocks)]
          /\ GoTo(IF opt.global = "global" THEN "merge" ELSE "one")
  /\ UNCHANGED <<files, db, session, opt, i, firstrun, oldtemp, digits, line, header>>

(* global+: each run alone, from the template (!) or from the run before.  *)
PrepareOne ==
  /\ pc = "one" /\ i <= N
  /\ firstrun' = FALSE /\ oldtemp' = Present
  /\ IF firstrun \/ opt.global = "global+!"
     THEN Put(One(Present), SortedInput(msr, opt.temp, Present, digits))
     ELSE IF oldtemp = Present THEN UNCHANGED files
     ELSE Put(One(Present), NewInput(files[One(oldtemp)], oldtemp, Present, digits))
  /\ GoTo("onefit")
  /\ UNCHANGED <<db, session, opt, i, digits, msr, line, num, header>>

FitOne ==
  /\ pc = "onefit"
  /\ Musrfit(One(Present))
  /\ i' = i + 1 /\ GoTo("one")
  /\ UNCHANGED <<db, session, opt, firstrun, oldtemp, digits, msr, line, num, header>>

OnesDone ==
  /\ pc = "one" /\ i > N
  /\ i' = 1 /\ GoTo("merge")
  /\ UNCHANGED <<files, db, session, opt, firstrun, oldtemp, digits, msr, line, num, header>>

(* GetSingleRunMsrFile.                                                    *)
Ones == [a \in 1..N |->
  IF opt.global # "global" /\ Readable(One(opt.list[a])) THEN files[One(opt.list[a])] ELSE None]

Merge ==
  /\ pc = "merge"
  /\ Put(GlobalName, GlobalFile(msr, opt.temp, opt.list, Ones, digits))
  /\ msr' = files'[GlobalName]
  /\ GoTo(IF opt.onlyInput THEN "gread" ELSE "gfit")
  /\ UNCHANGED <<db, session, opt, i, firstrun, oldtemp, digits, line, num, header>>

FitGlobal ==
  /\ pc = "gfit"
  /\ Musrfit(GlobalName)
  /\ GoTo("gread")
  /\ UNCHANGED <<db, session, prog>>

ReadGlobal ==
  /\ pc = "gread"
  /\ IF ~opt.out THEN GoTo("done") /\ UNCHANGED msr
     ELSE IF Readable(GlobalName) THEN GoTo("gwrite") /\ msr' = files[GlobalName]
     ELSE GoTo("error") /\ UNCHANGED msr
  /\ UNCHANGED <<files, db, session, opt, i, firstrun, oldtemp, digits, line, num, header>>

(* What WriteOutput finds out of a global file it has not made itself.     *)
Counted ==
  IF num # Unknown THEN num
  ELSE LET spec == {k \in DOMAIN msr.par : IsSpecific(msr, k, opt.list[1])}
       IN [glob |-> IF spec = {} THEN Len(msr.par) ELSE Min(spec) - 1,
           spec |-> Cardinality(spec),
           blocks |-> Cardinality({b \in DOMAIN msr.blocks : msr.blocks[b].data = opt.list[1]})]

ParNo(c, a, k) == c.glob + (a - 1) * c.spec + k

(* Parameters and RUN blocks are grouped as the list of runs is.  The name *)
(* of a run specific parameter ends with a number of the right width.      *)
ParsCounted(c) == Len(msr.par) - c.glob = N * c.spec
Consistent(c) ==
  /\ ParsCounted(c) /\ Len(msr.blocks) = N * c.blocks
  /\ \A a \in 1..N :
       /\ \A k \in 1..c.spec : msr.par[ParNo(c, a, k)].run = opt.list[a]
                               /\ ~TooLong(opt.list[a], digits)
       /\ \A b \in 1..c.blocks : msr.blocks[(a - 1) * c.blocks + b].data = opt.list[a]

SpecPar(c) == [k \in 1..c.spec |-> msr.par[ParNo(c, i, k)]]

(* Without a handler, or modulo zero, the program ends.                    *)
ModuloZero(c) == c.spec = 0 \/ (ParsCounted(c) /\ c.blocks = 0)
WriteGlobal ==
  /\ pc = "gwrite" /\ i <= N
  /\ IF msr = None \/ (i = 1 /\ ModuloZero(Counted))
     THEN GoTo("crashed") /\ UNCHANGED <<files, db, session, prog>>
     ELSE IF i = 1 /\ ~Consistent(Counted)
     THEN /\ GoTo("error") /\ num' = Counted
          /\ UNCHANGED <<files, db, session, opt, i, firstrun, oldtemp, digits, msr, line, header>>
     ELSE /\ num' = (IF i = 1 THEN Counted ELSE num)
          /\ Write(SubSeq(msr.par, 1, num'.glob) \o SpecPar(num'), "gwrite")

-----------------------------------------------------------------------------
(* Ctrl-C, or the end of the terminal, between any two steps.              *)
Interrupt ==
  /\ pc \notin {"done", "error", "crashed"}
  /\ GoTo("error")
  /\ UNCHANGED <<files, db, session, prog>>

Terminated ==
  /\ pc \in {"done", "error", "crashed"} /\ session = MaxSessions
  /\ UNCHANGED vars

Next ==
  \/ Start \/ Prepare \/ NoTemplate \/ Fit \/ ReadMsrFile \/ WriteOutput
  \/ End \/ PrepareGlobal \/ PrepareOne \/ FitOne \/ OnesDone \/ Merge
  \/ FitGlobal \/ ReadGlobal \/ WriteGlobal \/ Interrupt \/ Terminated

Spec == Init /\ [][Next]_vars
-----------------------------------------------------------------------------
(* Properties. *)

RowsNow ==
  IF db = None \/ session = 0 THEN {}
  ELSE {k \in DOMAIN db : db[k].kind = "row" /\ db[k].s = session}

ValuesOfOwnFit(row) ==
  IF opt.global = "no"
  THEN row.run # opt.temp =>
         \A p \in DOMAIN row.pars : row.pars[p].val = [of |-> Msr(row.run), s |-> session]
  ELSE \A p \in DOMAIN row.pars : row.pars[p].val = [of |-> GlobalName, s |-> session]

(* The rows of a session are in the order of the list, none is there twice, *)
(* each with the independent variables of its run.  When the runs have got *)
(* their files from a template, a row holds what has been fitted to its    *)
(* run in this session: nothing of the template, of an earlier session or  *)
(* of a fit that has failed.                                               *)
RowsInOrder == \A j, k \in RowsNow : j < k => db[j].pos < db[k].pos
RowsOfRuns ==
  \A k \in RowsNow :
    /\ db[k].pos \in 1..N /\ db[k].run = opt.list[db[k].pos]
    /\ opt.runlist => db[k].ind = db[k].run
OwnValues == opt.temp > 0 => \A k \in RowsNow : ValuesOfOwnFit(db[k])
RowsOfOwnFit == RowsInOrder /\ RowsOfRuns /\ OwnValues

(* When msr2data comes to its end, the runs whose fit is valid have a row, *)
(* and no others: wherever others have failed.                             *)
FileOf(a) == IF opt.global = "no" THEN Msr(opt.list[a]) ELSE GlobalName
NoFitLost ==
  pc = "done" /\ session > 0 /\ opt.out =>
    {db[k].pos : k \in RowsNow} =
      {a \in 1..N : Readable(FileOf(a)) /\ files[FileOf(a)].valid}

(* Unless it is asked for, the header is only written in front of all      *)
(* rows, whatever has been interrupted and started again.                  *)
AutoHeaderFirst ==
  db # None => \A k \in DOMAIN db : db[k].kind = "header" /\ db[k].auto => k = 1

(* The global file means for every run what the template means for its     *)
(* run, if the template is complete.  And a row has, of the parameters     *)
(* that are named after runs, its run's: if the template has only those of *)
(* its own run, and a global file without one begins with its first run's. *)
FileMeansTemplate ==
  LET doc == files[Msr(opt.temp)]
  IN  opt.global # "no" /\ opt.temp > 0 /\ N > 0 /\ pc \in {"gfit", "gread", "gwrite"}
        /\ Readable(GlobalName) /\ Complete(doc) /\ FreeInAll(doc.blocks)
        /\ Len(files[GlobalName].par) < FunOffset
        /\ (\A a \in 1..N - 1 : ~TooLong(opt.list[a], digits))
      => MeansTheSame(doc, files[GlobalName], opt.temp, opt.list)
FirstNamed(doc, run) ==
  \A k \in DOMAIN doc.par : doc.par[k].run # 0 => \E j \in 1..k : doc.par[j].run = run
OwnNames ==
  LET doc == files[IF opt.temp > 0 THEN Msr(opt.temp) ELSE GlobalName]
  IN  doc \notin {None, Broken} =>
        IF opt.temp > 0 THEN \A k \in DOMAIN doc.par : doc.par[k].run \in {0, opt.temp}
                        ELSE FirstNamed(doc, opt.list[1])
OwnParameters ==
  opt.global # "no" /\ OwnNames =>
    \A k \in RowsNow : \A p \in DOMAIN db[k].pars : db[k].pars[p].run \in {0, db[k].run}
GlobalMeansTemplate == FileMeansTemplate /\ OwnParameters

(* What comments and documents say and the code does not do.               *)

(* "in the GLOBAL mode this has already been checked before": the program  *)
(* is not ended by a global fit which has not converged.                   *)
GlobalFitMayFail ==
  pc = "crashed" => ~(Readable(GlobalName) /\ ~files[GlobalName].valid /\ num.spec > 0)
=============================================================================
