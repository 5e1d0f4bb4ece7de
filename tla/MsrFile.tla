------------------------------ MODULE MsrFile ------------------------------
(***************************************************************************)
(* The msr-file, read and written again session after session              *)
(* (src/src/classes/PMsrHandler.cpp).  A session reads it, fits, and writes *)
(* the mlog-file, which the swap makes the msr-file of the next one; the   *)
(* fit is reduced to what it leaves in the handler.                        *)
(*                                                                         *)
(* A file is a sequence of lines, each what it says (word, arg) and whether *)
(* blanks precede it.  A number is the session it was found in, 0 when the *)
(* user has written it, Absent when there is none or, for a step, when it  *)
(* is zero.  The digits are left out: a number stands for what is left of  *)
(* it after it has been written with the precision of its error.  The end  *)
(* of the last line is followed by the end of the file.  THEORY stands for *)
(* all blocks that are copied line by line, "other" for their lines.       *)
(***************************************************************************)
EXTENDS Integers, Sequences, FiniteSets, SequencesExt

CONSTANTS
  UsersFiles,     \* what a user may write
  NoOfSessions    \* bounds the number of sessions

Absent == -1

Tags == {"FITPARAMETER", "THEORY", "RUN", "STATISTIC"}

(* A file is made of lines, the first of which is its title; a RUN line    *)
(* has the name of the run, a t0 line the number of its t0's.              *)
IsLine(l) ==
  /\ l = [word |-> l.word, indent |-> l.indent, arg |-> l.arg]
  /\ l.word = "RUN" => l.arg = [name |-> l.arg.name]

IsFile(f) ==
  /\ f \in Seq({f[i] : i \in DOMAIN f}) /\ \A i \in DOMAIN f : IsLine(f[i])
  /\ f # <<>> /\ f[1].word = "title"

CountsT0s(f) == \A i \in DOMAIN f : f[i].word = "t0" => f[i].arg.n \in Nat

ASSUME FilesAssumption ==
  /\ NoOfSessions \in Nat
  /\ \A f \in UsersFiles : IsFile(f) /\ CountsT0s(f)

VARIABLES
  msr,          \* the lines of the msr-file
  fParam,       \* the parameters: fValue, fStep, fPosError, fNoOfParams
  fRuns,        \* the runs: name, number of t0's, fit range
  fStatistic,   \* fValid, fMin, fMinExpected, and whether fNdfPerHisto is filled
  mode,         \* chi^2 or likelihood, single histogram fit or not
  phase,        \* what the session has done
  session       \* its number

msrVars == <<msr, fParam, fRuns, fStatistic, mode, phase, session>>

Line(word, arg) == [word |-> word, indent |-> FALSE, arg |-> arg]
Word(word) == Line(word, [none |-> Absent])

-----------------------------------------------------------------------------
(* ReadMsrFile: tags are recognised behind blanks, and every line belongs  *)
(* to the last tag before it.                                              *)

ReadAsTag(l) == l.word \in Tags

(* A comment is one only in the first column. *)
Skipped(l) == l.word = "blank" \/ (l.word = "comment" /\ ~l.indent)

InBlock(f, tag, i) ==
  LET tagLine == SelectLastInSubSeq(f, 2, i, ReadAsTag)
  IN  ~Skipped(f[i]) /\ tagLine > 0 /\ f[tagLine].word = tag

ReadBlock(f, tag) ==
  FlattenSeq([i \in DOMAIN f |-> IF InBlock(f, tag, i) THEN <<f[i]>> ELSE <<>>])

ParamLines(f) == SelectSeq(ReadBlock(f, "FITPARAMETER"), LAMBDA l : ~ReadAsTag(l))

(* HandleFitParameterEntry: 4, 5 or 7 columns, numbered one by one. *)
LegalParams(f) ==
  LET lines == ParamLines(f) IN
  \A i \in DOMAIN lines :
    /\ lines[i].word = "param"
    /\ lines[i].arg.cols \in {4, 5, 7}
    /\ lines[i].arg.no = i

(* Two absent boundaries count as none. *)
ReadParam(a) ==
  [val |-> a.val, step |-> a.step, bounds |-> a.bounds,
   pos |-> IF a.cols = 4 THEN Absent ELSE a.pos,
   cols |-> IF a.cols = 7 /\ ~a.bounds THEN 5 ELSE a.cols]

ReadParams(f) ==
  LET lines == ParamLines(f) IN [i \in DOMAIN lines |-> ReadParam(lines[i].arg)]

(* 'fit fgb+n0 lgb-n1': without '-n1' it is the first offset that is set to *)
(* zero, and the second one stays undefined.                               *)
ReadRange(a) ==
  IF a.bins /\ (a.n0 = Absent \/ a.n1 = Absent) THEN [a EXCEPT !.n0 = 0] ELSE a

NoRange == [bins |-> FALSE, n0 |-> Absent, n1 |-> Absent]

(* HandleRunEntry: t0's are appended, a range replaces an earlier one. *)
ReadRunLine(runs, l) ==
  LET last == Len(runs) IN
  CASE l.word = "RUN" -> Append(runs, [name |-> l.arg.name, t0 |-> 0, range |-> NoRange])
    [] l.word = "t0"  -> [runs EXCEPT ![last].t0 = @ + l.arg.n]
    [] l.word = "fit" -> [runs EXCEPT ![last].range = ReadRange(l.arg)]
    [] OTHER -> runs

ReadRuns(f) ==
  FoldLeftDomain(LAMBDA runs, i : IF InBlock(f, "RUN", i) THEN ReadRunLine(runs, f[i]) ELSE runs,
                 <<>>, f)

(* HandleStatisticEntry. *)
LegalStatistic(f) ==
  \A l \in ToSet(ReadBlock(f, "STATISTIC")) :
    l.word \in {"comment", "STATISTIC", "result", "failed", "expected", "perRun"}

NoStatistic == [valid |-> FALSE, min |-> Absent, expected |-> Absent, perRun |-> FALSE]

(* "maxLH =" is looked for without a look at "expected". *)
ReadStatisticLine(stat, l) ==
  CASE l.word = "result" -> [stat EXCEPT !.valid = TRUE, !.min = l.arg.of]
    [] l.word = "expected" /\ l.arg.chisq -> [stat EXCEPT !.expected = l.arg.of]
    [] l.word = "expected" /\ ~l.arg.chisq ->
         [stat EXCEPT !.valid = TRUE, !.min = l.arg.of]
    [] OTHER -> stat

ReadStatistic(f) == FoldLeft(ReadStatisticLine, NoStatistic, ReadBlock(f, "STATISTIC"))

Legal(f) == LegalParams(f) /\ LegalStatistic(f)

-----------------------------------------------------------------------------
(* WriteMsrLogFile: it goes through the file again, for itself.  Here tags *)
(* are recognised in the first column only.                                *)

WrittenAsTag(l) == l.word \in Tags /\ ~l.indent

Section(i) ==
  LET tag == SelectLastInSubSeq(msr, 1, i, WrittenAsTag)
  IN  IF tag = 0 THEN "TITLE" ELSE msr[tag].word

RunNo(i) == Cardinality({j \in 1..i : msr[j].word = "RUN" /\ ~msr[j].indent})

WriteParam(no, p) ==
  Line("param",
       [no |-> no, cols |-> IF p.cols > 5 THEN 7 ELSE 5, bounds |-> p.bounds,
        val |-> p.val, step |-> p.step,
        pos |-> IF p.cols \in {5, 7} /\ p.step # Absent THEN p.pos ELSE Absent])

(* An offset of zero is not written. *)
WriteRange(r) ==
  [r EXCEPT !.n0 = IF @ > 0 THEN @ ELSE Absent, !.n1 = IF @ > 0 THEN @ ELSE Absent]

(* t0TagMissing when line i is reached: the first pass looks for a t0 in   *)
(* the first column, the second one also finds the others.                 *)
T0TagMissingOnePass(i) ==   \* mutant
  ~\E j \in 1..i : msr[j].word = "t0" /\ RunNo(j) = RunNo(i)

T0TagMissing(i) ==
  \A j \in DOMAIN msr :
    msr[j].word = "t0" /\ RunNo(j) = RunNo(i) =>
      msr[j].indent /\ ~(j < i /\ Section(j) = "RUN")

WriteT0(run) == <<Line("t0", [n |-> run.t0])>>

WriteFit(i, run) ==
  (IF T0TagMissing(i) /\ run.t0 > 0 THEN WriteT0(run) ELSE <<>>)
    \o <<Line("fit", WriteRange(run.range))>>

WriteRunLine(i) ==
  LET run == fRuns[RunNo(i)] IN
  CASE msr[i].word = "RUN" -> <<Line("RUN", [name |-> run.name])>>
    [] msr[i].word = "t0"  -> WriteT0(run)
    [] msr[i].word = "fit" -> WriteFit(i, run)
    [] OTHER -> <<msr[i]>>

(* The result; with the option -e, also what is expected, if it is known,  *)
(* and the runs one by one, if they are.                                   *)
WriteResult(e) ==
  LET stat == fStatistic
      Of(n) == [chisq |-> mode.chisq, of |-> n]
  IN  <<Line("result", Of(stat.min))>>
      \o (IF e /\ stat.expected # Absent THEN <<Line("expected", Of(stat.expected))>> ELSE <<>>)
      \o (IF e /\ stat.perRun THEN <<Word("perRun")>> ELSE <<>>)

WriteStatisticLineAnew(i, e) ==   \* mutant
  CASE msr[i].word = "STATISTIC" -> <<Word("STATISTIC")>>
    [] msr[i].word \in {"result", "failed"} ->
         IF fStatistic.valid THEN WriteResult(e) ELSE <<Word("failed")>>
    [] OTHER -> <<>>

WriteStatisticLine(i, e) ==
  CASE msr[i].word = "STATISTIC" -> <<Word("STATISTIC")>>
    [] msr[i].word \in {"result", "failed"} ->
         IF fStatistic.valid THEN WriteResult(e) ELSE <<Word("failed")>>
    [] msr[i].word \in {"expected", "perRun"} -> <<>>
    [] OTHER -> <<msr[i]>>

WriteLine(i, e) ==
  CASE Section(i) = "FITPARAMETER" /\ msr[i].word = "param" ->
         <<WriteParam(msr[i].arg.no, fParam[msr[i].arg.no])>>
    [] Section(i) = "RUN" -> WriteRunLine(i)
    [] Section(i) = "STATISTIC" -> WriteStatisticLine(i, e)
    [] OTHER -> <<IF i = 1 THEN [msr[i] EXCEPT !.indent = FALSE] ELSE msr[i]>>

StatisticLines == {i \in DOMAIN msr : Section(i) = "STATISTIC"}
StatisticBlockFound == StatisticLines # {}
ResultFound == \E i \in StatisticLines : msr[i].word \in {"result", "failed"}

(* What is read at the end of the file is an empty line, which is written  *)
(* everywhere but in a STATISTIC block.                                    *)
WriteEndOfFileAlways == <<Word("blank")>>   \* mutant

WriteEndOfFile ==
  IF Section(Len(msr)) = "STATISTIC" THEN <<>> ELSE <<Word("blank")>>

(* A missing STATISTIC block, or what is missing in it. *)
WriteMissing(e) ==
  IF StatisticBlockFound /\ ResultFound THEN <<>>
    ELSE (IF StatisticBlockFound THEN <<>> ELSE <<Word("comment")>>)
         \o <<Word("STATISTIC")>>
         \o (IF fStatistic.valid THEN WriteResult(e)
             ELSE <<Word(IF StatisticBlockFound THEN "failed4" ELSE "failed")>>)

Written(e) ==
  FlattenSeq([i \in DOMAIN msr |-> WriteLine(i, e)]) \o WriteEndOfFile \o WriteMissing(e)

-----------------------------------------------------------------------------
(* A session. *)

MsrInit ==
  /\ msr \in UsersFiles
  /\ mode \in [chisq : BOOLEAN, single : BOOLEAN]
  /\ fParam = <<>> /\ fRuns = <<>> /\ fStatistic = NoStatistic
  /\ phase = "start" /\ session = 1

Read ==
  /\ phase = "start" /\ session <= NoOfSessions
  /\ Legal(msr)
  /\ fParam' = ReadParams(msr)
  /\ fRuns' = ReadRuns(msr)
  /\ fStatistic' = ReadStatistic(msr)
  /\ phase' = "read"
  /\ UNCHANGED <<msr, mode, session>>

Refuse ==
  /\ phase = "start" /\ session <= NoOfSessions
  /\ ~Legal(msr)
  /\ phase' = "refused"
  /\ UNCHANGED <<msr, fParam, fRuns, fStatistic, mode, session>>

(* GetProperT0: a t0 from the data file is kept for the msr-file. *)
PreparedRuns == [r \in DOMAIN fRuns |-> [fRuns[r] EXCEPT !.t0 = IF @ = 0 THEN 1 ELSE @]]

(* What the commands can leave of a parameter; a parameter without a step  *)
(* is a constant, and MINOS makes one of a parameter that is fixed.        *)
Fitted(p) ==
  {[p EXCEPT !.pos = Absent]} \cup
  IF p.step = Absent THEN {}
    ELSE {[p EXCEPT !.val = session, !.step = session, !.pos = Absent],
          [p EXCEPT !.val = session, !.step = session, !.pos = session],
          [p EXCEPT !.step = Absent, !.pos = Absent]}

(* A minimum is found; SAVE adds what is expected of single histograms,    *)
(* and the runs if there are several.                                      *)
FitConverges ==
  /\ phase = "read"
  /\ fParam' \in [DOMAIN fParam -> UNION {Fitted(fParam[i]) : i \in DOMAIN fParam}]
  /\ \A i \in DOMAIN fParam : fParam'[i] \in Fitted(fParam[i])
  /\ \E saved \in BOOLEAN :
       fStatistic' =
         [valid |-> TRUE, min |-> session,
          expected |-> IF saved /\ mode.single THEN session ELSE fStatistic.expected,
          perRun |-> saved /\ (mode.single \/ (Len(fRuns) > 1 /\ fStatistic.expected = Absent))]
  /\ fRuns' = PreparedRuns
  /\ phase' = "fitted"
  /\ UNCHANGED <<msr, mode, session>>

(* No minimum is found; a SCAN counts as converged all the same. *)
FitFails ==
  /\ phase = "read"
  /\ fParam' = [i \in DOMAIN fParam |-> [fParam[i] EXCEPT !.pos = Absent]]
  /\ \E scanned \in BOOLEAN : fStatistic' = [fStatistic EXCEPT !.valid = scanned]
  /\ fRuns' = PreparedRuns
  /\ phase' = "fitted"
  /\ UNCHANGED <<msr, mode, session>>

(* A COMMANDS block that is rejected is not run. *)
FitRejected ==
  /\ phase = "read"
  /\ fRuns' = PreparedRuns
  /\ phase' = "fitted"
  /\ UNCHANGED <<msr, fParam, fStatistic, mode, session>>

(* The mlog-file is written and swapped. *)
Write ==
  /\ phase = "fitted"
  /\ \E e \in BOOLEAN : msr' = Written(e)
  /\ phase' = "start" /\ session' = session + 1
  /\ UNCHANGED <<fParam, fRuns, fStatistic, mode>>

MsrTerminated ==
  /\ phase = "refused" \/ (phase = "start" /\ session > NoOfSessions)
  /\ UNCHANGED msrVars

MsrNext == Read \/ Refuse \/ FitConverges \/ FitFails \/ FitRejected \/ Write \/ MsrTerminated

MsrSpec == MsrInit /\ [][MsrNext]_msrVars

-----------------------------------------------------------------------------
(* Properties. *)

Numbers == Absent..NoOfSessions

MsrTypeOK ==
  /\ msr # <<>> /\ msr[1].word = "title"
  /\ \A i \in DOMAIN fParam :
       fParam[i] \in [val : Numbers, step : Numbers, bounds : BOOLEAN,
                     pos : Numbers, cols : {4, 5, 7}]
  /\ \A r \in DOMAIN fRuns :
       fRuns[r].t0 \in Nat /\ fRuns[r].range.n0 \in Int /\ fRuns[r].range.n1 \in Int
  /\ fStatistic \in [valid : BOOLEAN, min : Numbers, expected : Numbers, perRun : BOOLEAN]
  /\ phase \in {"start", "read", "fitted", "refused"}
  /\ session \in 1..(NoOfSessions + 1)

(* A file whose tags are all in the first column. *)
Plain(f) == \A i \in DOMAIN f : f[i].word \in Tags => ~f[i].indent

Writes == phase = "fitted" /\ phase' = "start"

(* What there is no place for in the line: the positive error of a         *)
(* parameter that had four columns, or is a constant.                      *)
SameParam(p, q) ==
  /\ p.val = q.val /\ p.step = q.step /\ p.bounds = q.bounds
  /\ p.pos = q.pos \/ (q.pos = Absent /\ (p.cols = 4 \/ p.step = Absent))

(* A range in bins without a second offset, or with a zero one, is not     *)
(* read as it has been written.                                            *)
SameRun(r, s) ==
  /\ r.name = s.name /\ r.t0 = s.t0 /\ r.range.bins = s.range.bins
  /\ ~r.range.bins \/ r.range.n1 > 0 => r.range = s.range

SameFit(s, t) ==
  /\ s.valid = t.valid
  /\ s.valid /\ (mode.chisq \/ t.min # s.expected) => t.min = s.min

(* What a session has written the next one reads again: the parameters     *)
(* with their errors, the runs with the t0's found meanwhile, and whether  *)
(* and where the fit has converged.  The one file it cannot read is one    *)
(* with an incomplete STATISTIC block and no result to put there.          *)
ReadsBack ==
  [][ Writes /\ Plain(msr) =>
        \/ \E i \in DOMAIN msr' : msr'[i].word = "failed4"
        \/ LET params == ReadParams(msr')
               runs == ReadRuns(msr')
           IN  /\ Legal(msr')
               /\ Len(params) = Len(fParam) /\ Len(runs) = Len(fRuns)
               /\ \A i \in DOMAIN fParam : SameParam(fParam[i], params[i])
               /\ \A r \in DOMAIN fRuns : SameRun(fRuns[r], runs[r])
               /\ SameFit(fStatistic, ReadStatistic(msr')) ]_msrVars

LinesWithout(f, words) ==
  FlattenSeq([i \in DOMAIN f |-> IF f[i].word \in words THEN <<>> ELSE << <<f[i].word, f[i].arg>> >>])

(* The lines that are the user's alone: those the writer does not make anew. *)
MadeAnew ==
  {"param", "t0", "fit", "STATISTIC", "result", "failed", "failed4", "expected", "perRun"}

UsersLines(f) == LinesWithout(f, MadeAnew)

(* Titles, comments, blank lines, the blocks that are copied and the names *)
(* of the runs stay where they are.                                        *)
KeepsUsersLines ==
  [][ Writes /\ Plain(msr) => IsPrefix(UsersLines(msr), UsersLines(msr')) ]_msrVars

(* The option -e may come and go from session to session. *)
Size(f) == Len(LinesWithout(f, {"expected", "perRun"}))

(* "This is preventing growing msr-files, i.e. more and more empty lines   *)
(* at the end of the file": as long as the STATISTIC block is the last one, *)
(* what two sessions have added is all.  It takes the second one only for  *)
(* a RUN tag behind blanks: it is written in the first column, and then    *)
(* its run gets the t0.                                                    *)
Grows == Writes /\ session > 2 /\ Size(msr') > Size(msr)

StopsGrowing == [][ Grows => Section(Len(msr)) # "STATISTIC" ]_msrVars
=============================================================================
