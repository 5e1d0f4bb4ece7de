--------------------------- MODULE Msr2DataProofs ---------------------------
(* What holds for all templates, db-files and command lines of msr2data:   *)
(* where the header is, in which order the rows are and what is in them,   *)
(* that no fit is lost, and that the file for all runs means what its      *)
(* template means.                                                         *)
EXTENDS Msr2Data, FiniteSetTheorems, SequenceTheorems, WellFoundedInduction, TLAPS

(* A matter of names: None is no sequence.                                 *)
NoneIsNoSequence == \A S : None \notin Seq(S)

Active == pc \notin {"done", "error", "crashed"}

-----------------------------------------------------------------------------
(* What every step leaves as it is. *)

TypeOfRest ==
  /\ opt \in Options
  /\ i \in Nat \ {0} /\ session \in Nat
  /\ db # None => db \in Seq(ToSet(db))
  /\ pc \in {"write", "gwrite"} => opt.out

(* A sequence with lines behind it.                                        *)
LEMMA LinesBehind ==
  ASSUME NEW s, s \in Seq(ToSet(s)), NEW h, h = <<>> \/ \E l : h = <<l>>, NEW row
  PROVE  /\ s \o h \o <<row>> \in Seq(ToSet(s \o h \o <<row>>))
         /\ Len(s) \in Nat /\ Len(h) \in {0, 1} /\ DOMAIN s = 1..Len(s)
         /\ DOMAIN (s \o h \o <<row>>) = 1..Len(s) + Len(h) + 1
         /\ \A k \in 1..Len(s) : (s \o h \o <<row>>)[k] = s[k]
         /\ h # <<>> => (s \o h \o <<row>>)[Len(s) + 1] = h[1]
         /\ (s \o h \o <<row>>)[Len(s) + Len(h) + 1] = row
<1>1. CASE h = <<>>
  <2> DEFINE T == ToSet(s) \cup {row}
  <2>1. s \in Seq(T) /\ <<row>> \in Seq(T)
    OBVIOUS
  <2>2. s \o h = s
    BY <1>1
  <2>3. /\ s \o <<row>> \in Seq(T) /\ Len(s) \in Nat /\ DOMAIN s = 1..Len(s)
        /\ Len(s \o <<row>>) = Len(s) + 1
        /\ \A k \in 1..Len(s) : (s \o <<row>>)[k] = s[k]
        /\ (s \o <<row>>)[Len(s) + 1] = row
    BY <2>1
  <2>4. DOMAIN (s \o <<row>>) = 1..Len(s) + 1
    BY <2>3
  <2>5. ToSet(s \o <<row>>) = T
    BY <2>3, <2>4 DEF ToSet
  <2> QED BY <1>1, <2>2, <2>3, <2>4, <2>5
<1>2. CASE h # <<>>
  <2>1. PICK l : h = <<l>>
    BY <1>2
  <2> DEFINE T == ToSet(s) \cup {l, row}
  <2>2. s \in Seq(T) /\ <<row>> \in Seq(T) /\ <<l>> \in Seq(T)
    OBVIOUS
  <2>3. PICK u : u = s \o <<l>>
    OBVIOUS
  <2>4. /\ u \in Seq(T) /\ Len(u) = Len(s) + 1 /\ Len(s) \in Nat /\ DOMAIN s = 1..Len(s)
        /\ \A k \in 1..Len(s) : u[k] = s[k]
        /\ u[Len(s) + 1] = l
    BY <2>2, <2>3
  <2>5. PICK w : w = u \o <<row>>
    OBVIOUS
  <2>6. /\ w \in Seq(T) /\ Len(w) = Len(u) + 1
        /\ \A k \in 1..Len(u) : w[k] = u[k]
        /\ w[Len(u) + 1] = row
    BY <2>2, <2>4, <2>5
  <2>7. /\ DOMAIN w = 1..Len(s) + 2
        /\ \A k \in 1..Len(s) : w[k] = s[k]
        /\ w[Len(s) + 1] = l /\ w[Len(s) + 2] = row
    BY <2>4, <2>6
  <2>8. \A k \in DOMAIN w : k \in 1..Len(s) \/ k = Len(s) + 1 \/ k = Len(s) + 2
    BY <2>4, <2>7
  <2>9. T \subseteq ToSet(w)
    <3>1. Len(s) + 1 \in DOMAIN w /\ Len(s) + 2 \in DOMAIN w /\ 1..Len(s) \subseteq DOMAIN w
      BY <2>4, <2>7
    <3> QED BY <2>4, <2>7, <3>1 DEF ToSet
  <2>10. w \in Seq(ToSet(w))
    <3>1. ToSet(w) \subseteq T
      BY <2>4, <2>7, <2>8 DEF ToSet
    <3> QED BY <2>6, <2>9, <3>1
  <2>11. Len(h) = 1 /\ h[1] = l
    BY <2>1
  <2>12. w = s \o h \o <<row>>
    BY <2>1, <2>3, <2>5
  <2> QED BY <2>4, <2>7, <2>10, <2>11, <2>12
<1> QED BY <1>1, <1>2

(* What a row, and the header if it is time for it, are put behind.        *)
LEMMA AppendFacts ==
  ASSUME TypeOfRest, NEW ind, NEW pars, Append_(ind, pars)
  PROVE  \E base, h :
           /\ base \in Seq(ToSet(base))
           /\ db' = base \o h \o <<Row(ind, pars)>>
           /\ h = (IF HeaderNow THEN <<HeaderLine>> ELSE <<>>)
           /\ \/ base = <<>> /\ (db = None \/ AllBlank)
              \/ base = db /\ db # None /\ ~(AllBlank /\ WithHeader = "auto")
<1> DEFINE base == IF db = None \/ (AllBlank /\ WithHeader = "auto") THEN <<>> ELSE db
           h == IF HeaderNow THEN <<HeaderLine>> ELSE <<>>
<1>1. db' = base \o h \o <<Row(ind, pars)>>
  BY DEF Append_
<1>2. \/ base = <<>> /\ (db = None \/ AllBlank)
      \/ base = db /\ db # None /\ ~(AllBlank /\ WithHeader = "auto")
  OBVIOUS
<1>3. base \in Seq(ToSet(base))
  <2>1. <<>> \in Seq(ToSet(<<>>))
    OBVIOUS
  <2> HIDE DEF base
  <2>2. CASE base = <<>>
    BY <2>1, <2>2
  <2>3. CASE base = db /\ db # None
    BY <2>3 DEF TypeOfRest
  <2> QED BY <1>2, <2>2, <2>3
<1> HIDE DEF base, h
<1> QED BY <1>1, <1>2, <1>3 DEF h

(* Append_ as the line that comes last, and what is in front of it.        *)
LEMMA AppendedRow ==
  ASSUME TypeOfRest, session > 0, session' = session,
         NEW ind, NEW pars, Append_(ind, pars), NoneIsNoSequence
  PROVE  /\ db' # None /\ db' \in Seq(ToSet(db'))
         /\ \E last \in Nat \ {0} :
              /\ RowsNow' = RowsNow \cup {last} /\ db'[last] = Row(ind, pars)
              /\ \A k \in RowsNow : k \in Nat /\ k < last /\ db'[k] = db[k]
              /\ \A k \in DOMAIN db' : db'[k].kind = "row" =>
                   k = last \/ (db # None /\ k \in DOMAIN db /\ db'[k] = db[k])
<1>1. PICK base, h :
        /\ base \in Seq(ToSet(base))
        /\ db' = base \o h \o <<Row(ind, pars)>>
        /\ h = (IF HeaderNow THEN <<HeaderLine>> ELSE <<>>)
        /\ \/ base = <<>> /\ (db = None \/ AllBlank)
           \/ base = db /\ db # None /\ ~(AllBlank /\ WithHeader = "auto")
  BY AppendFacts
<1>2. PICK row, line_ : row = Row(ind, pars) /\ line_ = HeaderLine
  OBVIOUS
<1>3. h = <<>> \/ h = <<line_>>
  BY <1>1, <1>2
<1>4. PICK all : all = base \o h \o <<row>>
  OBVIOUS
<1>5. /\ all \in Seq(ToSet(all))
      /\ Len(base) \in Nat /\ Len(h) \in {0, 1} /\ DOMAIN base = 1..Len(base)
      /\ DOMAIN all = 1..Len(base) + Len(h) + 1
      /\ \A k \in 1..Len(base) : all[k] = base[k]
      /\ h # <<>> => all[Len(base) + 1] = h[1]
      /\ all[Len(base) + Len(h) + 1] = row
  BY <1>1, <1>3, <1>4, LinesBehind
<1>6. db' = all
  BY <1>1, <1>2, <1>4
<1>7. db' # None
  BY <1>5, <1>6 DEF NoneIsNoSequence
<1>8. PICK last \in Nat \ {0} : last = Len(base) + Len(h) + 1
  BY <1>5
<1>9. \A k \in DOMAIN all : k \in 1..Len(base) \/ k = last
    \/ (h # <<>> /\ k = Len(base) + 1 /\ all[k] = line_)
  <2>1. CASE h = <<>>
    BY <1>5, <1>8, <2>1
  <2>2. CASE h = <<line_>>
    BY <1>5, <1>8, <2>2
  <2> QED BY <1>3, <2>1, <2>2
<1>10. line_.kind = "header" /\ row.kind = "row" /\ row.s = session
  BY <1>2 DEF HeaderLine, Row
<1>11. RowsNow = {k \in 1..Len(base) : base[k].kind = "row" /\ base[k].s = session}
  <2>1. CASE base = <<>> /\ (db = None \/ AllBlank)
    <3>1. RowsNow = {}
      BY <2>1 DEF RowsNow, AllBlank, Blank
    <3> QED BY <1>5, <2>1, <3>1
  <2>2. CASE base = db /\ db # None
    BY <1>5, <2>2 DEF RowsNow
  <2> QED BY <1>1, <2>1, <2>2
<1>12. RowsNow' = {k \in DOMAIN all : all[k].kind = "row" /\ all[k].s = session}
  BY <1>6, <1>7 DEF RowsNow
<1>13. RowsNow' = RowsNow \cup {last}
  <2>1. last \in DOMAIN all /\ all[last] = row
    BY <1>5, <1>8
  <2>2. 1..Len(base) \subseteq DOMAIN all
    BY <1>5
  <2> QED BY <1>5, <1>9, <1>10, <1>11, <1>12, <2>1, <2>2
<1>14. \A k \in RowsNow : k \in Nat /\ k < last /\ db'[k] = db[k]
  <2>1. ASSUME NEW k \in RowsNow PROVE k \in Nat /\ k < last /\ db'[k] = db[k]
    <3>1. k \in 1..Len(base) /\ all[k] = base[k]
      BY <1>5, <1>11
    <3>2. base = db
      <4>1. base # <<>>
        BY <3>1
      <4> QED BY <1>1, <4>1
    <3>3. k < last
      BY <1>5, <1>8, <3>1
    <3> QED BY <1>6, <3>1, <3>2, <3>3
  <2> QED BY <2>1
<1>15. \A k \in DOMAIN db' : db'[k].kind = "row" =>
         k = last \/ (db # None /\ k \in DOMAIN db /\ db'[k] = db[k])
  <2>1. ASSUME NEW k \in DOMAIN all, all[k].kind = "row", k # last
        PROVE  db # None /\ k \in DOMAIN db /\ all[k] = db[k]
    <3>1. k \in 1..Len(base)
      BY <1>9, <1>10, <2>1
    <3>2. base # <<>>
      BY <3>1
    <3>3. base = db /\ db # None
      BY <1>1, <3>2
    <3> QED BY <1>5, <3>1, <3>3
  <2> QED BY <1>6, <2>1
<1> QED BY <1>2, <1>5, <1>6, <1>7, <1>8, <1>13, <1>14, <1>15

(* The steps which do not write.                                           *)
Quiet ==
  \/ Prepare \/ NoTemplate \/ Fit \/ ReadMsrFile \/ PrepareGlobal \/ PrepareOne \/ FitOne
  \/ OnesDone \/ Merge \/ FitGlobal \/ ReadGlobal \/ Interrupt \/ Terminated \/ UNCHANGED vars

LEMMA NoneWritten ==
  ASSUME Quiet
  PROVE  UNCHANGED <<db, session, opt, header>>
BY DEF Quiet, Prepare, NoTemplate, Fit, ReadMsrFile, PrepareGlobal, PrepareOne, FitOne, OnesDone,
   Merge, FitGlobal, ReadGlobal, Interrupt, Terminated, vars, prog

LEMMA NextIs == [Next]_vars => Start \/ End \/ WriteOutput \/ WriteGlobal \/ Quiet
BY DEF Next, Quiet

(* The writing steps.                                                      *)
LEMMA Writes ==
  ASSUME WriteOutput \/ WriteGlobal
  PROVE  \/ /\ pc = "gwrite" /\ pc' \in {"crashed", "error"}
            /\ UNCHANGED <<files, db, session, opt, i, header, msr>>
         \/ \E pars, next :
              /\ Write(pars, next)
              /\ \/ pc = "write" /\ next = "run"
                 \/ pc = "gwrite" /\ next = "gwrite" /\ i <= N /\ msr # None
<1>1. CASE WriteOutput
  <2>1. Write(msr.par, "run") /\ pc = "write"
    BY <1>1 DEF WriteOutput
  <2> QED BY <2>1
<1>2. CASE WriteGlobal
  <2>1. pc = "gwrite" /\ i <= N
    BY <1>2 DEF WriteGlobal
  <2>2. CASE msr = None \/ (i = 1 /\ ModuloZero(Counted))
    BY <1>2, <2>1, <2>2 DEF WriteGlobal, prog, GoTo
  <2>3. CASE ~(msr = None \/ (i = 1 /\ ModuloZero(Counted)))
    <3>1. CASE i = 1 /\ ~Consistent(Counted)
      BY <1>2, <2>1, <2>3, <3>1 DEF WriteGlobal, GoTo
    <3>2. CASE ~(i = 1 /\ ~Consistent(Counted))
      <4>1. Write(SubSeq(msr.par, 1, num'.glob) \o SpecPar(num'), "gwrite")
        BY <1>2, <2>3, <3>2 DEF WriteGlobal
      <4>2. PICK pars : pars = SubSeq(msr.par, 1, num'.glob) \o SpecPar(num')
        OBVIOUS
      <4>3. Write(pars, "gwrite")
        BY <4>1, <4>2
      <4> QED BY <2>1, <2>3, <4>3
    <3> QED BY <3>1, <3>2
  <2> QED BY <2>2, <2>3
<1> QED BY <1>1, <1>2

LEMMA WriteIs ==
  ASSUME NEW pars, NEW next, Write(pars, next)
  PROVE  /\ UNCHANGED <<files, session, opt>>
         /\ \/ pc' = "error" /\ i' = N + 1 /\ UNCHANGED <<db, header, msr>>
            \/ /\ pc' = next /\ i' = i + 1
               /\ msr' = (IF msr.valid /\ next = "gwrite" /\ i < N THEN msr ELSE None)
               /\ \/ msr.valid /\ \E ind : Append_(ind, pars) /\ (opt.runlist => ind = Present)
                  \/ ~msr.valid /\ UNCHANGED <<db, header>>
<1>1. UNCHANGED <<files, session, opt>>
  BY DEF Write
<1>2. CASE ~InStep
  BY <1>1, <1>2 DEF Write, GoTo
<1>3. CASE InStep
  <2>1. opt.runlist => opt.list[NextLine] = Present
    BY <1>3 DEF InStep
  <2>2. /\ pc' = next /\ i' = i + 1
        /\ msr' = (IF msr.valid /\ next = "gwrite" /\ i < N THEN msr ELSE None)
    BY <1>3 DEF Write, GoTo
  <2>3. CASE msr.valid
    BY <1>1, <1>3, <2>1, <2>2, <2>3 DEF Write
  <2>4. CASE ~msr.valid
    BY <1>1, <1>3, <2>2, <2>4 DEF Write
  <2> QED BY <2>3, <2>4
<1> QED BY <1>1, <1>2, <1>3 DEF Write, GoTo

-----------------------------------------------------------------------------
(* What there is stays well formed.                                        *)

LEMMA TypeAtStart == Init => TypeOfRest
<1> SUFFICES ASSUME Init PROVE TypeOfRest
  OBVIOUS
<1>1. opt \in Options
  BY Msr2DataAssumption DEF Init
<1>2. PICK d \in InitialDirs : db = d[2]
  BY DEF Init
<1>3. db # None => db \in Seq(ToSet(db))
  BY <1>2, Msr2DataAssumption DEF OlderDb
<1> QED BY <1>1, <1>3 DEF Init, TypeOfRest

LEMMA LengthOfList ==
  ASSUME opt \in Options
  PROVE  N \in Nat /\ opt.list \in Seq(Nat) /\ DOMAIN opt.list = 1..N
BY Msr2DataAssumption DEF N

LEMMA TypeOfRestKept ==
  ASSUME TypeOfRest, [Next]_vars
  PROVE  TypeOfRest'
<1>1. N \in Nat
  BY LengthOfList DEF TypeOfRest
<1>2. CASE Start
  <2>1. opt' \in Options /\ i' = 1 /\ session' = session + 1
    BY <1>2 DEF Start
  <2>2. db' = db \/ db' = <<>>
    BY <1>2 DEF Start, Emptied
  <2>3. <<>> \in Seq(ToSet(<<>>))
    OBVIOUS
  <2>4. db' # None => db' \in Seq(ToSet(db'))
    <3>1. CASE db' = db
      BY <3>1 DEF TypeOfRest
    <3>2. CASE db' = <<>>
      BY <3>2, <2>3
    <3> QED BY <2>2, <3>1, <3>2
  <2>5. pc' \notin {"write", "gwrite"}
    BY <1>2 DEF Start, GoTo
  <2> QED BY <2>1, <2>4, <2>5 DEF TypeOfRest
<1>3. CASE End
  <2>1. pc' = "done" /\ UNCHANGED <<session, opt, i>>
    BY <1>3 DEF End, GoTo, prog
  <2>2. db' = db \/ db' = <<Blank>>
    BY <1>3 DEF End
  <2>3. <<Blank>> \in Seq(ToSet(<<Blank>>))
    <3>1. PICK b : b = Blank
      OBVIOUS
    <3>2. <<b>> \in Seq({b}) /\ ToSet(<<b>>) = {b}
      BY DEF ToSet
    <3> QED BY <3>1, <3>2
  <2>4. db' # None => db' \in Seq(ToSet(db'))
    <3>1. CASE db' = db
      BY <3>1 DEF TypeOfRest
    <3>2. CASE db' = <<Blank>>
      BY <3>2, <2>3
    <3> QED BY <2>2, <3>1, <3>2
  <2> QED BY <2>1, <2>4 DEF TypeOfRest
<1>4. CASE WriteOutput \/ WriteGlobal
  <2>1. CASE /\ pc = "gwrite" /\ pc' \in {"crashed", "error"}
             /\ UNCHANGED <<files, db, session, opt, i, header, msr>>
    BY <2>1 DEF TypeOfRest
  <2>2. ASSUME NEW pars, NEW next, Write(pars, next),
               \/ pc = "write" /\ next = "run"
               \/ pc = "gwrite" /\ next = "gwrite" /\ i <= N
        PROVE  TypeOfRest'
    <3>1. /\ UNCHANGED <<session, opt>>
          /\ i' \in {N + 1, i + 1} /\ pc' \in {"error", next}
          /\ UNCHANGED db \/ \E ind : Append_(ind, pars)
      BY <2>2, WriteIs
    <3>2. db' # None => db' \in Seq(ToSet(db'))
      <4>1. CASE UNCHANGED db
        BY <4>1 DEF TypeOfRest
      <4>2. ASSUME NEW ind, Append_(ind, pars)
            PROVE  db' \in Seq(ToSet(db'))
        <5>1. PICK base, h :
                /\ base \in Seq(ToSet(base))
                /\ db' = base \o h \o <<Row(ind, pars)>>
                /\ h = (IF HeaderNow THEN <<HeaderLine>> ELSE <<>>)
          BY <4>2, AppendFacts
        <5>2. PICK row : row = Row(ind, pars)
          OBVIOUS
        <5>3. h = <<>> \/ \E l : h = <<l>>
          BY <5>1
        <5> QED BY <5>1, <5>2, <5>3, LinesBehind
      <4> QED BY <3>1, <4>1, <4>2
    <3> QED BY <1>1, <2>2, <3>1, <3>2 DEF TypeOfRest
  <2> QED BY <1>4, <2>1, <2>2, Writes
<1>5. CASE Quiet
  <2>1. UNCHANGED <<db, session, opt>>
    BY <1>5, NoneWritten
  <2>2. i' \in Nat \ {0}
    BY <1>5 DEF TypeOfRest, Quiet, Prepare, NoTemplate, Fit, ReadMsrFile, PrepareGlobal, PrepareOne,
       FitOne, OnesDone, Merge, FitGlobal, ReadGlobal, Interrupt, Terminated, vars, prog
  <2>3. pc' \in {"write", "gwrite"} => opt.out
    BY <1>5 DEF TypeOfRest, Quiet, Prepare, NoTemplate, Fit, ReadMsrFile, PrepareGlobal, PrepareOne,
       FitOne, OnesDone, Merge, FitGlobal, ReadGlobal, Interrupt, Terminated, vars, prog, GoTo,
       AfterPrepare
  <2> QED BY <2>1, <2>2, <2>3 DEF TypeOfRest
<1> QED BY <1>2, <1>3, <1>4, <1>5, NextIs

-----------------------------------------------------------------------------
(* The header. *)

(* Until new and auto have got their header the file is empty.             *)
Fresh ==
  Active /\ opt.new /\ opt.out /\ opt.header = "auto" /\ ~header => db = None \/ db = <<>>

LEMMA HeaderInFront ==
  ASSUME TypeOfRest, AutoHeaderFirst, Fresh, Active, opt.out, opt' = opt,
         NEW ind, NEW pars, Append_(ind, pars)
  PROVE  AutoHeaderFirst' /\ Fresh'
<1>1. PICK base, h :
        /\ base \in Seq(ToSet(base))
        /\ db' = base \o h \o <<Row(ind, pars)>>
        /\ h = (IF HeaderNow THEN <<HeaderLine>> ELSE <<>>)
        /\ \/ base = <<>> /\ (db = None \/ AllBlank)
           \/ base = db /\ db # None /\ ~(AllBlank /\ WithHeader = "auto")
  BY AppendFacts
<1>2. PICK row, line_ : row = Row(ind, pars) /\ line_ = HeaderLine
  OBVIOUS
<1>3. h = <<>> \/ h = <<line_>>
  BY <1>1, <1>2
<1>4. PICK all : all = base \o h \o <<row>>
  OBVIOUS
<1>5. /\ Len(base) \in Nat /\ Len(h) \in {0, 1} /\ DOMAIN base = 1..Len(base)
      /\ DOMAIN all = 1..Len(base) + Len(h) + 1
      /\ \A k \in 1..Len(base) : all[k] = base[k]
      /\ h # <<>> => all[Len(base) + 1] = h[1]
      /\ all[Len(base) + Len(h) + 1] = row
  BY <1>1, <1>3, <1>4, LinesBehind
<1>6. db' = all
  BY <1>1, <1>2, <1>4
<1>7. HeaderNow /\ opt.header = "auto" => base = <<>>
  <2> SUFFICES ASSUME HeaderNow, opt.header = "auto" PROVE base = <<>>
    OBVIOUS
  <2>1. CASE opt.new
    <3>1. db = None \/ db = <<>>
      BY <2>1 DEF Fresh, HeaderNow
    <3> QED BY <1>1, <3>1
  <2>2. CASE ~opt.new
    <3>1. WithHeader = "auto"
      BY <2>2 DEF WithHeader
    <3>2. db = None \/ AllBlank
      BY <3>1 DEF HeaderNow, HeaderAlways
    <3> QED BY <1>1, <3>1, <3>2
  <2> QED BY <2>1, <2>2
<1>8. AutoHeaderFirst'
  <2>1. ASSUME NEW k \in DOMAIN all, all[k].kind = "header", all[k].auto PROVE k = 1
    <3>1. row.kind = "row"
      BY <1>2 DEF Row
    <3>2. CASE k \in 1..Len(base)
      <4>1. base # <<>>
        BY <3>2
      <4>2. base = db /\ db # None
        BY <1>1, <4>1
      <4> QED BY <1>5, <2>1, <3>2, <4>2 DEF AutoHeaderFirst
    <3>3. CASE k \notin 1..Len(base)
      <4>1. CASE h = <<>>
        <5>1. k = Len(base) + 1 /\ Len(h) = 0
          BY <1>5, <3>3, <4>1
        <5>2. all[k] = row
          BY <1>5, <5>1
        <5> QED BY <2>1, <3>1, <5>2
      <4>2. CASE h = <<line_>>
        <5>1. Len(h) = 1 /\ h[1] = line_ /\ h # <<>>
          BY <4>2
        <5>2. k = Len(base) + 1 \/ k = Len(base) + 2
          BY <1>5, <3>3, <5>1
        <5>3. k = Len(base) + 1
          <6>1. k = Len(base) + 2 => all[k] = row
            BY <1>5, <5>1
          <6> QED BY <2>1, <3>1, <5>2, <6>1
        <5>4. all[k] = line_
          BY <1>5, <5>1, <5>3
        <5>5. HeaderNow /\ opt.header = "auto"
          <6>1. HeaderNow
            BY <1>1, <5>1
          <6>2. line_.auto = (opt.header = "auto")
            BY <1>2 DEF HeaderLine
          <6> QED BY <2>1, <5>4, <6>1, <6>2
        <5> QED BY <1>7, <5>3, <5>5
      <4> QED BY <1>3, <4>1, <4>2
    <3> QED BY <3>2, <3>3
  <2> QED BY <1>6, <2>1 DEF AutoHeaderFirst
<1>9. Fresh'
  <2>1. opt.new /\ opt.header = "auto" => header'
    BY DEF Append_, HeaderNow, HeaderAlways, WithHeader
  <2> QED BY <2>1 DEF Fresh
<1> QED BY <1>8, <1>9

(* Unless it is asked for, the header is only written in front of all      *)
(* rows (WriteOutput, fHeaderWritten), for every list of runs, template    *)
(* and older db-file, and whatever has been interrupted.                   *)
THEOREM HeaderFirst == Spec => []AutoHeaderFirst
<1>1. Init => TypeOfRest /\ AutoHeaderFirst /\ Fresh
  <2> SUFFICES ASSUME Init PROVE AutoHeaderFirst /\ Fresh
    BY TypeAtStart
  <2>1. PICK d \in InitialDirs : db = d[2]
    BY DEF Init
  <2>2. OlderDb(db)
    BY <2>1, Msr2DataAssumption
  <2>3. AutoHeaderFirst
    BY <2>2 DEF AutoHeaderFirst, OlderDb
  <2> QED BY <2>3 DEF Init, Fresh, Active
<1>2. TypeOfRest /\ AutoHeaderFirst /\ Fresh /\ [Next]_vars => (AutoHeaderFirst /\ Fresh)'
  <2> SUFFICES ASSUME TypeOfRest, AutoHeaderFirst, Fresh, [Next]_vars
               PROVE  AutoHeaderFirst' /\ Fresh'
    OBVIOUS
  <2>1. CASE Start
    <3>1. db' = db \/ db' = <<>>
      BY <2>1 DEF Start, Emptied
    <3>2. AutoHeaderFirst'
      BY <3>1 DEF AutoHeaderFirst
    <3>3. pc' = "error" \/ db' = Emptied(opt')
      BY <2>1 DEF Start, GoTo
    <3> QED BY <3>2, <3>3 DEF Fresh, Active, Emptied
  <2>2. CASE End
    <3>1. db' = db \/ db' = <<Blank>>
      BY <2>2 DEF End
    <3>2. AutoHeaderFirst'
      BY <3>1 DEF AutoHeaderFirst, Blank
    <3>3. pc' = "done"
      BY <2>2 DEF End, GoTo
    <3> QED BY <3>2, <3>3 DEF Fresh, Active
  <2>3. CASE WriteOutput \/ WriteGlobal
    <3>1. CASE /\ pc = "gwrite" /\ pc' \in {"crashed", "error"}
               /\ UNCHANGED <<files, db, session, opt, i, header, msr>>
      BY <3>1 DEF AutoHeaderFirst, Fresh, Active
    <3>2. ASSUME NEW pars, NEW next, Write(pars, next),
                 \/ pc = "write" /\ next = "run"
                 \/ pc = "gwrite" /\ next = "gwrite" /\ i <= N
          PROVE  AutoHeaderFirst' /\ Fresh'
      <4>1. Active /\ opt.out
        BY <3>2 DEF Active, TypeOfRest
      <4>2. CASE UNCHANGED <<db, header>>
        <5>1. opt' = opt
          BY <3>2, WriteIs
        <5> QED BY <4>1, <4>2, <5>1 DEF AutoHeaderFirst, Fresh
      <4>3. CASE \E ind : Append_(ind, pars)
        <5>1. opt' = opt
          BY <3>2, WriteIs
        <5> QED BY <4>1, <4>3, <5>1, HeaderInFront
      <4> QED BY <3>2, <4>2, <4>3, WriteIs
    <3> QED BY <2>3, <3>1, <3>2, Writes
  <2>4. CASE Quiet
    <3>1. UNCHANGED <<db, opt, header>>
      BY <2>4, NoneWritten
    <3>2. ~Active => ~Active'
      BY <2>4 DEF Active, Quiet, Prepare, NoTemplate, Fit, ReadMsrFile, PrepareGlobal, PrepareOne,
         FitOne, OnesDone, Merge, FitGlobal, ReadGlobal, Interrupt, Terminated, vars, prog
    <3> QED BY <3>1, <3>2 DEF AutoHeaderFirst, Fresh
  <2> QED BY <2>1, <2>2, <2>3, <2>4, NextIs
<1> QED BY <1>1, <1>2, TypeOfRestKept, PTL DEF Spec

-----------------------------------------------------------------------------
(* The rows. *)

(* A session has begun when something is done; no row is from a later one. *)
SessionsBehind ==
  /\ session = 0 => pc = "done"
  /\ db # None => \A k \in DOMAIN db : db[k].kind = "row" => db[k].s \in 0..session

(* There are no rows before the runs are gone through to write them, and   *)
(* they are of the runs gone through.                                      *)
BeforeRows == {"global", "one", "onefit", "merge", "gfit", "gread"}
RowsBehind ==
  /\ pc \in BeforeRows => RowsNow = {}
  /\ pc \in {"fit", "read", "write"} => i <= N
  /\ \A k \in RowsNow : db[k].pos < i

RowsInv == SessionsBehind /\ RowsBehind /\ RowsInOrder /\ RowsOfRuns

(* A new session has no rows.                                              *)
LEMMA NoRowsAtStart ==
  ASSUME TypeOfRest, SessionsBehind, Start
  PROVE  RowsNow' = {} /\ SessionsBehind' /\ i' = 1
<1>1. session' = session + 1 /\ i' = 1 /\ session \in Nat
  BY DEF Start, TypeOfRest
<1>2. db' = db \/ db' = <<>>
  BY DEF Start, Emptied
<1>3. ASSUME NEW k \in DOMAIN db', db' # None, db'[k].kind = "row"
      PROVE  db'[k].s \in 0..session
  <2>1. db' = db
    BY <1>2, <1>3
  <2> QED BY <1>3, <2>1 DEF SessionsBehind
<1>4. RowsNow' = {}
  <2>1. \A n \in 0..session : n # session'
    BY <1>1
  <2> QED BY <1>3, <2>1 DEF RowsNow
<1>5. SessionsBehind'
  <2>1. 0..session \subseteq 0..session' /\ session' # 0
    BY <1>1
  <2> QED BY <1>3, <2>1 DEF SessionsBehind
<1> QED BY <1>1, <1>4, <1>5

(* The row that is put behind the others comes next in the list.           *)
LEMMA RowBehind ==
  ASSUME TypeOfRest, RowsInv, NoneIsNoSequence, Active, i <= N, UNCHANGED <<session, opt>>,
         i' = i + 1, NEW ind, opt.runlist => ind = Present, NEW pars, Append_(ind, pars)
  PROVE  /\ RowsInOrder' /\ RowsOfRuns' /\ SessionsBehind'
         /\ \A k \in RowsNow' : db'[k].pos < i'
         /\ {db'[k].pos : k \in RowsNow'} = {db[k].pos : k \in RowsNow} \cup {i}
<1>1. session \in Nat /\ session > 0 /\ i \in Nat \ {0} /\ N \in Nat
  BY LengthOfList DEF TypeOfRest, RowsInv, SessionsBehind, Active
<1>2. PICK last \in Nat \ {0} :
        /\ RowsNow' = RowsNow \cup {last} /\ db'[last] = Row(ind, pars)
        /\ \A k \in RowsNow : k \in Nat /\ k < last /\ db'[k] = db[k]
        /\ \A k \in DOMAIN db' : db'[k].kind = "row" =>
             k = last \/ (db # None /\ k \in DOMAIN db /\ db'[k] = db[k])
  BY <1>1, AppendedRow
<1>3. /\ db'[last].kind = "row" /\ db'[last].s = session /\ db'[last].pos = i
      /\ db'[last].run = opt.list[i] /\ db'[last].ind = ind
  BY <1>2 DEF Row, Present
<1>4. \A k \in RowsNow : db[k].pos \in 1..N /\ db[k].pos < i
  BY DEF RowsInv, RowsOfRuns, RowsBehind
<1>5. RowsInOrder'
  <2> SUFFICES ASSUME NEW j \in RowsNow', NEW k \in RowsNow', j < k
               PROVE  db'[j].pos < db'[k].pos
    BY DEF RowsInOrder
  <2>1. CASE j \in RowsNow /\ k \in RowsNow
    BY <1>2, <2>1 DEF RowsInv, RowsInOrder
  <2>2. CASE j \in RowsNow /\ k = last
    BY <1>2, <1>3, <1>4, <2>2
  <2>3. CASE j = last
    <3>1. ~(last < k)
      BY <1>2
    <3> QED BY <2>3, <3>1
  <2> QED BY <1>2, <2>1, <2>2, <2>3
<1>6. N' = N
  BY DEF N
<1>7. RowsOfRuns'
  <2> SUFFICES ASSUME NEW k \in RowsNow'
               PROVE  /\ db'[k].pos \in 1..N /\ db'[k].run = opt.list[db'[k].pos]
                      /\ opt.runlist => db'[k].ind = db'[k].run
    BY <1>6 DEF RowsOfRuns
  <2>1. CASE k \in RowsNow
    BY <1>2, <2>1 DEF RowsInv, RowsOfRuns
  <2>2. CASE k = last
    <3>1. i \in 1..N
      BY <1>1
    <3> QED BY <1>3, <2>2, <3>1 DEF Present
  <2> QED BY <1>2, <2>1, <2>2
<1>8. SessionsBehind'
  <2>1. \A k \in DOMAIN db' : db'[k].kind = "row" => db'[k].s \in 0..session
    <3> SUFFICES ASSUME NEW k \in DOMAIN db', db'[k].kind = "row"
                 PROVE  db'[k].s \in 0..session
      OBVIOUS
    <3>1. CASE k = last
      BY <1>1, <1>3, <3>1
    <3>2. CASE db # None /\ k \in DOMAIN db /\ db'[k] = db[k]
      BY <3>2 DEF RowsInv, SessionsBehind
    <3> QED BY <1>2, <3>1, <3>2
  <2> QED BY <1>1, <2>1 DEF SessionsBehind
<1>9. \A k \in RowsNow' : db'[k].pos < i'
  <2> SUFFICES ASSUME NEW k \in RowsNow' PROVE db'[k].pos < i'
    OBVIOUS
  <2>1. CASE k \in RowsNow
    <3>1. db'[k].pos \in 1..N /\ db'[k].pos < i
      BY <1>2, <1>4, <2>1
    <3> QED BY <1>1, <3>1
  <2>2. CASE k = last
    BY <1>1, <1>3, <2>2
  <2> QED BY <1>2, <2>1, <2>2
<1>10. {db'[k].pos : k \in RowsNow'} = {db[k].pos : k \in RowsNow} \cup {i}
  BY <1>2, <1>3
<1> QED BY <1>5, <1>7, <1>8, <1>9, <1>10

(* What is not in the db-file does not change its rows.                    *)
LEMMA SameRows ==
  ASSUME UNCHANGED <<db, session, opt>>
  PROVE  /\ RowsNow' = RowsNow /\ N' = N
         /\ RowsInOrder => RowsInOrder'
         /\ RowsOfRuns => RowsOfRuns'
         /\ SessionsBehind /\ (session = 0 => pc' = "done") => SessionsBehind'
<1>1. RowsNow' = RowsNow /\ N' = N
  BY DEF RowsNow, N
<1> QED BY <1>1 DEF RowsInOrder, RowsOfRuns, SessionsBehind

LEMMA RowsInvKept ==
  ASSUME NoneIsNoSequence, TypeOfRest, RowsInv, [Next]_vars
  PROVE  RowsInv'
<1> USE DEF RowsInv
<1>1. i \in Nat /\ N \in Nat
  BY LengthOfList DEF TypeOfRest
<1>2. CASE Start
  <2>1. RowsNow' = {} /\ SessionsBehind'
    BY <1>2, NoRowsAtStart
  <2>2. pc' \notin {"fit", "read", "write"}
    BY <1>2 DEF Start, GoTo
  <2> QED BY <2>1, <2>2 DEF RowsBehind, RowsInOrder, RowsOfRuns
<1>3. CASE End
  <2>1. pc' = "done" /\ UNCHANGED <<session, opt, i>> /\ session # 0
    BY <1>3 DEF End, GoTo, prog, SessionsBehind
  <2>2. CASE db' = db
    BY <2>1, <2>2, SameRows DEF RowsBehind, BeforeRows
  <2>3. CASE db = <<>> /\ db' = <<Blank>>
    <3>1. RowsNow' = {}
      BY <2>3 DEF RowsNow, Blank
    <3> QED BY <2>1, <2>3, <3>1 DEF SessionsBehind, RowsBehind, RowsInOrder, RowsOfRuns, BeforeRows, Blank
  <2> QED BY <1>3, <2>2, <2>3 DEF End
<1>4. CASE WriteOutput \/ WriteGlobal
  <2>1. CASE /\ pc = "gwrite" /\ pc' \in {"crashed", "error"}
             /\ UNCHANGED <<files, db, session, opt, i, header, msr>>
    BY <2>1, SameRows DEF RowsBehind, BeforeRows, SessionsBehind
  <2>2. ASSUME NEW pars, NEW next, Write(pars, next),
               \/ pc = "write" /\ next = "run"
               \/ pc = "gwrite" /\ next = "gwrite" /\ i <= N
        PROVE  RowsInv'
    <3>1. UNCHANGED <<session, opt>> /\ i <= N /\ session # 0
      BY <2>2, WriteIs DEF RowsBehind, SessionsBehind
    <3>2. pc' \notin BeforeRows \cup {"fit", "read", "write"}
      BY <2>2, WriteIs DEF BeforeRows
    <3>3. CASE UNCHANGED db
      <4>1. i' \in {i + 1, N + 1}
        BY <2>2, WriteIs
      <4>2. \A k \in RowsNow : db[k].pos < i'
        BY <1>1, <3>1, <4>1 DEF RowsBehind, RowsOfRuns
      <4> QED BY <3>1, <3>2, <3>3, <4>2, SameRows DEF RowsBehind
    <3>4. ASSUME NEW ind, Append_(ind, pars), opt.runlist => ind = Present, i' = i + 1
          PROVE  RowsInv'
      <4>1. Active
        BY <2>2 DEF Active
      <4> QED BY <3>1, <3>2, <3>4, <4>1, RowBehind DEF RowsBehind
    <3> QED BY <2>2, <3>3, <3>4, WriteIs
  <2> QED BY <1>4, <2>1, <2>2, Writes
<1>5. CASE Quiet
  <2>1. UNCHANGED <<db, session, opt>>
    BY <1>5, NoneWritten
  <2>2. session = 0 => pc' = "done"
    BY <1>5 DEF SessionsBehind, Quiet, Prepare, NoTemplate, Fit, ReadMsrFile, PrepareGlobal,
       PrepareOne, FitOne, OnesDone, Merge, FitGlobal, ReadGlobal, Interrupt, Terminated, vars, prog
  <2>3. pc' \in {"fit", "read", "write"} => i' <= N
    BY <1>5 DEF RowsBehind, Quiet, Prepare, NoTemplate, Fit, ReadMsrFile, PrepareGlobal,
       PrepareOne, FitOne, OnesDone, Merge, FitGlobal, ReadGlobal, Interrupt, Terminated, vars,
       prog, GoTo, AfterPrepare
  <2>4. pc' \in BeforeRows => pc \in BeforeRows
    BY <1>5 DEF BeforeRows, Quiet, Prepare, NoTemplate, Fit, ReadMsrFile, PrepareGlobal,
       PrepareOne, FitOne, OnesDone, Merge, FitGlobal, ReadGlobal, Interrupt, Terminated, vars,
       prog, GoTo, AfterPrepare
  <2>5. i' = i \/ i' = i + 1 \/ pc \in BeforeRows
    BY <1>5 DEF BeforeRows, Quiet, Prepare, NoTemplate, Fit, ReadMsrFile, PrepareGlobal,
       PrepareOne, FitOne, OnesDone, Merge, FitGlobal, ReadGlobal, Interrupt, Terminated, vars, prog
  <2>6. \A k \in RowsNow : db[k].pos < i'
    <3>1. CASE pc \in BeforeRows
      BY <3>1 DEF RowsBehind
    <3>2. CASE i' = i \/ i' = i + 1
      BY <1>1, <3>2 DEF RowsBehind, RowsOfRuns
    <3> QED BY <2>5, <3>1, <3>2
  <2>7. RowsNow' = RowsNow /\ N' = N /\ RowsInOrder' /\ RowsOfRuns' /\ SessionsBehind'
    BY <2>1, <2>2, SameRows
  <2>8. RowsBehind'
    BY <2>1, <2>3, <2>4, <2>6, <2>7 DEF RowsBehind
  <2> QED BY <2>7, <2>8
<1> QED BY <1>2, <1>3, <1>4, <1>5, NextIs

LEMMA RowsInvAtStart == Init => RowsInv
<1> SUFFICES ASSUME Init PROVE RowsInv
  OBVIOUS
<1>1. PICK d \in InitialDirs : db = d[2]
  BY DEF Init
<1>2. OlderDb(db)
  BY <1>1, Msr2DataAssumption
<1>3. SessionsBehind
  BY <1>2 DEF Init, SessionsBehind, OlderDb
<1>4. RowsNow = {}
  BY DEF Init, RowsNow
<1> QED BY <1>3, <1>4 DEF Init, RowsInv, RowsBehind, RowsInOrder, RowsOfRuns, BeforeRows

-----------------------------------------------------------------------------
(* The valid fits. *)

(* A list with a run twice has a row of a fit which is done again later.   *)
NoRunTwice ==
  \A o \in Options : \A a, b \in DOMAIN o.list : o.list[a] = o.list[b] => a = b

Positions == {db[k].pos : k \in RowsNow}
FitIsValid(a) == Readable(FileOf(a)) /\ files[FileOf(a)].valid

(* The runs gone through have a row if their fit is valid.                 *)
RunSteps == {"run", "fit", "read", "write"}
RowsOfSingles ==
  /\ pc \in RunSteps /\ opt.out => Positions = {a \in 1..N : a < i /\ FitIsValid(a)}
  /\ pc = "write" => Readable(Msr(Present)) /\ msr = files[Msr(Present)]

(* Of a global file all of them have one, or none.  If it is not valid the *)
(* handler is gone after the first run.                                    *)
RowsOfGlobal ==
  pc = "gwrite" =>
    \/ i = 1 /\ RowsNow = {} /\ Readable(GlobalName) /\ msr = files[GlobalName]
    \/ /\ i > 1 /\ i <= N + 1 /\ Positions = 1..i - 1
       /\ Readable(GlobalName) /\ files[GlobalName].valid
       /\ i <= N => msr = files[GlobalName]
    \/ i > 1 /\ RowsNow = {} /\ ~files[GlobalName].valid /\ msr = None

StepsOfMode ==
  /\ opt.global = "no" => pc \notin BeforeRows \cup {"gwrite"}
  /\ opt.global # "no" => pc \notin RunSteps
  /\ pc \in {"global", "merge", "gfit", "gread"} => i = 1
MsrFilesKnown == \A o \in Options : \A a \in DOMAIN o.list : Msr(o.list[a]) \in DOMAIN files

FitsInv == MsrFilesKnown /\ StepsOfMode /\ RowsOfSingles /\ RowsOfGlobal /\ NoFitLost

(* One mode's steps do not lead to the other's, and no file is forgotten.  *)
LEMMA ModeKept ==
  ASSUME TypeOfRest, MsrFilesKnown, StepsOfMode, [Next]_vars
  PROVE  MsrFilesKnown' /\ StepsOfMode'
<1> USE DEF StepsOfMode, BeforeRows, RunSteps
<1>1. CASE Start
  <2>1. UNCHANGED files /\ i' = 1
    BY <1>1 DEF Start
  <2>2. pc' = "error" \/ pc' = (IF opt'.global = "no" THEN "run" ELSE "global")
    BY <1>1 DEF Start, GoTo
  <2> QED BY <2>1, <2>2 DEF MsrFilesKnown
<1>2. CASE End
  BY <1>2 DEF End, GoTo, prog, MsrFilesKnown
<1>3. CASE WriteOutput \/ WriteGlobal
  <2>1. /\ UNCHANGED <<files, opt>>
        /\ \/ pc' \in {"error", "crashed"}
           \/ pc = "write" /\ pc' = "run"
           \/ pc = "gwrite" /\ pc' = "gwrite"
    BY <1>3, Writes, WriteIs
  <2> QED BY <2>1 DEF MsrFilesKnown
<1>4. CASE Quiet
  <2>1. opt' = opt
    BY <1>4, NoneWritten
  <2>2. DOMAIN files' = DOMAIN files
    BY <1>4 DEF Quiet, Prepare, NoTemplate, Fit, ReadMsrFile, PrepareGlobal,
       PrepareOne, FitOne, OnesDone, Merge, FitGlobal, ReadGlobal, Interrupt, Terminated, vars,
       Put, Musrfit
  <2>3. StepsOfMode'
    BY <1>4, <2>1 DEF Quiet, Prepare, NoTemplate, Fit, ReadMsrFile, PrepareGlobal,
       PrepareOne, FitOne, OnesDone, Merge, FitGlobal, ReadGlobal, Interrupt, Terminated, vars,
       prog, GoTo, AfterPrepare
  <2> QED BY <2>2, <2>3 DEF MsrFilesKnown
<1> QED BY <1>1, <1>2, <1>3, <1>4, NextIs

(* The file of one run is prepared and fitted: the others stay.            *)
LEMMA OthersStay ==
  ASSUME TypeOfRest, NoRunTwice, MsrFilesKnown, RowsBehind, Prepare \/ Fit,
         NEW a \in 1..N, a < i
  PROVE  files'[Msr(opt.list[a])] = files[Msr(opt.list[a])]
<1>1. i \in 1..N /\ DOMAIN opt.list = 1..N
  BY LengthOfList DEF TypeOfRest, Prepare, RowsBehind, Fit
<1>2. opt.list[a] # opt.list[i]
  <2>1. N \in Nat /\ opt \in Options
    BY LengthOfList DEF TypeOfRest
  <2>2. a # i
    BY <1>1, <2>1
  <2>3. a \in DOMAIN opt.list /\ i \in DOMAIN opt.list
    BY <1>1
  <2> QED BY <2>1, <2>2, <2>3 DEF NoRunTwice
<1>3. PICK name, other : name = Msr(Present) /\ other = Msr(opt.list[a])
  OBVIOUS
<1>4. other # name /\ other \in DOMAIN files
  BY <1>1, <1>2, <1>3 DEF Msr, Present, MsrFilesKnown, TypeOfRest
<1>5. UNCHANGED files \/ \E doc : files' = [files EXCEPT ![name] = doc]
  BY <1>3 DEF Prepare, Fit, Put, Musrfit
<1> QED BY <1>3, <1>4, <1>5

LEMMA SinglesKept ==
  ASSUME NoneIsNoSequence, NoRunTwice, TypeOfRest, RowsInv, FitsInv, [Next]_vars
  PROVE  RowsOfSingles'
<1>1. i \in Nat \ {0} /\ N \in Nat
  BY LengthOfList DEF TypeOfRest
<1>2. CASE Start
  <2>1. Positions' = {} /\ i' = 1
    BY <1>2, NoRowsAtStart DEF RowsInv, Positions
  <2>2. pc' # "write"
    BY <1>2 DEF Start, GoTo
  <2>3. {a \in 1..N' : a < 1 /\ FitIsValid(a)'} = {}
    OBVIOUS
  <2> QED BY <2>1, <2>2, <2>3 DEF RowsOfSingles
<1>3. CASE End
  BY <1>3 DEF End, GoTo, RowsOfSingles, RunSteps
<1>4. CASE WriteOutput
  <2>1. pc = "write" /\ opt.out /\ opt.global = "no" /\ i <= N /\ msr = files[Msr(Present)]
        /\ Readable(Msr(Present))
    BY <1>4 DEF WriteOutput, TypeOfRest, FitsInv, StepsOfMode, RunSteps, RowsInv, RowsBehind,
       RowsOfSingles
  <2>2. PICK pars : Write(pars, "run")
    BY <1>4 DEF WriteOutput
  <2>3. UNCHANGED <<files, opt, session>>
    BY <2>2, WriteIs
  <2>4. N' = N /\ \A a \in 1..N : FitIsValid(a)' <=> FitIsValid(a)
    BY <2>3 DEF N, FitIsValid, FileOf, GlobalName, Readable
  <2>5. FitIsValid(i) <=> msr.valid
    BY <2>1 DEF FitIsValid, FileOf, Present
  <2>6. Positions = {a \in 1..N : a < i /\ FitIsValid(a)}
    BY <2>1 DEF FitsInv, RowsOfSingles, RunSteps
  <2>7. CASE pc' = "error"
    BY <2>7 DEF RowsOfSingles, RunSteps
  <2>8. CASE pc' = "run" /\ i' = i + 1 /\ msr.valid /\
          \E ind : Append_(ind, pars) /\ (opt.runlist => ind = Present)
    <3>1. Active
      BY <2>1 DEF Active
    <3>2. Positions' = Positions \cup {i}
      BY <2>1, <2>3, <2>8, <3>1, RowBehind DEF Positions
    <3>3. Positions' = {a \in 1..N' : a < i' /\ FitIsValid(a)'}
      BY <1>1, <2>1, <2>4, <2>5, <2>6, <2>8, <3>2
    <3> QED BY <2>8, <3>3 DEF RowsOfSingles
  <2>9. CASE pc' = "run" /\ i' = i + 1 /\ ~msr.valid /\ UNCHANGED <<db, header>>
    <3>1. Positions' = Positions
      BY <2>3, <2>9 DEF Positions, RowsNow
    <3>2. Positions' = {a \in 1..N' : a < i' /\ FitIsValid(a)'}
      BY <1>1, <2>1, <2>4, <2>5, <2>6, <2>9, <3>1
    <3> QED BY <2>9, <3>2 DEF RowsOfSingles
  <2> QED BY <2>2, <2>7, <2>8, <2>9, WriteIs
<1>5. CASE WriteGlobal
  <2>1. pc' \notin RunSteps
    BY <1>5, Writes, WriteIs DEF WriteGlobal, RunSteps
  <2> QED BY <2>1 DEF RowsOfSingles, RunSteps
<1>6. CASE Quiet
  <2>1. UNCHANGED <<db, opt, session>>
    BY <1>6, NoneWritten
  <2>2. Positions' = Positions /\ N' = N
    BY <2>1 DEF Positions, RowsNow, N
  <2>3. CASE Prepare \/ Fit
    <3>1. i' = i /\ pc \in {"run", "fit"} /\ pc' \in {"fit", "read", "error"}
      BY <2>3 DEF Prepare, Fit, AfterPrepare, GoTo, prog
    <3>2. opt.global = "no"
      BY <3>1 DEF FitsInv, StepsOfMode, RunSteps
    <3>3. \A a \in 1..N : a < i => (FitIsValid(a)' <=> FitIsValid(a))
      BY <2>1, <2>3, <3>2, OthersStay DEF FitIsValid, FileOf, Readable, RowsInv, FitsInv
    <3>4. opt.out => Positions = {a \in 1..N : a < i /\ FitIsValid(a)}
      BY <3>1 DEF FitsInv, RowsOfSingles, RunSteps
    <3> QED BY <2>1, <2>2, <3>1, <3>3, <3>4 DEF RowsOfSingles
  <2>4. CASE NoTemplate \/ ReadMsrFile
    <3>1. files' = files /\ pc \in {"run", "read"}
      BY <2>4 DEF NoTemplate, ReadMsrFile
    <3>2. \A a \in 1..N : FitIsValid(a)' <=> FitIsValid(a)
      BY <2>1, <3>1 DEF FitIsValid, FileOf, GlobalName, Readable
    <3>3. opt.out => Positions = {a \in 1..N : a < i /\ FitIsValid(a)}
      BY <3>1 DEF FitsInv, RowsOfSingles, RunSteps
    <3>4. CASE i' = i /\ pc' # "write"
      BY <2>1, <2>2, <3>2, <3>3, <3>4 DEF RowsOfSingles
    <3>5. CASE pc' = "write"
      <4>1. i' = i /\ msr' = files[Msr(Present)] /\ Readable(Msr(Present))
        BY <2>4, <3>5 DEF NoTemplate, ReadMsrFile, GoTo
      <4> QED BY <2>1, <2>2, <3>1, <3>2, <3>3, <4>1 DEF RowsOfSingles, Present, Msr, Readable
    <3>6. CASE pc' = "run" /\ i' = i + 1 /\ pc = "read" /\ (opt.out => ~Readable(Msr(Present)))
      <4>1. opt.global = "no"
        BY <3>6 DEF FitsInv, StepsOfMode, RunSteps
      <4>2. opt.out => ~FitIsValid(i)
        BY <3>6, <4>1 DEF FitIsValid, FileOf, Present
      <4>3. opt.out => Positions' = {a \in 1..N' : a < i' /\ FitIsValid(a)'}
        BY <1>1, <2>2, <3>2, <3>3, <3>6, <4>2
      <4> QED BY <2>1, <3>6, <4>3 DEF RowsOfSingles
    <3> QED BY <2>4, <3>4, <3>5, <3>6 DEF NoTemplate, ReadMsrFile, GoTo, prog
  <2>5. CASE \/ PrepareGlobal \/ PrepareOne \/ FitOne \/ OnesDone \/ Merge
             \/ FitGlobal \/ ReadGlobal \/ Interrupt \/ Terminated
    <3>1. pc' \notin RunSteps
      BY <2>5 DEF RunSteps, PrepareGlobal, PrepareOne, FitOne, OnesDone, Merge, FitGlobal,
         ReadGlobal, Interrupt, Terminated, vars, GoTo
    <3> QED BY <3>1 DEF RowsOfSingles, RunSteps
  <2>6. CASE UNCHANGED vars
    BY <2>6 DEF vars, prog, FitsInv, RowsOfSingles, Positions, RowsNow, N, FitIsValid, FileOf,
       GlobalName, Readable, Msr, Present
  <2> QED BY <1>6, <2>3, <2>4, <2>5, <2>6 DEF Quiet
<1> QED BY <1>2, <1>3, <1>4, <1>5, <1>6, NextIs

LEMMA GlobalKept ==
  ASSUME NoneIsNoSequence, TypeOfRest, RowsInv, FitsInv, [Next]_vars
  PROVE  RowsOfGlobal'
<1>1. i \in Nat \ {0} /\ N \in Nat
  BY LengthOfList DEF TypeOfRest
<1>2. CASE Start
  BY <1>2 DEF Start, GoTo, RowsOfGlobal
<1>3. CASE End
  BY <1>3 DEF End, GoTo, RowsOfGlobal
<1>4. CASE WriteOutput
  <2>1. pc' # "gwrite"
    BY <1>4, WriteIs DEF WriteOutput
  <2> QED BY <2>1 DEF RowsOfGlobal
<1>5. CASE WriteGlobal
  <2>1. CASE pc' \in {"crashed", "error"}
    BY <2>1 DEF RowsOfGlobal
  <2>2. ASSUME NEW pars, Write(pars, "gwrite"), pc = "gwrite", i <= N, msr # None, pc' # "error"
        PROVE  RowsOfGlobal'
    <3>1. UNCHANGED <<files, opt, session>> /\ i' = i + 1
          /\ msr' = (IF msr.valid /\ i < N THEN msr ELSE None)
      BY <2>2, WriteIs
    <3>2. GlobalName' = GlobalName /\ N' = N
      BY <3>1 DEF GlobalName, N
    <3>3. Readable(GlobalName) /\ msr = files[GlobalName] /\ Positions = 1..i - 1
          /\ (i > 1 => files[GlobalName].valid) /\ (i = 1 => RowsNow = {})
      <4>1. RowsNow = {} /\ i = 1 => Positions = 1..i - 1
        BY DEF Positions
      <4> QED BY <1>1, <2>2, <4>1 DEF FitsInv, RowsOfGlobal
    <3>4. CASE msr.valid /\ \E ind : Append_(ind, pars) /\ (opt.runlist => ind = Present)
      <4>1. Active
        BY <2>2 DEF Active
      <4>2. Positions' = Positions \cup {i}
        BY <2>2, <3>1, <3>4, <4>1, RowBehind DEF Positions
      <4>3. Positions' = 1..i' - 1
        BY <1>1, <3>1, <3>3, <4>2
      <4>4. i' > 1 /\ i' <= N' + 1 /\ (i' <= N' => msr' = files'[GlobalName'])
        BY <1>1, <2>2, <3>1, <3>2, <3>3, <3>4
      <4>5. Readable(GlobalName)' /\ files'[GlobalName'].valid
        BY <3>1, <3>2, <3>3, <3>4 DEF Readable
      <4> QED BY <4>3, <4>4, <4>5 DEF RowsOfGlobal
    <3>5. CASE ~msr.valid /\ UNCHANGED <<db, header>>
      <4>1. i = 1 /\ RowsNow = {}
        BY <1>1, <3>3, <3>5
      <4>2. RowsNow' = {}
        BY <3>1, <3>5, <4>1 DEF RowsNow
      <4>3. i' > 1 /\ msr' = None /\ ~files'[GlobalName'].valid
        BY <3>1, <3>2, <3>3, <3>5, <4>1
      <4> QED BY <4>2, <4>3 DEF RowsOfGlobal
    <3> QED BY <2>2, <3>4, <3>5, WriteIs
  <2>3. pc = "gwrite"
    BY <1>5 DEF WriteGlobal
  <2> QED BY <1>5, <2>1, <2>2, <2>3, Writes
<1>6. CASE Quiet
  <2>1. CASE ReadGlobal
    <3>1. UNCHANGED <<db, opt, session, files, i>> /\ pc = "gread"
      BY <2>1 DEF ReadGlobal
    <3>2. pc' = "gwrite" => msr' = files[GlobalName] /\ Readable(GlobalName)
      BY <2>1 DEF ReadGlobal, GoTo
    <3>3. i = 1 /\ RowsNow = {}
      BY <3>1 DEF FitsInv, StepsOfMode, RowsInv, RowsBehind, BeforeRows
    <3> QED BY <3>1, <3>2, <3>3 DEF RowsOfGlobal, RowsNow, GlobalName, Readable
  <2>2. CASE UNCHANGED vars
    BY <2>2 DEF vars, prog, FitsInv, RowsOfGlobal, Positions, RowsNow, N, GlobalName, Readable
  <2>3. CASE ~ReadGlobal /\ ~UNCHANGED vars
    <3>1. pc' # "gwrite"
      BY <1>6, <2>3 DEF Quiet, Prepare, NoTemplate, Fit, ReadMsrFile, PrepareGlobal,
         PrepareOne, FitOne, OnesDone, Merge, FitGlobal, Interrupt, Terminated, vars,
         GoTo, AfterPrepare
    <3> QED BY <3>1 DEF RowsOfGlobal
  <2> QED BY <2>1, <2>2, <2>3
<1> QED BY <1>2, <1>3, <1>4, <1>5, <1>6, NextIs

LEMMA EndLosesNone ==
  ASSUME TypeOfRest, RowsInv, FitsInv, [Next]_vars
  PROVE  NoFitLost'
<1>1. i \in Nat \ {0} /\ N \in Nat
  BY LengthOfList DEF TypeOfRest
<1>2. NoFitLost' <=> (pc' = "done" /\ session' > 0 /\ opt'.out =>
                       Positions' = {a \in 1..N' : FitIsValid(a)'})
  BY DEF NoFitLost, Positions, FitIsValid
<1>3. CASE End
  <2>1. UNCHANGED <<files, session, opt, i>> /\ pc \in {"run", "gwrite"} /\ i > N
    BY <1>3 DEF End, prog
  <2>2. N' = N /\ \A a \in 1..N : FitIsValid(a)' <=> FitIsValid(a)
    BY <2>1 DEF N, FitIsValid, FileOf, GlobalName, Readable
  <2>3. Positions' = Positions
    <3>1. CASE db' = db
      BY <2>1, <3>1 DEF Positions, RowsNow
    <3>2. CASE db = <<>> /\ db' = <<Blank>>
      <4>1. RowsNow = {} /\ RowsNow' = {}
        BY <2>1, <3>2 DEF RowsNow, Blank
      <4> QED BY <4>1 DEF Positions
    <3> QED BY <1>3, <3>1, <3>2 DEF End
  <2>4. opt.out => Positions = {a \in 1..N : FitIsValid(a)}
    <3>1. CASE pc = "run"
      BY <1>1, <2>1, <3>1 DEF FitsInv, RowsOfSingles, RunSteps
    <3>2. CASE pc = "gwrite"
      <4>1. opt.global # "no"
        BY <3>2 DEF FitsInv, StepsOfMode
      <4>2. \A a \in 1..N : FitIsValid(a) <=> Readable(GlobalName) /\ files[GlobalName].valid
        BY <4>1 DEF FitIsValid, FileOf
      <4>3. CASE i = 1 /\ RowsNow = {}
        <5>1. Positions = {} /\ 1..N = {}
          BY <1>1, <2>1, <4>3 DEF Positions
        <5> QED BY <5>1
      <4>4. CASE i <= N + 1 /\ Positions = 1..i - 1 /\ Readable(GlobalName) /\ files[GlobalName].valid
        <5>1. i - 1 = N
          BY <1>1, <2>1, <4>4
        <5> QED BY <4>2, <4>4, <5>1
      <4>5. CASE RowsNow = {} /\ ~files[GlobalName].valid
        BY <4>2, <4>5 DEF Positions
      <4> QED BY <3>2, <4>3, <4>4, <4>5 DEF FitsInv, RowsOfGlobal
    <3> QED BY <2>1, <3>1, <3>2
  <2> QED BY <1>2, <2>1, <2>2, <2>3, <2>4
<1>4. CASE UNCHANGED vars \/ Terminated
  BY <1>4 DEF vars, prog, Terminated, FitsInv, NoFitLost, RowsNow, N, FileOf, GlobalName, Readable
<1>5. CASE ~End /\ ~UNCHANGED vars /\ ~Terminated
  <2>1. pc' = "done" => ~opt'.out
    <3>1. CASE Start
      BY <3>1 DEF Start, GoTo
    <3>2. CASE WriteOutput \/ WriteGlobal
      BY <3>2, Writes, WriteIs
    <3>3. CASE Quiet
      BY <1>5, <3>3 DEF Quiet, Prepare, NoTemplate, Fit, ReadMsrFile, PrepareGlobal,
         PrepareOne, FitOne, OnesDone, Merge, FitGlobal, ReadGlobal, Interrupt,
         GoTo, AfterPrepare
    <3> QED BY <1>5, <3>1, <3>2, <3>3, NextIs
  <2> QED BY <1>2, <2>1
<1> QED BY <1>3, <1>4, <1>5

(* When msr2data comes to its end the runs whose fit is valid have a row,  *)
(* and no others (ReadMsrFile, WriteOutput): for every list in which no    *)
(* run is twice, and wherever the fits of others have failed.              *)
THEOREM FitsInDb ==
  ASSUME NoneIsNoSequence, NoRunTwice
  PROVE  Spec => []NoFitLost
<1>1. Init => TypeOfRest /\ RowsInv /\ FitsInv
  <2> SUFFICES ASSUME Init PROVE FitsInv
    BY TypeAtStart, RowsInvAtStart
  <2>1. PICK d \in InitialDirs : files = d[1]
    BY DEF Init
  <2>2. MsrFilesKnown
    <3>1. ASSUME NEW o \in Options, NEW a \in DOMAIN o.list PROVE Msr(o.list[a]) \in DOMAIN files
      <4>1. {"msr", "one", "global"} \X ToSet(o.list) \subseteq DOMAIN files
        BY <2>1, Msr2DataAssumption DEF DirectoryOf, RunsOf
      <4>2. o.list[a] \in ToSet(o.list)
        BY DEF ToSet
      <4> QED BY <4>1, <4>2 DEF Msr
    <3> QED BY <3>1 DEF MsrFilesKnown
  <2> QED BY <2>2 DEF Init, FitsInv, StepsOfMode, RowsOfSingles, RowsOfGlobal, NoFitLost, BeforeRows,
             RunSteps
<1>2. TypeOfRest /\ RowsInv /\ FitsInv /\ [Next]_vars => (TypeOfRest /\ RowsInv /\ FitsInv)'
  BY TypeOfRestKept, RowsInvKept, ModeKept, SinglesKept, GlobalKept, EndLosesNone DEF FitsInv
<1>3. FitsInv => NoFitLost
  BY DEF FitsInv
<1> QED BY <1>1, <1>2, <1>3, PTL DEF Spec

-----------------------------------------------------------------------------
(* The msr-files that are made of others. *)

OwnOf(doc, name, s) == \A k \in DOMAIN doc.par : doc.par[k].val = [of |-> name, s |-> s]

LEMMA FittedDoc ==
  ASSUME NEW doc, Document(doc), NEW name
  PROVE  /\ Document(Fitted(name, doc)) /\ OwnOf(Fitted(name, doc), name, session)
         /\ DOMAIN Fitted(name, doc).par = DOMAIN doc.par
<1> DEFINE pars == [k \in DOMAIN doc.par |->
                     [name |-> doc.par[k].name, run |-> doc.par[k].run,
                      val |-> [of |-> name, s |-> session]]]
<1>1. PICK n \in Nat : DOMAIN doc.par = 1..n
  <2>1. doc.par \in Seq(ToSet(doc.par))
    BY DEF Document
  <2> QED BY <2>1
<1>2. Fitted(name, doc) = [doc EXCEPT !.valid = TRUE, !.par = pars]
  BY DEF Fitted
<1>3. DOMAIN pars = DOMAIN doc.par /\ pars \in Seq(ToSet(pars))
  <2>1. PICK f : f = pars
    OBVIOUS
  <2>2. DOMAIN f = 1..n /\ f = [k \in 1..n |-> f[k]]
    BY <1>1, <2>1
  <2>3. f \in [1..n -> ToSet(f)]
    BY <2>2 DEF ToSet
  <2>4. f \in Seq(ToSet(f))
    BY <2>3
  <2> QED BY <1>1, <2>1, <2>2, <2>4
<1>4. \A k \in DOMAIN doc.par : pars[k].val = [of |-> name, s |-> session]
  OBVIOUS
<1> HIDE DEF pars
<1>5. PICK f : f = Fitted(name, doc)
  OBVIOUS
<1>6. DOMAIN f = DOMAIN doc /\ f.par = pars
  BY <1>2, <1>5 DEF Document
<1> QED BY <1>3, <1>4, <1>5, <1>6 DEF Document, OwnOf

LEMMA NotConvergedDoc ==
  ASSUME NEW doc, Document(doc)
  PROVE  /\ Document(NotConverged(doc)) /\ ~NotConverged(doc).valid
         /\ NotConverged(doc).par = doc.par
BY DEF NotConverged, Document

LEMMA NewInputDoc ==
  ASSUME NEW doc, Document(doc), NEW temp, NEW run, NEW d
  PROVE  \/ NewInput(doc, temp, run, d) = Broken
         \/ Document(NewInput(doc, temp, run, d)) /\ ~NewInput(doc, temp, run, d).valid
<1>1. PICK w : w = WithData(doc, temp, run, d)
  OBVIOUS
<1>2. DOMAIN w = DOMAIN doc /\ w.par = doc.par
  BY <1>1 DEF WithData, Document
<1>3. Document(w)
  BY <1>2 DEF Document
<1> QED BY <1>1, <1>3, NotConvergedDoc DEF NewInput

LEMMA SortedDoc ==
  ASSUME NEW doc, Document(doc), NEW run
  PROVE  Document(Sorted(doc, run)) /\ ~Sorted(doc, run).valid
<1>1. PICK n \in Nat : DOMAIN doc.par = 1..n
  <2>1. doc.par \in Seq(ToSet(doc.par))
    BY DEF Document
  <2> QED BY <2>1
<1>2. PICK f : f = [i_ \in DOMAIN doc.par |-> doc.par[Order(doc, run)[i_]]]
  OBVIOUS
<1>3. f \in Seq(ToSet(f))
  <2>1. f = [k \in 1..n |-> f[k]]
    BY <1>1, <1>2
  <2>2. f \in [1..n -> ToSet(f)]
    BY <2>1 DEF ToSet
  <2> QED BY <2>2
<1>4. PICK s : s = Sorted(doc, run)
  OBVIOUS
<1>5. {"par", "valid"} \subseteq DOMAIN s /\ s.par = f /\ s.valid = FALSE
  BY <1>2, <1>4 DEF Sorted
<1> QED BY <1>3, <1>4, <1>5 DEF Document

(* The parameters are counted: some for all runs, some for each of them.   *)
LEMMA SpecificCounted ==
  ASSUME NEW doc, Document(doc), NEW run
  PROVE  /\ NoOfSpecific(doc, run) \in Nat
         /\ Len(doc.par) - NoOfSpecific(doc, run) \in Nat
<1>1. doc.par \in Seq(ToSet(doc.par))
  BY DEF Document
<1>2. PICK n \in Nat : n = Len(doc.par) /\ DOMAIN doc.par = 1..n
  BY <1>1
<1>3. PICK S : S = {k \in DOMAIN doc.par : IsSpecific(doc, k, run)}
  OBVIOUS
<1>4. S \subseteq 1..n
  BY <1>2, <1>3
<1>5. IsFiniteSet(1..n) /\ Cardinality(1..n) = n
  BY FS_Interval
<1>6. Cardinality(S) <= n /\ Cardinality(S) \in Nat
  BY <1>4, <1>5, FS_Subset, FS_CardinalityType
<1>7. NoOfSpecific(doc, run) = Cardinality(S)
  BY <1>3 DEF NoOfSpecific
<1> QED BY <1>2, <1>6, <1>7

LEMMA GlobalDoc ==
  ASSUME NEW doc, Document(doc), ~doc.valid, NEW temp, NEW list, Len(list) \in Nat, NEW ones, NEW d
  PROVE  /\ Document(GlobalFile(doc, temp, list, ones, d)) /\ ~GlobalFile(doc, temp, list, ones, d).valid
         /\ NoOfSpecific(doc, temp) = 0 /\ Len(doc.par) = 0
              => DOMAIN GlobalFile(doc, temp, list, ones, d).par = {}
<1>1. PICK g : g = GlobalFile(doc, temp, list, ones, d)
  OBVIOUS
<1>2. DOMAIN g = DOMAIN doc /\ (g.valid <=> doc.valid)
  BY <1>1 DEF GlobalFile, Document
<1>3. PICK glob, spec : /\ spec = NoOfSpecific(doc, temp) /\ glob = Len(doc.par) - spec
                        /\ spec \in Nat /\ glob \in Nat
  BY SpecificCounted
<1>4. PICK len \in Nat : len = Len(list)
  OBVIOUS
<1>5. DOMAIN g.par = 1..glob + len * spec /\ g.par = [k \in DOMAIN g.par |-> g.par[k]]
  BY <1>1, <1>3, <1>4 DEF GlobalFile, Document
<1>6. glob + len * spec \in Nat
  BY <1>3, <1>4
<1>7. g.par \in Seq(ToSet(g.par))
  <2>1. PICK n \in Nat : n = glob + len * spec
    BY <1>6
  <2>2. g.par \in [1..n -> ToSet(g.par)]
    BY <1>5, <2>1 DEF ToSet
  <2> QED BY <2>2
<1>8. spec = 0 /\ Len(doc.par) = 0 => DOMAIN g.par = {}
  <2> SUFFICES ASSUME spec = 0, Len(doc.par) = 0 PROVE DOMAIN g.par = {}
    OBVIOUS
  <2>1. glob = 0 /\ len * spec = 0
    BY <1>3, <1>4
  <2> QED BY <1>5, <2>1
<1> QED BY <1>1, <1>2, <1>3, <1>7, <1>8 DEF Document

-----------------------------------------------------------------------------
(* Files that can be read are documents. *)

FilesShaped ==
  /\ \A o \in Options : {"msr", "one", "global"} \X RunsOf(o) \subseteq DOMAIN files
  /\ \A n \in DOMAIN files : n[1] # "one" /\ Readable(n) => Document(files[n])

(* The template is one of the files, and sorted there is nothing valid in  *)
(* it: its parameters are as many as they have been counted.               *)
TemplateKnown ==
  /\ pc = "global" => firstrun
  /\ pc \in RunSteps \cup {"one", "onefit"} /\ ~firstrun => oldtemp \in ToSet(opt.list)
  /\ pc \in {"one", "onefit", "merge"} =>
       /\ opt.temp > 0 /\ Document(msr) /\ ~msr.valid
       /\ num.spec = NoOfSpecific(msr, opt.temp) /\ num.glob = Len(msr.par) - num.spec

LEMMA NamesKnown ==
  ASSUME TypeOfRest, FilesShaped
  PROVE  /\ opt.temp > 0 => Msr(opt.temp) \in DOMAIN files
         /\ \A run \in ToSet(opt.list) : Msr(run) \in DOMAIN files /\ <<"global", run>> \in DOMAIN files
         /\ i <= N => Present \in ToSet(opt.list)
         /\ N > 0 => GlobalName \in DOMAIN files
<1>1. opt \in Options /\ opt.temp \in Int /\ i \in Nat \ {0} /\ N \in Nat /\ DOMAIN opt.list = 1..N
  BY Msr2DataAssumption, LengthOfList DEF TypeOfRest
<1>2. ToSet(opt.list) \subseteq RunsOf(opt) /\ (opt.temp > 0 => opt.temp \in RunsOf(opt))
  BY <1>1 DEF RunsOf
<1>3. \A run \in RunsOf(opt) : <<"msr", run>> \in DOMAIN files /\ <<"global", run>> \in DOMAIN files
  BY <1>1 DEF FilesShaped
<1>4. \A a \in 1..N : opt.list[a] \in ToSet(opt.list)
  BY <1>1 DEF ToSet
<1>5. opt.temp > 0 => Msr(opt.temp) \in DOMAIN files
  BY <1>2, <1>3 DEF Msr
<1>6. \A run \in ToSet(opt.list) : Msr(run) \in DOMAIN files /\ <<"global", run>> \in DOMAIN files
  BY <1>2, <1>3 DEF Msr
<1>7. i <= N => Present \in ToSet(opt.list)
  <2>1. i <= N => i \in 1..N
    BY <1>1
  <2> QED BY <1>4, <2>1 DEF Present
<1>8. N > 0 => GlobalName \in DOMAIN files
  <2>1. N > 0 => 1 \in 1..N
    BY <1>1
  <2> QED BY <1>4, <1>6, <2>1 DEF GlobalName
<1> QED BY <1>5, <1>6, <1>7, <1>8

LEMMA PutShaped ==
  ASSUME FilesShaped, NEW name, NEW doc, Put(name, doc),
         name \in DOMAIN files => name[1] = "one" \/ doc \in {None, Broken} \/ Document(doc)
  PROVE  FilesShaped'
<1>1. DOMAIN files' = DOMAIN files
  BY DEF Put
<1>2. \A n \in DOMAIN files : files'[n] = IF n = name THEN doc ELSE files[n]
  BY DEF Put
<1>3. ASSUME NEW n \in DOMAIN files, n[1] # "one", files'[n] \notin {None, Broken}
      PROVE  Document(files'[n])
  <2>1. CASE n = name
    BY <1>2, <1>3, <2>1
  <2>2. CASE n # name
    BY <1>2, <1>3, <2>2 DEF FilesShaped, Readable
  <2> QED BY <2>1, <2>2
<1> QED BY <1>1, <1>3 DEF FilesShaped, Readable

(* What has been fitted in this session.                                   *)
OwnFile(name) == Readable(name) /\ files[name].valid => OwnOf(files[name], name, session)

LEMMA MusrfitDoc ==
  ASSUME FilesShaped, NEW name, Musrfit(name), session' = session
  PROVE  /\ FilesShaped'
         /\ name \in DOMAIN files /\ name[1] # "one" =>
              /\ OwnFile(name) => OwnFile(name)'
              /\ Readable(name)' =>
                   Readable(name) /\ DOMAIN files'[name].par = DOMAIN files[name].par
<1>1. CASE UNCHANGED files
  BY <1>1 DEF FilesShaped, OwnFile, Readable
<1>2. ASSUME NEW doc, Put(name, doc), Readable(name),
             doc \in {Fitted(name, files[name]), NotConverged(files[name]), Broken}
      PROVE  /\ FilesShaped'
             /\ name \in DOMAIN files /\ name[1] # "one" =>
                  /\ OwnFile(name) => OwnFile(name)'
                  /\ Readable(name)' =>
                       Readable(name) /\ DOMAIN files'[name].par = DOMAIN files[name].par
  <2>1. CASE name \notin DOMAIN files \/ name[1] = "one"
    BY <1>2, <2>1, PutShaped
  <2>2. CASE name \in DOMAIN files /\ name[1] # "one"
    <3>1. Document(files[name])
      BY <1>2, <2>2 DEF FilesShaped
    <3>2. files'[name] = doc
      BY <1>2, <2>2 DEF Put
    <3>3. CASE doc = Broken
      BY <1>2, <2>2, <3>2, <3>3, PutShaped DEF OwnFile, Readable
    <3>4. CASE doc = Fitted(name, files[name])
      <4>1. /\ Document(doc) /\ OwnOf(doc, name, session)
            /\ DOMAIN doc.par = DOMAIN files[name].par
        BY <3>1, <3>4, FittedDoc
      <4>2. FilesShaped'
        BY <1>2, <4>1, PutShaped
      <4> QED BY <1>2, <3>2, <4>1, <4>2 DEF OwnFile
    <3>5. CASE doc = NotConverged(files[name])
      <4>1. Document(doc) /\ ~doc.valid /\ doc.par = files[name].par
        BY <3>1, <3>5, NotConvergedDoc
      <4>2. FilesShaped'
        BY <1>2, <4>1, PutShaped
      <4> QED BY <1>2, <3>2, <4>1, <4>2 DEF OwnFile
    <3> QED BY <1>2, <3>3, <3>4, <3>5
  <2> QED BY <2>1, <2>2
<1> QED BY <1>1, <1>2 DEF Musrfit

(* PrepareNewInputFile writes a file that is not valid.                    *)
LEMMA PrepareDoc ==
  ASSUME TypeOfRest, FilesShaped, TemplateKnown, Prepare
  PROVE  /\ FilesShaped'
         /\ \/ UNCHANGED files /\ Template = Present
            \/ pc' = "error"
            \/ ~Readable(Msr(Present))'
            \/ ~files'[Msr(Present)].valid
<1>1. opt.temp > 0 /\ pc = "run" /\ i <= N
  BY DEF Prepare
<1>2. CASE Template = Present \/ ~Exists(Msr(Template))
  BY <1>2 DEF Prepare, FilesShaped, Readable, GoTo
<1>3. CASE Template # Present /\ Exists(Msr(Template))
  <2>1. PICK source, name : source = Msr(Template) /\ name = Msr(Present)
    OBVIOUS
  <2>2. PICK doc : doc = NewInput(files[source], Template, Present, digits)
    OBVIOUS
  <2>3. Put(name, doc)
    BY <1>3, <2>1, <2>2 DEF Prepare
  <2>4. source \in DOMAIN files /\ name \in DOMAIN files /\ source[1] # "one"
    BY <1>1, <2>1, NamesKnown DEF Template, TemplateKnown, RunSteps, Msr
  <2>5. doc = Broken \/ (Document(doc) /\ ~doc.valid)
    <3>1. CASE files[source] = Broken
      BY <2>2, <3>1 DEF NewInput
    <3>2. CASE files[source] # Broken
      <4>1. Document(files[source])
        BY <1>3, <2>1, <2>4, <3>2 DEF FilesShaped, Readable, Exists
      <4> QED BY <2>2, <4>1, NewInputDoc
    <3> QED BY <3>1, <3>2
  <2>6. FilesShaped'
    BY <2>3, <2>5, PutShaped
  <2>7. files'[name] = doc
    BY <2>3, <2>4 DEF Put
  <2>8. Msr(Present)' = name
    BY <2>1 DEF Prepare, Msr, Present
  <2> QED BY <2>1, <2>5, <2>6, <2>7, <2>8 DEF Readable
<1> QED BY <1>2, <1>3

(* PrepareGlobalInputFile writes one for all runs.                         *)
LEMMA MergeDoc ==
  ASSUME TypeOfRest, FilesShaped, TemplateKnown, Merge
  PROVE  /\ FilesShaped'
         /\ N > 0 => /\ Document(files'[GlobalName]) /\ ~files'[GlobalName].valid
                     /\ num = Unknown => DOMAIN files'[GlobalName].par = {}
<1>1. PICK doc : doc = GlobalFile(msr, opt.temp, opt.list, Ones, digits)
  OBVIOUS
<1>2. Put(GlobalName, doc)
  BY <1>1 DEF Merge
<1>3. /\ Document(msr) /\ ~msr.valid
      /\ num.spec = NoOfSpecific(msr, opt.temp) /\ num.glob = Len(msr.par) - num.spec
  BY DEF Merge, TemplateKnown
<1>4. PICK ones : ones = Ones
  OBVIOUS
<1>5. /\ Document(doc) /\ ~doc.valid
      /\ NoOfSpecific(msr, opt.temp) = 0 /\ Len(msr.par) = 0 => DOMAIN doc.par = {}
  <2>1. Len(opt.list) \in Nat
    BY LengthOfList DEF TypeOfRest, N
  <2> QED BY <1>1, <1>3, <1>4, <2>1, GlobalDoc
<1>6. num = Unknown => DOMAIN doc.par = {}
  <2> SUFFICES ASSUME num = Unknown PROVE NoOfSpecific(msr, opt.temp) = 0 /\ Len(msr.par) = 0
    BY <1>5
  <2>1. num.spec = 0 /\ num.glob = 0
    BY DEF Unknown
  <2>2. Len(msr.par) \in Nat
    <3>1. msr.par \in Seq(ToSet(msr.par))
      BY <1>3 DEF Document
    <3> QED BY <3>1
  <2> QED BY <1>3, <2>1, <2>2
<1>7. FilesShaped'
  BY <1>2, <1>5, PutShaped
<1>8. N > 0 => files'[GlobalName] = doc
  BY <1>2, NamesKnown DEF Put
<1> QED BY <1>5, <1>6, <1>7, <1>8

LEMMA FilesShapedKept ==
  ASSUME TypeOfRest, FilesShaped, TemplateKnown, [Next]_vars
  PROVE  FilesShaped'
<1>1. CASE UNCHANGED files
  BY <1>1 DEF FilesShaped, Readable
<1>2. CASE Prepare
  BY <1>2, PrepareDoc
<1>3. CASE Fit
  BY <1>3, MusrfitDoc DEF Fit
<1>4. CASE FitGlobal
  BY <1>4, MusrfitDoc DEF FitGlobal
<1>5. CASE Merge
  BY <1>5, MergeDoc
<1>6. CASE PrepareOne
  <2>1. UNCHANGED files \/ \E doc : Put(One(Present), doc)
    BY <1>6 DEF PrepareOne
  <2>2. One(Present)[1] = "one"
    BY DEF One
  <2> QED BY <1>1, <2>1, <2>2, PutShaped
<1>7. CASE FitOne
  BY <1>7, MusrfitDoc DEF FitOne
<1>8. CASE ~(Prepare \/ Fit \/ FitGlobal \/ Merge \/ PrepareOne \/ FitOne)
  <2>1. UNCHANGED files
    <3>1. CASE Start \/ End
      BY <3>1 DEF Start, End
    <3>2. CASE WriteOutput \/ WriteGlobal
      BY <3>2, Writes, WriteIs
    <3>3. CASE Quiet
      BY <1>8, <3>3 DEF Quiet, NoTemplate, ReadMsrFile, PrepareGlobal,
         OnesDone, ReadGlobal, Interrupt, Terminated, vars
    <3> QED BY <3>1, <3>2, <3>3, NextIs
  <2> QED BY <1>1, <2>1
<1> QED BY <1>2, <1>3, <1>4, <1>5, <1>6, <1>7, <1>8

LEMMA TemplateKept ==
  ASSUME TypeOfRest, FilesShaped, TemplateKnown, RowsBehind, [Next]_vars
  PROVE  TemplateKnown'
<1>1. CASE Start
  BY <1>1 DEF Start, GoTo, TemplateKnown
<1>2. CASE End
  BY <1>2 DEF End, GoTo, TemplateKnown, RunSteps
<1>3. CASE WriteOutput
  <2>1. PICK pars : Write(pars, "run") /\ pc = "write"
    BY <1>3 DEF WriteOutput
  <2>2. UNCHANGED <<opt, firstrun, oldtemp>> /\ pc' \in {"error", "run"}
    BY <2>1, WriteIs DEF Write
  <2> QED BY <2>1, <2>2 DEF TemplateKnown, RunSteps
<1>4. CASE WriteGlobal
  <2>1. pc' \notin RunSteps \cup {"global", "one", "onefit", "merge"}
    BY <1>4, Writes, WriteIs DEF WriteGlobal, RunSteps
  <2> QED BY <2>1 DEF TemplateKnown
<1>5. CASE Prepare \/ PrepareOne
  <2>1. /\ i <= N /\ oldtemp' = Present /\ opt' = opt /\ UNCHANGED <<msr, num>>
        /\ pc' # "global" /\ (pc' \in {"one", "onefit", "merge"} => pc = "one")
    BY <1>5 DEF Prepare, PrepareOne, GoTo, AfterPrepare
  <2>2. oldtemp' \in ToSet(opt.list)
    BY <2>1, NamesKnown
  <2> QED BY <2>1, <2>2 DEF TemplateKnown
<1>6. CASE PrepareGlobal
  <2>1. pc' \notin RunSteps \cup {"global"} /\ opt' = opt
    BY <1>6 DEF PrepareGlobal, RunSteps, GoTo
  <2>2. CASE pc' \in {"one", "merge"}
    <3>1. /\ opt.temp > 0 /\ Readable(Msr(opt.temp)) /\ msr' = SortedTemplate
          /\ num' = LET spec == NoOfSpecific(msr', opt.temp)
                    IN  [glob |-> Len(msr'.par) - spec, spec |-> spec, blocks |-> Len(msr'.blocks)]
      <4>1. opt.temp \in Int
        BY Msr2DataAssumption DEF TypeOfRest
      <4> QED BY <1>6, <2>2, <4>1 DEF PrepareGlobal, GoTo
    <3>2. Document(msr') /\ ~msr'.valid
      <4>1. Document(files[Msr(opt.temp)])
        BY <3>1, NamesKnown DEF FilesShaped, Msr
      <4> QED BY <3>1, <4>1, SortedDoc DEF SortedTemplate
    <3>3. firstrun'
      BY <1>6 DEF PrepareGlobal, TemplateKnown
    <3> QED BY <2>1, <2>2, <3>1, <3>2, <3>3 DEF TemplateKnown
  <2>3. CASE pc' \notin {"one", "merge"}
    <3>1. pc' # "onefit"
      BY <1>6 DEF PrepareGlobal, GoTo
    <3> QED BY <2>1, <2>3, <3>1 DEF TemplateKnown
  <2> QED BY <2>2, <2>3
<1>7. CASE Quiet /\ ~(Prepare \/ PrepareOne \/ PrepareGlobal)
  <2>1. UNCHANGED <<opt, firstrun, oldtemp>>
    BY <1>7 DEF Quiet, NoTemplate, Fit, ReadMsrFile, FitOne, OnesDone, Merge, FitGlobal,
       ReadGlobal, Interrupt, Terminated, vars, prog
  <2>2. pc' \in RunSteps \cup {"one", "onefit"} => pc \in RunSteps \cup {"one", "onefit"}
    BY <1>7 DEF Quiet, NoTemplate, Fit, ReadMsrFile, FitOne, OnesDone, Merge, FitGlobal,
       ReadGlobal, Interrupt, Terminated, vars, prog, GoTo, RunSteps
  <2>3. pc' = "global" => pc = "global"
    BY <1>7 DEF Quiet, NoTemplate, Fit, ReadMsrFile, FitOne, OnesDone, Merge, FitGlobal,
       ReadGlobal, Interrupt, Terminated, vars, prog, GoTo
  <2>4. pc' \in {"one", "onefit", "merge"} =>
          pc \in {"one", "onefit", "merge"} /\ UNCHANGED <<msr, num>>
    BY <1>7 DEF Quiet, NoTemplate, Fit, ReadMsrFile, FitOne, OnesDone, Merge, FitGlobal,
       ReadGlobal, Interrupt, Terminated, vars, prog, GoTo
  <2> QED BY <2>1, <2>2, <2>3, <2>4 DEF TemplateKnown
<1> QED BY <1>1, <1>2, <1>3, <1>4, <1>5, <1>6, <1>7, NextIs

-----------------------------------------------------------------------------
(* What is written has been fitted in this session. *)

(* The file of a run is that of the last one prepared.                     *)
OwnSingles ==
  opt.temp > 0 /\ pc \in RunSteps =>
    /\ pc # "run" => ~firstrun /\ oldtemp = Present /\ i <= N
    /\ ~firstrun /\ oldtemp # opt.temp => OwnFile(Msr(oldtemp))
    /\ pc = "write" => Readable(Msr(Present)) /\ msr = files[Msr(Present)]

(* The global file, and what is counted in it.                             *)
OwnDoc(doc) ==
  /\ Document(doc) /\ (doc.valid => OwnOf(doc, GlobalName, session))
  /\ num = Unknown => DOMAIN doc.par = {}
OwnGlobal ==
  opt.temp > 0 /\ N > 0 =>
    /\ pc \in {"merge", "gfit", "gread", "gwrite"} => num.spec \in Nat /\ num.glob \in Nat
    /\ pc \in {"gfit", "gread"} /\ Readable(GlobalName) => OwnDoc(files[GlobalName])
    /\ pc = "gwrite" /\ msr # None => OwnDoc(msr) /\ (i > 1 => ParsCounted(num))

LEMMA OwnAppended ==
  ASSUME NoneIsNoSequence, TypeOfRest, session > 0, UNCHANGED <<session, opt>>, OwnValues,
         NEW ind, NEW pars, Append_(ind, pars), opt.temp > 0 => ValuesOfOwnFit(Row(ind, pars))
  PROVE  OwnValues'
<1>1. PICK last \in Nat \ {0} :
        /\ RowsNow' = RowsNow \cup {last} /\ db'[last] = Row(ind, pars)
        /\ \A k \in RowsNow : k \in Nat /\ k < last /\ db'[k] = db[k]
  BY AppendedRow
<1>2. ASSUME opt.temp > 0, NEW k \in RowsNow' PROVE ValuesOfOwnFit(db'[k])
  <2>1. CASE k \in RowsNow
    <3>1. ValuesOfOwnFit(db[k])
      BY <1>2, <2>1 DEF OwnValues
    <3> QED BY <1>1, <2>1, <3>1
  <2>2. CASE k = last
    BY <1>1, <1>2, <2>2
  <2> QED BY <1>1, <1>2, <2>1, <2>2
<1> QED BY <1>2 DEF OwnValues, ValuesOfOwnFit, GlobalName

LEMMA SameValues ==
  ASSUME OwnValues, UNCHANGED <<db, session, opt>>
  PROVE  OwnValues'
BY DEF OwnValues, RowsNow, ValuesOfOwnFit, GlobalName

LEMMA OwnSinglesKept ==
  ASSUME NoneIsNoSequence, TypeOfRest, RowsInv, StepsOfMode, FilesShaped, TemplateKnown,
         OwnSingles, OwnValues, [Next]_vars, ~WriteGlobal
  PROVE  OwnSingles' /\ OwnValues'
<1>1. CASE Start
  <2>1. RowsNow' = {}
    BY <1>1, NoRowsAtStart DEF RowsInv
  <2>2. firstrun' /\ pc' \notin {"fit", "read", "write"}
    BY <1>1 DEF Start, GoTo
  <2> QED BY <2>1, <2>2 DEF OwnSingles, OwnValues, RunSteps
<1>2. CASE End
  <2>1. pc' = "done" /\ UNCHANGED <<session, opt>>
    BY <1>2 DEF End, GoTo, prog
  <2>2. OwnValues'
    <3>1. CASE db' = db
      BY <2>1, <3>1, SameValues
    <3>2. CASE db' = <<Blank>>
      <4>1. RowsNow' = {}
        BY <3>2 DEF RowsNow, Blank
      <4> QED BY <4>1 DEF OwnValues
    <3> QED BY <1>2, <3>1, <3>2 DEF End
  <2> QED BY <2>1, <2>2 DEF OwnSingles, RunSteps
<1>3. CASE WriteOutput
  <2>1. PICK pars : pars = msr.par
    OBVIOUS
  <2>2. Write(pars, "run") /\ pc = "write"
    BY <1>3, <2>1 DEF WriteOutput
  <2>3. UNCHANGED <<files, session, opt, firstrun, oldtemp>> /\ pc' \in {"run", "error"}
    BY <2>2, WriteIs DEF Write
  <2>4. OwnSingles'
    BY <2>2, <2>3 DEF OwnSingles, OwnFile, RunSteps, Readable
  <2>5. opt.global = "no" /\ session > 0
    BY <2>2 DEF StepsOfMode, RunSteps, RowsInv, SessionsBehind, TypeOfRest
  <2>6. CASE UNCHANGED db
    BY <2>3, <2>4, <2>6, SameValues
  <2>7. ASSUME NEW ind, Append_(ind, pars), msr.valid PROVE OwnValues'
    <3>1. opt.temp > 0 => ValuesOfOwnFit(Row(ind, pars))
      <4> SUFFICES ASSUME opt.temp > 0, Present # opt.temp
                   PROVE  \A p \in DOMAIN pars : pars[p].val = [of |-> Msr(Present), s |-> session]
        BY <2>5 DEF ValuesOfOwnFit, Row
      <4>1. Readable(Msr(Present)) /\ msr = files[Msr(Present)] /\ oldtemp = Present /\ ~firstrun
        BY <2>2 DEF OwnSingles, RunSteps
      <4>2. OwnOf(msr, Msr(Present), session)
        BY <2>2, <2>7, <4>1 DEF OwnSingles, OwnFile, RunSteps
      <4> QED BY <2>1, <4>2 DEF OwnOf
    <3> QED BY <2>3, <2>5, <2>7, <3>1, OwnAppended
  <2> QED BY <2>2, <2>4, <2>6, <2>7, WriteIs
<1>4. CASE Quiet
  <2>1. UNCHANGED <<db, session, opt>>
    BY <1>4, NoneWritten
  <2>2. OwnValues'
    BY <2>1, SameValues
  <2> SUFFICES OwnSingles'
    BY <2>2
  <2>3. CASE Prepare
    <3>1. /\ ~firstrun' /\ oldtemp' = Present /\ i' = i /\ i <= N /\ pc' \in {"fit", "read", "error"}
          /\ pc = "run"
      BY <2>3 DEF Prepare, GoTo, AfterPrepare
    <3>2. CASE UNCHANGED files /\ Template = Present
      <4>1. Present # opt.temp => ~firstrun /\ oldtemp = Present
        BY <3>2 DEF Template
      <4>2. opt.temp > 0 /\ Present # opt.temp => OwnFile(Msr(Present))
        BY <3>1, <4>1 DEF OwnSingles, RunSteps
      <4>3. OwnFile(Msr(oldtemp))' <=> OwnFile(Msr(Present))
        BY <2>1, <3>1, <3>2 DEF OwnFile, Readable, Msr
      <4> QED BY <2>1, <3>1, <4>2, <4>3 DEF OwnSingles, Present, N
    <3>3. CASE pc' = "error"
      BY <3>3 DEF OwnSingles, RunSteps
    <3>4. CASE ~Readable(Msr(Present))' \/ ~files'[Msr(Present)].valid
      <4>1. Msr(Present)' = Msr(Present) /\ Msr(oldtemp)' = Msr(Present)
        BY <2>1, <3>1 DEF Msr, Present
      <4>2. OwnFile(Msr(oldtemp))'
        BY <3>4, <4>1 DEF OwnFile, Readable
      <4> QED BY <2>1, <3>1, <4>2 DEF OwnSingles, Present, N
    <3> QED BY <2>3, <3>2, <3>3, <3>4, PrepareDoc
  <2>4. CASE Fit
    <3>1. /\ UNCHANGED <<firstrun, oldtemp, i, opt, session>> /\ pc = "fit" /\ pc' = "read"
          /\ Musrfit(Msr(Present))
      BY <2>4 DEF Fit, GoTo, prog
    <3>2. CASE opt.temp > 0
      <4>1. ~firstrun /\ oldtemp = Present /\ i <= N
        BY <3>1, <3>2 DEF OwnSingles, RunSteps
      <4>2. PICK name : name = Msr(Present)
        OBVIOUS
      <4>3. name \in DOMAIN files /\ name[1] # "one"
        BY <4>1, <4>2, NamesKnown DEF Msr
      <4>4. OwnFile(name) => OwnFile(name)'
        BY <3>1, <4>2, <4>3, MusrfitDoc
      <4>5. oldtemp # opt.temp => OwnFile(name)
        BY <3>1, <3>2, <4>1, <4>2 DEF OwnSingles, RunSteps
      <4>6. Msr(oldtemp)' = name
        BY <3>1, <4>1, <4>2 DEF Msr
      <4>7. oldtemp # opt.temp => OwnFile(Msr(oldtemp))'
        BY <4>4, <4>5, <4>6 DEF OwnFile, Readable
      <4> QED BY <3>1, <4>1, <4>7 DEF OwnSingles, Present, N
    <3>3. CASE ~(opt.temp > 0)
      BY <3>1, <3>3 DEF OwnSingles
    <3> QED BY <3>2, <3>3
  <2>5. CASE NoTemplate
    <3>1. ~(opt.temp > 0)
      <4>1. opt.temp \in Int
        BY Msr2DataAssumption DEF TypeOfRest
      <4> QED BY <2>5, <4>1 DEF NoTemplate
    <3> QED BY <2>1, <3>1 DEF OwnSingles
  <2>6. CASE ReadMsrFile
    <3>1. /\ UNCHANGED <<firstrun, oldtemp, files>> /\ pc = "read"
          /\ \/ pc' = "run"
             \/ pc' = "write" /\ i' = i /\ Readable(Msr(Present)) /\ msr' = files[Msr(Present)]
      BY <2>6 DEF ReadMsrFile, GoTo
    <3> QED BY <2>1, <3>1 DEF OwnSingles, RunSteps, OwnFile, Readable, Present, Msr, N
  <2>7. CASE UNCHANGED vars
    BY <2>7 DEF vars, prog, OwnSingles, OwnFile, Readable, Present, Msr, N
  <2>8. CASE \/ PrepareGlobal \/ PrepareOne \/ FitOne \/ OnesDone \/ Merge
             \/ FitGlobal \/ ReadGlobal \/ Interrupt \/ Terminated
    <3>1. pc' \notin RunSteps
      BY <2>8 DEF RunSteps, PrepareGlobal, PrepareOne, FitOne, OnesDone, Merge, FitGlobal,
         ReadGlobal, Interrupt, Terminated, vars, GoTo
    <3> QED BY <3>1 DEF OwnSingles
  <2> QED BY <1>4, <2>3, <2>4, <2>5, <2>6, <2>7, <2>8 DEF Quiet
<1> QED BY <1>1, <1>2, <1>3, <1>4, NextIs

(* The global parameters and those of run i, out of all of them.           *)
LEMMA ParametersOfRun ==
  ASSUME NEW name, Document(msr), OwnOf(msr, name, session),
         num.spec \in Nat, num.glob \in Nat, ParsCounted(num), N \in Nat, i \in 1..N,
         NEW pars, pars = SubSeq(msr.par, 1, num.glob) \o SpecPar(num)
  PROVE  \A p \in DOMAIN pars : pars[p].val = [of |-> name, s |-> session]
<1>1. PICK all, glob, spec, n :
        all = msr.par /\ glob = num.glob /\ spec = num.spec /\ n = N
  OBVIOUS
<1>2. PICK T : T = ToSet(all)
  OBVIOUS
<1>3. all \in Seq(T) /\ glob \in Nat /\ spec \in Nat /\ n \in Nat /\ Len(all) - glob = n * spec
  BY <1>1, <1>2 DEF Document, ParsCounted
<1>4. n * spec \in Nat /\ glob <= Len(all) /\ Len(all) \in Nat
  <2>1. n * spec \in Nat
    BY <1>3
  <2>2. Len(all) \in Nat
    BY <1>3
  <2> QED BY <1>3, <2>1, <2>2
<1>5. \A t \in T : t.val = [of |-> name, s |-> session]
  BY <1>1, <1>2 DEF OwnOf, ToSet
<1>6. PICK sub : sub = SubSeq(all, 1, glob)
  OBVIOUS
<1>7. sub \in Seq(T)
  BY <1>3, <1>4, <1>6
<1>8. PICK rest : rest = SpecPar(num)
  OBVIOUS
<1>9. rest \in Seq(T)
  <2>1. rest = [k \in 1..spec |-> all[glob + (i - 1) * spec + k]]
    BY <1>1, <1>8 DEF SpecPar, ParNo
  <2>2. \A k \in 1..spec : glob + (i - 1) * spec + k \in 1..Len(all)
    <3>1. PICK d \in Nat, j \in Nat : i = j + 1 /\ n = j + 1 + d
      <4>1. i - 1 \in Nat /\ n - i \in Nat
        BY <1>1, <1>3
      <4>2. i = (i - 1) + 1 /\ n = (i - 1) + 1 + (n - i)
        BY <1>1, <1>3
      <4> QED BY <4>1, <4>2
    <3>2. n * spec = j * spec + spec + d * spec /\ (i - 1) * spec = j * spec
      BY <1>3, <3>1
    <3>3. j * spec \in Nat /\ d * spec \in Nat
      BY <1>3, <3>1
    <3>4. \A k \in 1..spec : /\ glob + (i - 1) * spec + k >= 1
                             /\ glob + (i - 1) * spec + k <= Len(all)
      <4> TAKE k \in 1..spec
      <4>1. PICK x \in Nat, y \in Nat : x = j * spec /\ y = d * spec
        BY <3>3
      <4>2. PICK m, l, product :
              m = glob + (i - 1) * spec + k /\ l = Len(all) /\ product = n * spec
        OBVIOUS
      <4>3. m = glob + x + k /\ product = x + spec + y
        BY <3>2, <4>1, <4>2
      <4>4. l - glob = product /\ l \in Nat /\ product \in Nat
        BY <1>3, <1>4, <4>2
      <4>5. l = glob + product
        BY <1>3, <4>4
      <4>6. m >= 1 /\ m <= l
        <5>1. glob \in Nat /\ spec \in Nat /\ x \in Nat /\ y \in Nat /\ k \in 1..spec
          BY <1>3, <4>1
        <5> QED BY <4>3, <4>5, <5>1
      <4> QED BY <4>2, <4>6
    <3>5. \A k \in 1..spec : glob + (i - 1) * spec + k \in Int
      BY <1>3, <3>1
    <3> QED BY <1>4, <3>4, <3>5
  <2>3. \A m \in 1..Len(all) : all[m] \in T
    BY <1>3
  <2>4. rest \in [1..spec -> T]
    BY <2>1, <2>2, <2>3
  <2> QED BY <1>3, <2>4
<1>10. pars \in Seq(T)
  <2>1. pars = sub \o rest
    BY <1>1, <1>6, <1>8
  <2>2. sub \o rest \in Seq(T)
    BY <1>7, <1>9
  <2> QED BY <2>1, <2>2
<1>11. \A p \in DOMAIN pars : pars[p] \in T
  BY <1>10
<1> QED BY <1>5, <1>11

(* WriteOutput of a global file: it has been counted when it was made.     *)
LEMMA WritesCounted ==
  ASSUME TypeOfRest, OwnGlobal, opt.temp > 0, WriteGlobal, pc' \notin {"crashed", "error"}
  PROVE  /\ i \in 1..N /\ msr # None /\ OwnDoc(msr) /\ ParsCounted(num) /\ num' = num
         /\ num.spec \in Nat /\ num.glob \in Nat
         /\ \E pars : /\ pars = SubSeq(msr.par, 1, num.glob) \o SpecPar(num)
                      /\ Write(pars, "gwrite")
<1>1. i \in Nat \ {0} /\ N \in Nat
  BY LengthOfList DEF TypeOfRest
<1>2. pc = "gwrite" /\ i \in 1..N /\ msr # None /\ ~(i = 1 /\ ModuloZero(Counted))
      /\ ~(i = 1 /\ ~Consistent(Counted))
  BY <1>1 DEF WriteGlobal, GoTo
<1>3. OwnDoc(msr) /\ (i > 1 => ParsCounted(num)) /\ num.spec \in Nat /\ num.glob \in Nat
  BY <1>1, <1>2 DEF OwnGlobal
<1>4. /\ num' = (IF i = 1 THEN Counted ELSE num)
      /\ Write(SubSeq(msr.par, 1, num'.glob) \o SpecPar(num'), "gwrite")
  BY <1>2 DEF WriteGlobal
<1>5. i = 1 => num # Unknown
  <2> SUFFICES ASSUME i = 1, num = Unknown PROVE FALSE
    OBVIOUS
  <2>1. DOMAIN msr.par = {}
    BY <1>3 DEF OwnDoc
  <2>2. {k \in DOMAIN msr.par : IsSpecific(msr, k, opt.list[1])} = {}
    BY <2>1
  <2>3. Counted.spec = Cardinality({k \in DOMAIN msr.par : IsSpecific(msr, k, opt.list[1])})
    BY DEF Counted
  <2>4. Counted.spec = 0
    BY <2>2, <2>3, FS_EmptySet
  <2> QED BY <1>2, <2>4 DEF ModuloZero
<1>6. num' = num
  BY <1>4, <1>5 DEF Counted
<1>7. ParsCounted(num)
  <2>1. CASE i = 1
    <3>1. Counted = num
      BY <1>5, <2>1 DEF Counted
    <3> QED BY <1>2, <2>1, <3>1 DEF Consistent
  <2>2. CASE i # 1
    BY <1>1, <1>3, <2>2
  <2> QED BY <2>1, <2>2
<1>8. PICK pars : pars = SubSeq(msr.par, 1, num.glob) \o SpecPar(num)
  OBVIOUS
<1>9. Write(pars, "gwrite")
  <2>1. pars = SubSeq(msr.par, 1, num'.glob) \o SpecPar(num')
    BY <1>6, <1>8
  <2> QED BY <1>4, <2>1
<1> QED BY <1>2, <1>3, <1>6, <1>7, <1>8, <1>9

LEMMA GlobalWritten ==
  ASSUME NoneIsNoSequence, TypeOfRest, RowsInv, StepsOfMode, OwnGlobal, OwnValues, WriteGlobal
  PROVE  OwnGlobal' /\ OwnValues'
<1>1. i \in Nat \ {0} /\ N \in Nat
  BY LengthOfList DEF TypeOfRest
<1>2. CASE pc' \in {"crashed", "error"}
  <2>1. UNCHANGED <<db, session, opt>>
    <3>1. ASSUME NEW pars, NEW next, Write(pars, next), pc = "gwrite", next = "gwrite"
          PROVE  UNCHANGED <<db, session, opt>>
      BY <1>2, <3>1, WriteIs
    <3>2. pc # "write" /\ (pc' \in {"crashed", "error"} => UNCHANGED <<db, session, opt>>)
      <4>1. pc = "gwrite"
        BY DEF WriteGlobal
      <4> QED BY <3>1, <4>1, Writes
    <3> QED BY <1>2, <3>2
  <2> QED BY <1>2, <2>1, SameValues DEF OwnGlobal
<1>3. CASE pc' \notin {"crashed", "error"} /\ opt.temp > 0
  <2>1. /\ i \in 1..N /\ msr # None /\ OwnDoc(msr) /\ ParsCounted(num) /\ num' = num
        /\ num.spec \in Nat /\ num.glob \in Nat
    BY <1>3, WritesCounted
  <2>2. PICK pars : /\ pars = SubSeq(msr.par, 1, num.glob) \o SpecPar(num)
                    /\ Write(pars, "gwrite")
    BY <1>3, WritesCounted
  <2>3. /\ UNCHANGED <<session, opt>> /\ pc' = "gwrite" /\ (msr' = msr \/ msr' = None)
        /\ \/ UNCHANGED db
           \/ msr.valid /\ \E ind : Append_(ind, pars)
    BY <1>3, <2>2, WriteIs
  <2>4. OwnGlobal'
    <3>1. msr' = msr => OwnDoc(msr)' /\ ParsCounted(num)'
      BY <2>1, <2>3 DEF OwnDoc, GlobalName, ParsCounted, N, Unknown
    <3> QED BY <2>1, <2>3, <3>1 DEF OwnGlobal
  <2>5. opt.global # "no" /\ session > 0
    BY DEF WriteGlobal, StepsOfMode, RowsInv, SessionsBehind, TypeOfRest
  <2>6. CASE UNCHANGED db
    BY <2>3, <2>4, <2>6, SameValues
  <2>7. ASSUME NEW ind, Append_(ind, pars), msr.valid PROVE OwnValues'
    <3>1. OwnOf(msr, GlobalName, session) /\ Document(msr)
      BY <2>1, <2>7 DEF OwnDoc
    <3>2. PICK name : name = GlobalName
      OBVIOUS
    <3>3. \A p \in DOMAIN pars : pars[p].val = [of |-> name, s |-> session]
      BY <1>1, <2>1, <2>2, <3>1, <3>2, ParametersOfRun
    <3>4. ValuesOfOwnFit(Row(ind, pars))
      BY <2>5, <3>2, <3>3 DEF ValuesOfOwnFit, Row
    <3> QED BY <2>3, <2>5, <2>7, <3>4, OwnAppended
  <2> QED BY <2>3, <2>4, <2>6, <2>7
<1>4. CASE pc' \notin {"crashed", "error"} /\ ~(opt.temp > 0)
  <2>1. opt' = opt
    BY Writes, WriteIs
  <2> QED BY <1>4, <2>1 DEF OwnGlobal, OwnValues
<1> QED BY <1>2, <1>3, <1>4

LEMMA OwnGlobalKept ==
  ASSUME NoneIsNoSequence, TypeOfRest, RowsInv, StepsOfMode, FilesShaped, TemplateKnown,
         OwnGlobal, [Next]_vars, ~WriteGlobal
  PROVE  OwnGlobal'
<1>1. i \in Nat \ {0} /\ N \in Nat
  BY LengthOfList DEF TypeOfRest
<1>2. CASE Start
  <2>1. pc' \notin {"merge", "gfit", "gread", "gwrite"}
    BY <1>2 DEF Start, GoTo
  <2> QED BY <2>1 DEF OwnGlobal
<1>3. CASE End
  BY <1>3 DEF End, GoTo, OwnGlobal
<1>4. CASE WriteOutput
  <2>1. pc' \notin {"merge", "gfit", "gread", "gwrite"}
    BY <1>4, WriteIs DEF WriteOutput
  <2> QED BY <2>1 DEF OwnGlobal
<1>5. CASE Quiet
  <2>1. UNCHANGED <<db, session, opt>>
    BY <1>5, NoneWritten
  <2>2. N' = N /\ GlobalName' = GlobalName
    BY <2>1 DEF N, GlobalName
  <2>3. N > 0 => GlobalName \in DOMAIN files /\ GlobalName[1] # "one"
    BY NamesKnown DEF GlobalName
  <2>4. CASE Merge
    <3>1. /\ UNCHANGED num /\ pc' \in {"gread", "gfit"} /\ pc = "merge"
      BY <2>4 DEF Merge, GoTo
    <3>2. N > 0 => /\ Document(files'[GlobalName]) /\ ~files'[GlobalName].valid
                   /\ num = Unknown => DOMAIN files'[GlobalName].par = {}
      BY <2>4, MergeDoc
    <3>3. PICK doc : doc = files'[GlobalName]
      OBVIOUS
    <3>4. N > 0 => OwnDoc(doc)'
      BY <3>1, <3>2, <3>3 DEF OwnDoc, Unknown
    <3>5. N > 0 => OwnDoc(files[GlobalName])'
      BY <2>2, <3>3, <3>4 DEF OwnDoc
    <3> QED BY <2>1, <2>2, <3>1, <3>5 DEF OwnGlobal
  <2>5. CASE FitGlobal
    <3>1. UNCHANGED num /\ pc = "gfit" /\ pc' = "gread" /\ Musrfit(GlobalName)
      BY <2>5 DEF FitGlobal, GoTo, prog
    <3>2. PICK name : name = GlobalName
      OBVIOUS
    <3>3. ASSUME opt.temp > 0, N > 0, Readable(name)' PROVE OwnDoc(files[GlobalName])'
      <4>1. /\ FilesShaped'
            /\ OwnFile(name) => OwnFile(name)'
            /\ Readable(name) /\ DOMAIN files'[name].par = DOMAIN files[name].par
        BY <2>1, <2>3, <3>1, <3>2, <3>3, MusrfitDoc
      <4>2. OwnDoc(files[GlobalName])
        BY <3>1, <3>2, <3>3, <4>1 DEF OwnGlobal
      <4>3. OwnFile(name)'
        BY <3>2, <4>1, <4>2 DEF OwnDoc, OwnFile
      <4>4. name \in DOMAIN files' /\ name[1] # "one"
        <5>1. name \in DOMAIN files /\ name[1] # "one"
          BY <2>3, <3>2, <3>3
        <5>2. DOMAIN files' = DOMAIN files
          BY <3>1 DEF Musrfit, Put
        <5> QED BY <5>1, <5>2
      <4>5. Document(files'[name])
        BY <3>3, <4>1, <4>4 DEF FilesShaped, Readable
      <4>6. files'[name].valid => OwnOf(files'[name], name, session')
        BY <3>3, <4>3 DEF OwnFile
      <4>7. num = Unknown => DOMAIN files'[name].par = {}
        BY <3>2, <4>1, <4>2 DEF OwnDoc
      <4>8. GlobalName' = name
        BY <2>2, <3>2
      <4> QED BY <3>1, <4>5, <4>6, <4>7, <4>8 DEF OwnDoc, Unknown
    <3>4. Readable(GlobalName)' <=> Readable(name)'
      BY <2>2, <3>2 DEF Readable
    <3> QED BY <2>1, <2>2, <3>1, <3>3, <3>4 DEF OwnGlobal
  <2>6. CASE ReadGlobal
    <3>1. /\ UNCHANGED <<num, files, i>> /\ pc = "gread" /\ pc' \in {"done", "error", "gwrite"}
          /\ pc' = "gwrite" => Readable(GlobalName) /\ msr' = files[GlobalName]
      BY <2>6 DEF ReadGlobal, GoTo
    <3>2. i = 1
      BY <3>1 DEF StepsOfMode
    <3>3. pc' = "gwrite" /\ opt.temp > 0 /\ N > 0 => OwnDoc(msr')
      BY <3>1 DEF OwnGlobal
    <3>4. OwnDoc(msr') => OwnDoc(msr)'
      BY <2>1, <2>2, <3>1 DEF OwnDoc, Unknown
    <3> QED BY <2>1, <2>2, <3>1, <3>2, <3>3, <3>4 DEF OwnGlobal
  <2>7. CASE UNCHANGED vars
    BY <2>7 DEF vars, prog, OwnGlobal, OwnDoc, N, GlobalName, Readable, ParsCounted, Unknown
  <2>8. CASE ~(Merge \/ FitGlobal \/ ReadGlobal \/ UNCHANGED vars)
    <3>1. pc' = "merge" => (pc = "one" /\ UNCHANGED <<msr, num>>) \/ PrepareGlobal
      BY <1>5, <2>8 DEF Quiet, Prepare, NoTemplate, Fit, ReadMsrFile, PrepareGlobal, PrepareOne,
         FitOne, OnesDone, Interrupt, Terminated, vars, GoTo, AfterPrepare
    <3>2. pc' \in {"gfit", "gread"} => ~(opt.temp > 0)
      <4>1. opt.temp \in Int
        BY Msr2DataAssumption DEF TypeOfRest
      <4> QED BY <1>5, <2>8, <4>1 DEF Quiet, Prepare, NoTemplate, Fit, ReadMsrFile, PrepareGlobal,
         PrepareOne, FitOne, OnesDone, Interrupt, Terminated, vars, GoTo, AfterPrepare
    <3>3. pc' # "gwrite"
      BY <1>5, <2>8 DEF Quiet, Prepare, NoTemplate, Fit, ReadMsrFile, PrepareGlobal, PrepareOne,
         FitOne, OnesDone, Interrupt, Terminated, vars, GoTo, AfterPrepare
    <3>4. pc' = "merge" => num'.spec \in Nat /\ num'.glob \in Nat
      <4> SUFFICES ASSUME pc' = "merge" PROVE num'.spec \in Nat /\ num'.glob \in Nat
        OBVIOUS
      <4>1. PICK doc : doc = msr'
        OBVIOUS
      <4>2. TemplateKnown'
        BY TemplateKept DEF RowsInv
      <4>3. Document(doc) /\ num'.spec = NoOfSpecific(doc, opt.temp) /\ num'.glob = Len(doc.par) - num'.spec
        BY <2>1, <4>1, <4>2 DEF TemplateKnown
      <4> QED BY <4>3, SpecificCounted
    <3> QED BY <2>1, <3>2, <3>3, <3>4 DEF OwnGlobal
  <2> QED BY <2>4, <2>5, <2>6, <2>7, <2>8
<1> QED BY <1>2, <1>3, <1>4, <1>5, NextIs

-----------------------------------------------------------------------------
OwnInv ==
  /\ MsrFilesKnown /\ StepsOfMode /\ FilesShaped /\ TemplateKnown
  /\ OwnSingles /\ OwnGlobal /\ OwnValues

LEMMA OwnInvAtStart == Init => TypeOfRest /\ RowsInv /\ OwnInv
<1> SUFFICES ASSUME Init PROVE OwnInv
  BY TypeAtStart, RowsInvAtStart
<1>1. PICK d \in InitialDirs : files = d[1]
  BY DEF Init
<1>2. FilesShaped
  BY <1>1, Msr2DataAssumption DEF FilesShaped, DirectoryOf, Readable
<1>3. MsrFilesKnown
  <2>1. ASSUME NEW o \in Options, NEW a \in DOMAIN o.list PROVE Msr(o.list[a]) \in DOMAIN files
    <3>1. {"msr", "one", "global"} \X RunsOf(o) \subseteq DOMAIN files
      BY <1>2 DEF FilesShaped
    <3>2. o.list[a] \in RunsOf(o)
      BY DEF RunsOf, ToSet
    <3> QED BY <3>1, <3>2 DEF Msr
  <2> QED BY <2>1 DEF MsrFilesKnown
<1>4. OwnValues
  BY DEF Init, OwnValues, RowsNow
<1> QED BY <1>2, <1>3, <1>4 DEF Init, OwnInv, StepsOfMode, TemplateKnown, OwnSingles, OwnGlobal,
           BeforeRows, RunSteps

LEMMA OwnInvKept ==
  ASSUME NoneIsNoSequence, TypeOfRest, RowsInv, OwnInv, [Next]_vars
  PROVE  (TypeOfRest /\ RowsInv /\ OwnInv)'
<1> SUFFICES OwnInv'
  BY TypeOfRestKept, RowsInvKept
<1>1. MsrFilesKnown' /\ StepsOfMode'
  BY ModeKept DEF OwnInv
<1>2. FilesShaped'
  BY FilesShapedKept DEF OwnInv
<1>3. TemplateKnown'
  BY TemplateKept DEF OwnInv, RowsInv
<1>4. OwnGlobal'
  BY GlobalWritten, OwnGlobalKept DEF OwnInv
<1>5. OwnValues'
  BY GlobalWritten, OwnSinglesKept DEF OwnInv
<1>6. OwnSingles'
  <2>1. CASE WriteGlobal
    <3>1. pc' \notin RunSteps
      BY <2>1, Writes, WriteIs DEF WriteGlobal, RunSteps
    <3> QED BY <3>1 DEF OwnSingles
  <2>2. CASE ~WriteGlobal
    BY <2>2, OwnSinglesKept DEF OwnInv
  <2> QED BY <2>1, <2>2
<1> QED BY <1>1, <1>2, <1>3, <1>4, <1>5, <1>6 DEF OwnInv

(* In the db-file the rows of a session are in the order of the list of    *)
(* runs, none twice, each with its run and, of a run list, with its        *)
(* independent variables; if there is a template they hold what musrfit    *)
(* has fitted to their run in this session (PrepareNewInputFile, musrfit,  *)
(* ReadMsrFile, WriteOutput): for every list, template, directory and      *)
(* db-file, whatever has failed, converged or been interrupted.            *)
THEOREM RowsAreOwn ==
  ASSUME NoneIsNoSequence
  PROVE  Spec => []RowsOfOwnFit
<1>1. Init => TypeOfRest /\ RowsInv /\ OwnInv
  BY OwnInvAtStart
<1>2. TypeOfRest /\ RowsInv /\ OwnInv /\ [Next]_vars => (TypeOfRest /\ RowsInv /\ OwnInv)'
  BY OwnInvKept
<1>3. RowsInv /\ OwnInv => RowsOfOwnFit
  BY DEF RowsInv, OwnInv, RowsOfOwnFit
<1> QED BY <1>1, <1>2, <1>3, PTL DEF Spec

LEMMA LeastNumber ==
  ASSUME NEW S, S # {}, S \subseteq Nat
  PROVE  \E n \in S : \A l \in S : n <= l
<1>1. \E n \in S : \A l \in S : ~(<<l, n>> \in OpToRel(<, Nat))
  BY WFMin, NatLessThanWellFounded
<1>2. PICK n \in S : \A l \in S : ~(<<l, n>> \in OpToRel(<, Nat))
  BY <1>1
<1>3. ASSUME NEW l \in S PROVE n <= l
  <2>1. ~(l < n)
    BY <1>2 DEF OpToRel
  <2> QED BY <2>1
<1> QED BY <1>3

(* A set of numbers that has the first and with each the next has all.     *)
LEMMA UpTo ==
  ASSUME NEW n \in Nat, NEW S, 0 \in S, \A e \in 0..(n - 1) : e \in S => e + 1 \in S
  PROVE  0..n \subseteq S
<1>1. SUFFICES ASSUME NEW T, T = {e \in 0..n : e \notin S}, T # {} PROVE FALSE
  OBVIOUS
<1>2. PICK m \in T : \A l \in T : m <= l
  BY <1>1, LeastNumber
<1>3. m \in 1..n
  BY <1>1
<1>4. m - 1 \in 0..(n - 1) /\ m - 1 \in S
  BY <1>1, <1>2, <1>3
<1>5. (m - 1) + 1 = m
  BY <1>3
<1> QED
  BY <1>1, <1>4, <1>5

(* Step e of a loop makes f[e] of what the step before has left. *)
Runs(f, start, step, n) == f[0] = start /\ \A e \in 1..n : f[e] = step[<<f[e - 1], e>>]

(* A loop can be run: step by step, each value is made from the one before. *)
LEMMA LoopRuns ==
  ASSUME NEW n \in Nat, NEW S, NEW start \in S, NEW step \in [S \X (1..n) -> S]
  PROVE  \E f \in [0..n -> S] : Runs(f, start, step, n)
<1>0. PICK able : able = {m \in 0..n : \E f \in [0..n -> S] : Runs(f, start, step, m)}
  OBVIOUS
<1>1. 0 \in able
  <2>1. PICK f : f = [e \in 0..n |-> start]
    OBVIOUS
  <2>2. f \in [0..n -> S] /\ f[0] = start
    BY <2>1
  <2>3. Runs(f, start, step, 0)
    BY <2>2 DEF Runs
  <2> QED BY <1>0, <2>2, <2>3
<1>2. ASSUME NEW m \in 0..(n - 1), m \in able PROVE m + 1 \in able
  <2>1. PICK f \in [0..n -> S] : Runs(f, start, step, m)
    BY <1>0, <1>2
  <2>2. PICK v : v = step[<<f[m], m + 1>>]
    OBVIOUS
  <2>3. m \in 0..n /\ m + 1 \in 1..n
    OBVIOUS
  <2>4. f[m] \in S
    BY <2>3
  <2>5. v \in S
    BY <2>2, <2>3, <2>4
  <2>6. PICK g : g = [f EXCEPT ![m + 1] = v]
    OBVIOUS
  <2>7. m + 1 \in 0..n
    OBVIOUS
  <2>8. g \in [0..n -> S] /\ g[m + 1] = v
    BY <2>5, <2>6, <2>7
  <2>9. \A e \in 0..m : g[e] = f[e]
    BY <2>6
  <2>10. g[0] = start
    BY <2>1, <2>9 DEF Runs
  <2>11. ASSUME NEW e \in 1..(m + 1) PROVE g[e] = step[<<g[e - 1], e>>]
    <3>1. e - 1 \in 0..m
      OBVIOUS
    <3>2. g[e - 1] = f[e - 1]
      BY <2>9, <3>1
    <3>3. CASE e = m + 1
      <4>1. e - 1 = m
        BY <3>3
      <4> QED BY <2>2, <2>8, <3>2, <3>3, <4>1
    <3>4. CASE e \in 1..m
      <4>1. f[e] = step[<<f[e - 1], e>>]
        BY <2>1, <3>4 DEF Runs
      <4> QED BY <2>9, <3>2, <3>4, <4>1
    <3> QED BY <3>3, <3>4
  <2>12. Runs(g, start, step, m + 1)
    BY <2>10, <2>11 DEF Runs
  <2> QED BY <1>0, <2>7, <2>8, <2>12
<1>3. 0..n \subseteq able
  BY <1>1, <1>2, UpTo
<1>4. n \in able
  BY <1>3
<1> QED BY <1>0, <1>4 DEF Runs

LEMMA MaxIs ==
  ASSUME NEW n \in Nat, NEW s \in SUBSET (1..n), s # {}
  PROVE  Max(s) \in s /\ \A l \in s : l <= Max(s)
<1>1. PICK T : T = {n - l : l \in s}
  OBVIOUS
<1>2. T # {} /\ T \subseteq Nat
  <2>1. ASSUME NEW t \in T PROVE t \in Nat
    <3>1. PICK l \in s : t = n - l
      BY <1>1, Zenon
    <3> QED BY <3>1
  <2>2. PICK l \in s : TRUE
    OBVIOUS
  <2>3. n - l \in T
    BY <1>1
  <2> QED BY <2>1, <2>3
<1>3. PICK m \in T : \A l \in T : m <= l
  BY <1>2, LeastNumber
<1>4. PICK x \in s : m = n - x
  BY <1>1
<1>5. ASSUME NEW l \in s PROVE x >= l
  <2>1. n - l \in T
    BY <1>1
  <2>2. n - x <= n - l
    BY <1>3, <1>4, <2>1
  <2> QED BY <2>2
<1>6. \E y \in s : \A l \in s : y >= l
  BY <1>5
<1>7. Max(s) \in s /\ \A l \in s : Max(s) >= l
  BY <1>6, Zenon DEF Max
<1> QED BY <1>7

FoldsTo(h, start, step, n) ==
  \A s \in SUBSET (1..n) : h[s] = IF s = {} THEN start ELSE step[<<h[s \ {Max(s)}], Max(s)>>]

(* The function that MapThenFoldSet defines by recursion on the set of the  *)
(* indices that are left, the greatest of which is taken last, exists.     *)
LEMMA FoldRuns ==
  ASSUME NEW n \in Nat, NEW S, NEW start \in S, NEW step \in [S \X (1..n) -> S]
  PROVE  \E h \in [SUBSET (1..n) -> S] : FoldsTo(h, start, step, n)
<1>1. PICK sets : sets = SUBSET (1..n)
  OBVIOUS
<1>2. PICK maps : maps = [sets -> S]
  OBVIOUS
<1>3. PICK first : first = [s \in sets |-> start]
  OBVIOUS
<1>4. first \in maps
  BY <1>2, <1>3
<1>5. PICK next : next = [a \in maps \X (1..n) |->
                            [s \in sets |-> IF a[2] \in s THEN step[<<a[1][s \ {a[2]}], a[2]>>] ELSE a[1][s]]]
  OBVIOUS
<1>6. ASSUME NEW g \in maps, NEW e \in 1..n
      PROVE  /\ next[<<g, e>>] \in maps
             /\ \A s \in sets : next[<<g, e>>][s] = IF e \in s THEN step[<<g[s \ {e}], e>>] ELSE g[s]
  <2>1. PICK g2 : g2 = [s \in sets |-> IF e \in s THEN step[<<g[s \ {e}], e>>] ELSE g[s]]
    OBVIOUS
  <2>2. next[<<g, e>>] = g2
    BY <1>5, <2>1
  <2>3. ASSUME NEW s \in sets PROVE (IF e \in s THEN step[<<g[s \ {e}], e>>] ELSE g[s]) \in S
    <3>1. s \ {e} \in sets
      BY <1>1
    <3>2. g[s] \in S /\ g[s \ {e}] \in S
      BY <1>2, <3>1
    <3> QED BY <3>2
  <2>4. g2 \in maps
    BY <1>2, <2>1, <2>3
  <2> QED BY <2>1, <2>2, <2>4
<1>7. next \in [maps \X (1..n) -> maps]
  <2>1. ASSUME NEW a \in maps \X (1..n) PROVE next[a] \in maps
    <3>1. PICK g \in maps, e \in 1..n : a = <<g, e>>
      OBVIOUS
    <3> QED BY <1>6, <3>1
  <2>2. next = [a \in maps \X (1..n) |-> next[a]]
    BY <1>5
  <2> QED BY <2>1, <2>2
<1>8. PICK H \in [0..n -> maps] : H[0] = first /\ \A e \in 1..n : H[e] = next[<<H[e - 1], e>>]
  <2>1. \E H \in [0..n -> maps] : Runs(H, first, next, n)
    BY <1>4, <1>7, LoopRuns, Zenon
  <2> QED BY <2>1 DEF Runs
<1>9. ASSUME NEW e \in 1..n, NEW s \in sets
      PROVE  H[e][s] = IF e \in s THEN step[<<H[e - 1][s \ {e}], e>>] ELSE H[e - 1][s]
  <2>1. e - 1 \in 0..n
    OBVIOUS
  <2>2. PICK g : g = H[e - 1]
    OBVIOUS
  <2>3. g \in maps
    BY <2>1, <2>2
  <2>4. H[e] = next[<<g, e>>]
    BY <1>8, <2>2
  <2>5. \A z \in sets : next[<<g, e>>][z] = IF e \in z THEN step[<<g[z \ {e}], e>>] ELSE g[z]
    BY <1>6, <2>3
  <2> QED BY <2>2, <2>4, <2>5
(* From the greatest index of a set on nothing changes. *)
<1>10. ASSUME NEW m \in 0..n, NEW s \in SUBSET (1..m) PROVE H[n][s] = H[m][s]
  <2>1. PICK same : same = {j \in 0..(n - m) : H[m + j][s] = H[m][s]}
    OBVIOUS
  <2>2. 0 \in same
    BY <2>1
  <2>3. ASSUME NEW j \in 0..((n - m) - 1), j \in same PROVE j + 1 \in same
    <3>1. m + j + 1 \in 1..n /\ (m + j + 1) - 1 = m + j /\ m + j + 1 \notin s /\ j + 1 \in 0..(n - m)
      OBVIOUS
    <3>2. s \in sets
      BY <1>1
    <3>3. PICK e : e = m + j + 1
      OBVIOUS
    <3>4. H[e][s] = H[e - 1][s]
      <4>1. e \in 1..n /\ e \notin s
        BY <3>1, <3>3
      <4> QED BY <1>9, <3>2, <4>1, Zenon
    <3>5. e - 1 = m + j /\ e = m + (j + 1)
      BY <3>1, <3>3
    <3> QED BY <2>1, <2>3, <3>1, <3>4, <3>5
  <2>4. n - m \in Nat
    OBVIOUS
  <2>5. 0..(n - m) \subseteq same
    BY <2>2, <2>3, <2>4, UpTo, Zenon
  <2>7. n - m \in same
    BY <2>4, <2>5
  <2>6. m + (n - m) = n
    OBVIOUS
  <2> QED BY <2>1, <2>6, <2>7
<1>11. PICK h : h = H[n]
  OBVIOUS
<1>12. h \in [SUBSET (1..n) -> S]
  <2>1. n \in 0..n
    OBVIOUS
  <2> QED BY <1>1, <1>2, <1>11, <2>1
<1>13. ASSUME NEW s \in SUBSET (1..n)
       PROVE  h[s] = IF s = {} THEN start ELSE step[<<h[s \ {Max(s)}], Max(s)>>]
  <2>1. CASE s = {}
    <3>1. {} \in SUBSET (1..0) /\ 0 \in 0..n
      OBVIOUS
    <3>2. H[n][{}] = H[0][{}]
      BY <1>10, <3>1
    <3>3. {} \in sets
      BY <1>1
    <3> QED BY <1>3, <1>8, <1>11, <2>1, <3>2, <3>3
  <2>2. CASE s # {}
    <3>1. PICK x : x = Max(s)
      OBVIOUS
    <3>2. x \in s /\ \A l \in s : l <= x
      BY <2>2, <3>1, MaxIs
    <3>3. x \in 1..n /\ x \in 0..n /\ x - 1 \in 0..n
      BY <3>2
    <3>4. s \in SUBSET (1..x) /\ s \ {x} \in SUBSET (1..(x - 1))
      BY <3>2, <3>3
    <3>5. H[n][s] = H[x][s]
      BY <1>10, <3>3, <3>4
    <3>6. H[n][s \ {x}] = H[x - 1][s \ {x}]
      BY <1>10, <3>3, <3>4
    <3>7. H[x][s] = step[<<H[x - 1][s \ {x}], x>>]
      <4>1. x \in 1..n /\ x \in s /\ s \in sets
        BY <1>1, <3>2, <3>3
      <4> QED BY <1>9, <4>1, Zenon
    <3> QED BY <1>11, <2>2, <3>1, <3>5, <3>6, <3>7
  <2> QED BY <2>1, <2>2
<1> QED BY <1>12, <1>13 DEF FoldsTo

LEMMA MaxUpTo ==
  ASSUME NEW n \in Nat, NEW e \in 1..n
  PROVE  1..e \in SUBSET (1..n) /\ 1..e # {} /\ Max(1..e) = e /\ (1..e) \ {e} = 1..(e - 1)
<1>1. PICK s : s = 1..e
  OBVIOUS
<1>2. s \in SUBSET (1..n) /\ e \in s
  BY <1>1
<1>3. PICK x : x = Max(s)
  OBVIOUS
<1>4. x \in s /\ e <= x
  BY <1>2, <1>3, MaxIs
<1>5. x = e
  BY <1>1, <1>4
<1> QED
  BY <1>1, <1>2, <1>3, <1>5

-----------------------------------------------------------------------------
(* The new order of the parameters. *)

Earlier(doc, run, k) == {j \in DOMAIN doc.par : Before(doc, run, j, k)}

(* Those before k are counted.                                             *)
LEMMA BeforeCounted ==
  ASSUME NEW doc, NEW run, NEW n \in Nat, DOMAIN doc.par = 1..n, NEW k \in 1..n, NEW B,
         B = Earlier(doc, run, k)
  PROVE  /\ IsFiniteSet(B) /\ Cardinality(B) \in 0..n - 1 /\ k \notin B
         /\ Rank(doc, run, k) = Cardinality(B) + 1 /\ Rank(doc, run, k) \in 1..n
<1>1. k \notin B
  <2>1. ~Before(doc, run, k, k)
    BY DEF Before
  <2> QED BY <2>1 DEF Earlier
<1>2. IsFiniteSet(1..n) /\ Cardinality(1..n) = n
  BY FS_Interval
<1>3. IsFiniteSet(1..n \ {k}) /\ Cardinality(1..n \ {k}) = n - 1
  BY <1>2, FS_RemoveElement
<1>4. B \in SUBSET (1..n \ {k})
  BY <1>1 DEF Earlier
<1>5. IsFiniteSet(B) /\ Cardinality(B) <= n - 1
  BY <1>3, <1>4, FS_Subset
<1>6. Cardinality(B) \in Nat
  BY <1>5, FS_CardinalityType
<1>7. Rank(doc, run, k) = Cardinality(B) + 1
  BY DEF Rank, Earlier
<1> QED BY <1>1, <1>5, <1>6, <1>7

LEMMA RankGrows ==
  ASSUME NEW doc, NEW run, NEW n \in Nat, DOMAIN doc.par = 1..n,
         NEW j \in 1..n, NEW k \in 1..n, Before(doc, run, j, k)
  PROVE  Rank(doc, run, j) < Rank(doc, run, k)
<1>1. PICK A, B : A = Earlier(doc, run, j) /\ B = Earlier(doc, run, k)
  OBVIOUS
<1>2. /\ IsFiniteSet(A) /\ Cardinality(A) \in 0..n - 1 /\ j \notin A
      /\ Rank(doc, run, j) = Cardinality(A) + 1
  BY <1>1, BeforeCounted
<1>3. /\ IsFiniteSet(B) /\ Cardinality(B) \in 0..n - 1
      /\ Rank(doc, run, k) = Cardinality(B) + 1
  BY <1>1, BeforeCounted
<1>4. A \cup {j} \in SUBSET B
  <2>1. ASSUME NEW l \in A PROVE Before(doc, run, l, k)
    BY <1>1, <2>1 DEF Before, Earlier
  <2> QED BY <1>1, <2>1 DEF Earlier
<1>5. Cardinality(A \cup {j}) = Cardinality(A) + 1
  BY <1>2, FS_AddElement
<1>6. Cardinality(A \cup {j}) <= Cardinality(B)
  BY <1>3, <1>4, FS_Subset
<1> QED BY <1>2, <1>3, <1>5, <1>6

(* The order has every parameter at its new number. *)
LEMMA OrderIs ==
  ASSUME NEW doc, NEW run, NEW n \in Nat, DOMAIN doc.par = 1..n
  PROVE  /\ \A k \in 1..n : Rank(doc, run, k) \in 1..n /\ Order(doc, run)[Rank(doc, run, k)] = k
         /\ \A p \in 1..n : Order(doc, run)[p] \in 1..n /\ Rank(doc, run, Order(doc, run)[p]) = p
<1>1. \A k \in 1..n : Rank(doc, run, k) \in 1..n
  BY BeforeCounted
<1>2. PICK f : f = [k \in 1..n |-> Rank(doc, run, k)]
  OBVIOUS
<1>3. ASSUME NEW j \in 1..n, NEW k \in 1..n, j # k PROVE f[j] # f[k]
  <2>1. Before(doc, run, j, k) \/ Before(doc, run, k, j)
    BY <1>3 DEF Before
  <2>2. f[j] \in 1..n /\ f[k] \in 1..n
    BY <1>1, <1>2
  <2>3. f[j] < f[k] \/ f[k] < f[j]
    BY <1>2, <2>1, RankGrows
  <2> QED BY <2>2, <2>3
<1>4. f \in Injection(1..n, 1..n)
  <2>1. f \in [1..n -> 1..n]
    BY <1>1, <1>2
  <2> QED BY <1>3, <2>1, Zenon DEF Injection, IsInjective
<1>5. f \in Surjection(1..n, 1..n)
  <2>1. IsFiniteSet(1..n)
    BY FS_Interval
  <2> QED BY <1>4, <2>1, FS_Injection
<1>6. \A p \in 1..n : \E k \in 1..n : Rank(doc, run, k) = p
  BY <1>2, <1>5 DEF Surjection
<1>7. \A p \in 1..n : Order(doc, run)[p] = CHOOSE k \in 1..n : Rank(doc, run, k) = p
  BY DEF Order
<1>8. \A p \in 1..n : Order(doc, run)[p] \in 1..n /\ Rank(doc, run, Order(doc, run)[p]) = p
  BY <1>6, <1>7, Zenon
<1>9. ASSUME NEW k \in 1..n PROVE Order(doc, run)[Rank(doc, run, k)] = k
  <2>1. PICK j, p : p = Rank(doc, run, k) /\ j = Order(doc, run)[p]
    OBVIOUS
  <2>2. p \in 1..n /\ j \in 1..n /\ Rank(doc, run, j) = p
    BY <1>1, <1>8, <2>1
  <2>3. f[j] = f[k]
    BY <1>2, <2>1, <2>2
  <2> QED BY <1>3, <2>1, <2>2, <2>3
<1> QED BY <1>1, <1>8, <1>9

(* The run specific ones are behind the others. *)
LEMMA SpecificBehind ==
  ASSUME NEW doc, NEW run, NEW n \in Nat, DOMAIN doc.par = 1..n
  PROVE  /\ NoOfSpecific(doc, run) \in 0..n
         /\ \A k \in 1..n : Rank(doc, run, k) > n - NoOfSpecific(doc, run) <=> IsSpecific(doc, k, run)
<1>1. PICK S, G : /\ S = {k \in 1..n : IsSpecific(doc, k, run)}
                  /\ G = {k \in 1..n : ~IsSpecific(doc, k, run)}
  OBVIOUS
<1>2. IsFiniteSet(1..n) /\ Cardinality(1..n) = n
  BY FS_Interval
<1>3. IsFiniteSet(S) /\ IsFiniteSet(G)
  BY <1>1, <1>2, FS_Subset
<1>4. Cardinality(S) \in Nat /\ Cardinality(G) \in Nat
  BY <1>3, FS_CardinalityType
<1>5. Cardinality(S) + Cardinality(G) = n
  <2>1. S \cup G = 1..n /\ S \cap G = {}
    BY <1>1
  <2>2. Cardinality(S \cup G) = Cardinality(S) + Cardinality(G) - Cardinality(S \cap G)
    BY <1>3, FS_Union
  <2>3. Cardinality({}) = 0
    BY FS_EmptySet
  <2>4. Cardinality(1..n) = Cardinality(S) + Cardinality(G) - Cardinality({})
    BY <2>1, <2>2
  <2> QED BY <1>2, <1>4, <2>3, <2>4
<1>6. NoOfSpecific(doc, run) = Cardinality(S)
  BY <1>1 DEF NoOfSpecific
<1>7. ASSUME NEW k \in 1..n, IsSpecific(doc, k, run) PROVE Rank(doc, run, k) > Cardinality(G)
  <2>1. PICK B : B = Earlier(doc, run, k)
    OBVIOUS
  <2>2. IsFiniteSet(B) /\ Cardinality(B) \in 0..n - 1 /\ Rank(doc, run, k) = Cardinality(B) + 1
    BY <2>1, BeforeCounted
  <2>3. G \in SUBSET B
    BY <1>1, <1>7, <2>1 DEF Before, Earlier
  <2>4. Cardinality(G) <= Cardinality(B)
    BY <2>2, <2>3, FS_Subset
  <2> QED BY <1>4, <2>2, <2>4
<1>8. ASSUME NEW k \in 1..n, ~IsSpecific(doc, k, run) PROVE Rank(doc, run, k) <= Cardinality(G)
  <2>1. PICK B : B = Earlier(doc, run, k)
    OBVIOUS
  <2>2. /\ IsFiniteSet(B) /\ Cardinality(B) \in 0..n - 1 /\ k \notin B
        /\ Rank(doc, run, k) = Cardinality(B) + 1
    BY <2>1, BeforeCounted
  <2>3. B \cup {k} \in SUBSET G
    BY <1>1, <1>8, <2>1 DEF Before, Earlier
  <2>4. Cardinality(B \cup {k}) <= Cardinality(G)
    BY <1>3, <2>3, FS_Subset
  <2>5. Cardinality(B \cup {k}) = Cardinality(B) + 1
    BY <2>2, FS_AddElement
  <2> QED BY <2>2, <2>4, <2>5
<1>9. n - NoOfSpecific(doc, run) = Cardinality(G) /\ NoOfSpecific(doc, run) \in 0..n
  BY <1>4, <1>5, <1>6
<1>10. ASSUME NEW k \in 1..n
       PROVE  Rank(doc, run, k) > n - NoOfSpecific(doc, run) <=> IsSpecific(doc, k, run)
  <2>1. PICK r, c : r = Rank(doc, run, k) /\ c = Cardinality(G)
    OBVIOUS
  <2>2. r \in 1..n /\ c \in Nat
    BY <1>4, <2>1, BeforeCounted
  <2>3. CASE IsSpecific(doc, k, run)
    BY <1>7, <1>9, <2>1, <2>2, <2>3
  <2>4. CASE ~IsSpecific(doc, k, run)
    <3>1. r <= c
      BY <1>8, <2>1, <2>4
    <3>2. ~(r > c)
      BY <2>2, <3>1
    <3> QED BY <1>9, <2>1, <2>4, <3>2
  <2> QED BY <2>3, <2>4
<1> QED BY <1>9, <1>10
-----------------------------------------------------------------------------
(* The names of further runs. *)

(* What the name with the number of the template has become after each run. *)
LEMMA NameIs ==
  ASSUME NEW temp \in Nat, NEW list \in Seq(Nat), NEW d, ~TooLong(temp, d),
         \A j \in 1..Len(list) - 1 : ~TooLong(list[j], d), NEW a \in 1..Len(list)
  PROVE  NameOf(temp, temp, list, d)[a] = list[a]
<1>1. PICK m \in Nat : m = Len(list)
  OBVIOUS
<1>2. a \in Nat /\ a <= m
  BY <1>1
<1> DEFINE Step(x, e) == Replaced(x, IF e = 1 THEN temp ELSE list[e - 1], list[e], d)
           seq == [e \in 1..a |-> e]
<1>3. ASSUME NEW x \in Nat, NEW e \in 1..a PROVE Step(x, e) \in Nat
  <2>1. list[e] \in Nat
    BY <1>1, <1>2
  <2>2. PICK old \in Nat : old = IF e = 1 THEN temp ELSE list[e - 1]
    BY <1>1, <1>2
  <2>3. Replaced(x, old, list[e], d) \in Nat
    BY <2>1, <2>2 DEF Replaced
  <2> QED BY <2>2, <2>3
<1>4. ASSUME NEW e \in 1..a PROVE Step(IF e = 1 THEN temp ELSE list[e - 1], e) = list[e]
  <2>1. PICK old : old = IF e = 1 THEN temp ELSE list[e - 1]
    OBVIOUS
  <2>2. ~TooLong(old, d)
    BY <1>1, <1>2, <2>1
  <2> QED BY <2>1, <2>2 DEF Replaced
<1>5. DOMAIN seq = 1..a /\ \A e \in 1..a : seq[e] = e
  OBVIOUS
<1> HIDE DEF Step, seq
<1>6. PICK step : step = [b \in Nat \X (1..a) |-> Step(b[1], b[2])]
  OBVIOUS
<1>7. \A x \in Nat, e \in 1..a : step[<<x, e>>] = Step(x, e)
  BY <1>6
<1>8. step \in [Nat \X (1..a) -> Nat]
  BY <1>3, <1>6
<1>9. PICK g \in [SUBSET (1..a) -> Nat] : FoldsTo(g, temp, step, a)
  BY <1>2, <1>8, FoldRuns, Zenon
<1>10. \A s \in SUBSET (1..a) : g[s] = IF s = {} THEN temp ELSE Step(g[s \ {Max(s)}], seq[Max(s)])
  <2>1. ASSUME NEW s \in SUBSET (1..a), s # {}
        PROVE  step[<<g[s \ {Max(s)}], Max(s)>>] = Step(g[s \ {Max(s)}], seq[Max(s)])
    <3>1. PICK x : x = Max(s)
      OBVIOUS
    <3>2. x \in 1..a
      BY <1>2, <2>1, <3>1, MaxIs
    <3>3. g[s \ {x}] \in Nat
      OBVIOUS
    <3> QED BY <1>5, <1>7, <3>1, <3>2, <3>3
  <2> QED BY <1>9, <2>1 DEF FoldsTo
<1>11. g = [s \in SUBSET DOMAIN seq |-> IF s = {} THEN temp ELSE Step(g[s \ {Max(s)}], seq[Max(s)])]
  BY <1>5, <1>10
<1>12. PICK h : h = CHOOSE z : z = [s \in SUBSET DOMAIN seq |-> IF s = {} THEN temp
                                                         ELSE Step(z[s \ {Max(s)}], seq[Max(s)])]
  OBVIOUS
<1>13. h = [s \in SUBSET DOMAIN seq |-> IF s = {} THEN temp ELSE Step(h[s \ {Max(s)}], seq[Max(s)])]
  BY <1>11, <1>12, Zenon
<1>14. NameOf(temp, temp, list, d)[a] = h[DOMAIN seq]
  <2>1. NameOf(temp, temp, list, d)[a] =
          FoldLeft(LAMBDA x, e : Replaced(x, IF e = 1 THEN temp ELSE list[e - 1], list[e], d),
                   temp, [e \in 1..a |-> e])
    BY <1>1, <1>2 DEF NameOf
  <2> QED BY <1>12, <2>1, Zenon DEF FoldLeft, MapThenFoldSet, Step, seq
<1>15. PICK same : same = {e \in 0..a : h[1..e] = IF e = 0 THEN temp ELSE list[e]}
  OBVIOUS
<1>16. 0 \in same
  <2>1. 1..0 = {} /\ {} \in SUBSET DOMAIN seq /\ 0 \in 0..a
    BY <1>2
  <2>2. h[{}] = temp
    BY <1>13, <2>1
  <2> QED BY <1>15, <2>1, <2>2
<1>17. ASSUME NEW e \in 0..(a - 1), e \in same PROVE e + 1 \in same
  <2>1. PICK f \in 1..a : f = e + 1 /\ f - 1 = e
    BY <1>2
  <2>2. 1..f \in SUBSET (1..a) /\ 1..f # {} /\ Max(1..f) = f /\ (1..f) \ {f} = 1..(f - 1)
    BY <1>2, MaxUpTo
  <2>3. h[1..f] = Step(h[1..e], f)
    <3>1. PICK s, t : s = 1..f /\ t = 1..(f - 1)
      OBVIOUS
    <3>2. s \in SUBSET DOMAIN seq /\ s # {} /\ Max(s) = f /\ s \ {f} = t
      BY <1>5, <2>2, <3>1
    <3>3. h[s] = Step(h[t], seq[f])
      BY <1>13, <3>2
    <3> QED BY <1>5, <2>1, <3>1, <3>3
  <2>4. h[1..e] = IF f = 1 THEN temp ELSE list[f - 1]
    BY <1>15, <1>17, <2>1
  <2>5. h[1..f] = list[f]
    BY <1>4, <2>3, <2>4
  <2>6. f \in 0..a /\ f # 0
    OBVIOUS
  <2> QED BY <1>15, <2>1, <2>5, <2>6
<1>18. 0..a \subseteq same
  BY <1>2, <1>16, <1>17, UpTo
<1>19. a \in same
  BY <1>2, <1>18
<1> QED BY <1>5, <1>14, <1>15, <1>19
-----------------------------------------------------------------------------
(* What FlattenSeq has put together after each of the sequences. *)

Flattening(seqs, f, X) ==
  /\ f \in [0..Len(seqs) -> Seq(X)]
  /\ f[0] = <<>>
  /\ \A e \in 1..Len(seqs) : f[e] = f[e - 1] \o seqs[e]
  /\ FlattenSeq(seqs) = f[Len(seqs)]

LEMMA Flattens ==
  ASSUME NEW X, NEW seqs \in Seq(Seq(X))
  PROVE  \E f : Flattening(seqs, f, X)
<1>1. PICK n \in Nat : n = Len(seqs) /\ DOMAIN seqs = 1..n
  OBVIOUS
<1>2. PICK S : S = Seq(X)
  OBVIOUS
<1>3. <<>> \in S /\ \A e \in 1..n : seqs[e] \in S
  BY <1>1, <1>2
<1>4. \A a, b \in S : a \o b \in S
  BY <1>2
<1>5. PICK step : step = [a \in S \X (1..n) |-> a[1] \o seqs[a[2]]]
  OBVIOUS
<1>6. \A b \in S, e \in 1..n : step[<<b, e>>] = b \o seqs[e]
  BY <1>5
<1>7. step \in [S \X (1..n) -> S]
  BY <1>3, <1>4, <1>5
<1>8. PICK f \in [0..n -> S] : Runs(f, <<>>, step, n)
  BY <1>3, <1>7, LoopRuns, Zenon
<1>9. ASSUME NEW e \in 1..n PROVE f[e] = f[e - 1] \o seqs[e]
  <2>1. e - 1 \in 0..n
    OBVIOUS
  <2>2. PICK a : a = f[e - 1]
    OBVIOUS
  <2>3. a \in S
    BY <2>1, <2>2
  <2> QED BY <1>6, <1>8, <2>2, <2>3 DEF Runs
<1>10. f[0] = <<>>
  BY <1>8 DEF Runs
<1>11. FlattenSeq(seqs) = f[n]
  <2>1. CASE n = 0
    <3>1. seqs = <<>>
      BY <1>1, <2>1
    <3> QED BY <1>1, <1>10, <2>1, <3>1 DEF FlattenSeq
  <2>2. CASE n # 0
    <3>1. ASSUME NEW e \in 1..n PROVE f[e] = IF e = 1 THEN seqs[e] ELSE f[e - 1] \o seqs[e]
      <4>1. CASE e = 1
        <5>1. f[1] = <<>> \o seqs[1]
          BY <1>9, <1>10, <4>1
        <5>2. <<>> \o seqs[1] = seqs[1]
          BY <1>2, <1>3, <4>1, ConcatEmptySeq
        <5> QED BY <4>1, <5>1, <5>2
      <4>2. CASE e # 1
        BY <1>9, <4>2
      <4> QED BY <4>1, <4>2
    <3>2. PICK g : g = [e \in 1..n |-> f[e]]
      OBVIOUS
    <3>3. g = [e \in 1..n |-> IF e = 1 THEN seqs[e] ELSE g[e - 1] \o seqs[e]]
      <4>1. ASSUME NEW e \in 1..n
            PROVE  f[e] = IF e = 1 THEN seqs[e] ELSE g[e - 1] \o seqs[e]
        <5>1. CASE e = 1
          BY <3>1, <5>1
        <5>2. CASE e # 1
          <6>1. e - 1 \in 1..n
            BY <5>2
          <6> QED BY <3>1, <3>2, <5>2, <6>1
        <5> QED BY <5>1, <5>2
      <4> QED BY <3>2, <4>1
    <3>4. PICK h : h = CHOOSE z : z = [e \in 1..n |-> IF e = 1 THEN seqs[e] ELSE z[e - 1] \o seqs[e]]
      OBVIOUS
    <3>5. h = [e \in 1..n |-> IF e = 1 THEN seqs[e] ELSE h[e - 1] \o seqs[e]]
      BY <3>3, <3>4, Zenon
    <3>6. FlattenSeq(seqs) = h[n]
      BY <1>1, <2>2, <3>4, Zenon DEF FlattenSeq
    <3>7. PICK same : same = {m \in 0..n : m = 0 \/ h[m] = f[m]}
      OBVIOUS
    <3>8. ASSUME NEW m \in 0..(n - 1), m \in same PROVE m + 1 \in same
      <4>1. m + 1 \in 1..n /\ m + 1 \in 0..n /\ (m + 1) - 1 = m
        OBVIOUS
      <4>2. h[m + 1] = IF m + 1 = 1 THEN seqs[m + 1] ELSE h[m] \o seqs[m + 1]
        BY <3>5, <4>1
      <4>3. f[m + 1] = IF m + 1 = 1 THEN seqs[m + 1] ELSE f[m] \o seqs[m + 1]
        BY <3>1, <4>1
      <4>4. h[m + 1] = f[m + 1]
        <5>1. CASE m = 0
          BY <4>2, <4>3, <5>1
        <5>2. CASE m # 0
          <6>1. m + 1 # 1 /\ h[m] = f[m]
            BY <3>7, <3>8, <5>2
          <6> QED BY <4>2, <4>3, <6>1
        <5> QED BY <5>1, <5>2
      <4> QED BY <3>7, <4>1, <4>4
    <3>9. 0..n \subseteq same
      <4>1. 0 \in same
        BY <3>7
      <4> QED BY <3>8, <4>1, UpTo
    <3>10. h[n] = f[n]
      BY <2>2, <3>7, <3>9
    <3> QED BY <3>6, <3>10
  <2> QED BY <2>1, <2>2
<1>12. Flattening(seqs, f, X)
  BY <1>1, <1>2, <1>9, <1>10, <1>11 DEF Flattening
<1> QED BY <1>12

LEMMA TimesGrows ==
  ASSUME NEW x \in Nat, NEW y \in Nat, NEW w \in Nat, x <= y
  PROVE  x * w \in Nat /\ x * w <= y * w
<1>1. PICK z \in Nat : y = x + z
  <2>1. y - x \in Nat /\ y = x + (y - x)
    OBVIOUS
  <2> QED BY <2>1
<1>2. y * w = x * w + z * w
  BY <1>1
<1>3. z * w \in Nat /\ x * w \in Nat
  OBVIOUS
<1> QED BY <1>2, <1>3

(* Sequences of the same length: where each element is found.              *)
LEMMA FlattenEven ==
  ASSUME NEW X, NEW seqs \in Seq(Seq(X)), NEW w \in Nat, \A e \in 1..Len(seqs) : Len(seqs[e]) = w
  PROVE  /\ FlattenSeq(seqs) \in Seq(X) /\ Len(FlattenSeq(seqs)) = Len(seqs) * w
         /\ \A a \in 1..Len(seqs), b \in 1..w : FlattenSeq(seqs)[(a - 1) * w + b] = seqs[a][b]
<1>1. PICK n \in Nat : n = Len(seqs)
  OBVIOUS
<1>2. PICK f : Flattening(seqs, f, X)
  BY Flattens
<1>3. PICK S : S = Seq(X)
  OBVIOUS
<1>4. /\ f \in [0..n -> S] /\ f[0] = <<>> /\ FlattenSeq(seqs) = f[n]
      /\ \A e \in 1..n : f[e] = f[e - 1] \o seqs[e] /\ seqs[e] \in S /\ Len(seqs[e]) = w
  BY <1>1, <1>2, <1>3 DEF Flattening
<1>5. PICK good : good = {m \in 0..n : /\ Len(f[m]) = m * w
                                       /\ \A a \in 1..m, b \in 1..w : f[m][(a - 1) * w + b] = seqs[a][b]}
  OBVIOUS
<1>6. 0 \in good
  <2>1. Len(f[0]) = 0 /\ 0 * w = 0 /\ 0 \in 0..n
    BY <1>4
  <2> QED BY <1>5, <2>1
<1>7. ASSUME NEW m \in 0..(n - 1), m \in good PROVE m + 1 \in good
  <2>1. m \in 0..n /\ m + 1 \in 0..n /\ m + 1 \in 1..n /\ (m + 1) - 1 = m
    OBVIOUS
  <2>2. PICK s, t : s = f[m] /\ t = seqs[m + 1]
    OBVIOUS
  <2>3. PICK l \in Nat : l = m * w
    OBVIOUS
  <2>4. s \in Seq(X) /\ t \in Seq(X) /\ Len(s) = l /\ Len(t) = w /\ f[m + 1] = s \o t
    BY <1>3, <1>4, <1>5, <1>7, <2>1, <2>2, <2>3
  <2>10. PICK u : u = s \o t
    OBVIOUS
  <2>11. /\ Len(u) = Len(s) + Len(t)
         /\ \A p \in 1..Len(s) : u[p] = s[p]
         /\ \A p \in 1..Len(t) : u[Len(s) + p] = t[p]
    <3>1. s \in Seq(X) /\ t \in Seq(X)
      BY <2>4
    <3>2. /\ Len(s \o t) = Len(s) + Len(t)
          /\ \A p \in 1..Len(s) : (s \o t)[p] = s[p]
          /\ \A p \in 1..Len(t) : (s \o t)[Len(s) + p] = t[p]
      BY <3>1
    <3> QED BY <2>10, <3>2, Zenon
  <2>5. /\ Len(u) = l + w
        /\ \A p \in 1..l : u[p] = s[p]
        /\ \A p \in 1..w : u[l + p] = t[p]
    BY <2>4, <2>11
  <2>6. (m + 1) * w = l + w
    BY <2>3
  <2>7. ASSUME NEW a \in 1..(m + 1), NEW b \in 1..w
        PROVE  u[(a - 1) * w + b] = seqs[a][b]
    <3>1. CASE a = m + 1
      <4>1. (a - 1) * w = l
        BY <2>3, <3>1
      <4> QED BY <2>2, <2>5, <3>1, <4>1
    <3>2. CASE a \in 1..m
      <4>1. PICK k \in Nat : k = a - 1 /\ k + 1 <= m
        BY <3>2
      <4>2. PICK kw \in Nat : kw = k * w
        OBVIOUS
      <4>3. (k + 1) * w <= m * w /\ (k + 1) * w = kw + w
        BY <4>1, <4>2, TimesGrows
      <4>4. kw + b \in 1..l
        <5>1. kw + w <= l
          BY <2>3, <4>3
        <5>2. kw + b \in Nat /\ kw + b >= 1 /\ kw + b <= kw + w
          OBVIOUS
        <5> QED BY <5>1, <5>2
      <4>5. f[m][(a - 1) * w + b] = seqs[a][b]
        BY <1>5, <1>7, <3>2
      <4> QED BY <2>2, <2>5, <4>1, <4>2, <4>4, <4>5
    <3>3. a = m + 1 \/ a \in 1..m
      OBVIOUS
    <3> QED BY <3>1, <3>2, <3>3
  <2>8. u = f[m + 1]
    BY <2>4, <2>10
  <2>9. Len(u) = (m + 1) * w /\ \A a \in 1..(m + 1), b \in 1..w : u[(a - 1) * w + b] = seqs[a][b]
    BY <2>5, <2>6, <2>7
  <2> QED BY <1>5, <2>1, <2>8, <2>9
<1>8. 0..n \subseteq good
  BY <1>6, <1>7, UpTo
<1>9. n \in good /\ n \in 0..n
  BY <1>8
<1> QED BY <1>1, <1>3, <1>4, <1>5, <1>9
-----------------------------------------------------------------------------
(* Maps in place of run specific parameters. *)

RunBlocks(n) == [data : Nat, item : [Items -> Int \ (n + 1..FunOffset - 1)], map : Seq(0..n)]
Even(blocks, n) ==
  /\ blocks \in Seq(RunBlocks(n)) /\ 1 \in DOMAIN blocks
  /\ \A b \in DOMAIN blocks : Len(blocks[b].map) = Len(blocks[1].map)

(* Maps that are not free stay, and nothing but maps is changed.           *)
Keeps(old, new) ==
  /\ DOMAIN new = DOMAIN old
  /\ \A b \in DOMAIN old : new[b].data = old[b].data /\ new[b].item = old[b].item
  /\ \A l \in DOMAIN old[1].map : old[1].map[l] # 0 =>
       l \in DOMAIN new[1].map /\ \A b \in DOMAIN old : new[b].map[l] = old[b].map[l]

LEMMA EvenIs ==
  ASSUME NEW n \in Nat, NEW blocks, Even(blocks, n)
  PROVE  /\ \E nb \in Nat \ {0} : Len(blocks) = nb /\ DOMAIN blocks = 1..nb
         /\ \E m \in Nat : \A b \in DOMAIN blocks : 
              /\ blocks[b] \in RunBlocks(n) /\ blocks[b].data \in Nat
              /\ blocks[b].item \in [Items -> Int \ (n + 1..FunOffset - 1)]
              /\ blocks[b].map \in Seq(0..n) /\ Len(blocks[b].map) = m
              /\ DOMAIN blocks[b].map = 1..m /\ \A l \in 1..m : blocks[b].map[l] \in 0..n
<1>1. PICK R : R = RunBlocks(n)
  OBVIOUS
<1>2. blocks \in Seq(R) /\ 1 \in DOMAIN blocks
  BY <1>1 DEF Even
<1>3. \E nb \in Nat \ {0} : Len(blocks) = nb /\ DOMAIN blocks = 1..nb
  BY <1>2
<1>4. PICK M, I : M = Seq(0..n) /\ I = [Items -> Int \ (n + 1..FunOffset - 1)]
  OBVIOUS
<1>5. R = [data : Nat, item : I, map : M]
  BY <1>1, <1>4 DEF RunBlocks
<1>6. ASSUME NEW b \in DOMAIN blocks
      PROVE  blocks[b] \in R /\ blocks[b].data \in Nat /\ blocks[b].item \in I /\ blocks[b].map \in M
  <2>1. blocks[b] \in R
    BY <1>2, <1>6
  <2> QED BY <1>5, <2>1
<1>7. PICK m \in Nat : m = Len(blocks[1].map)
  BY <1>2, <1>4, <1>6
<1>8. ASSUME NEW b \in DOMAIN blocks
      PROVE  /\ Len(blocks[b].map) = m /\ DOMAIN blocks[b].map = 1..m
             /\ \A l \in 1..m : blocks[b].map[l] \in 0..n
  <2>1. Len(blocks[b].map) = m
    BY <1>7, <1>8 DEF Even
  <2>2. PICK s : s = blocks[b].map
    OBVIOUS
  <2>3. s \in Seq(0..n) /\ Len(s) = m
    BY <1>4, <1>6, <1>8, <2>1, <2>2
  <2>4. DOMAIN s = 1..m /\ \A l \in 1..m : s[l] \in 0..n
    BY <2>3
  <2> QED BY <2>1, <2>2, <2>4
<1> QED BY <1>1, <1>3, <1>4, <1>6, <1>8

LEMMA MinIs ==
  ASSUME NEW s, s # {}, s \subseteq Nat
  PROVE  Min(s) \in s /\ \A l \in s : Min(s) <= l
<1>1. \E y \in s : \A l \in s : y <= l
  BY LeastNumber
<1> QED BY <1>1, Zenon DEF Min

LEMMA MaxOfTwo ==
  ASSUME NEW x \in Nat, NEW y \in Nat
  PROVE  Max({x, y}) = IF x >= y THEN x ELSE y
<1>1. \E z \in {x, y} : \A l \in {x, y} : z >= l
  OBVIOUS
<1>2. Max({x, y}) \in {x, y} /\ \A l \in {x, y} : Max({x, y}) >= l
  BY <1>1, Zenon DEF Max
<1> QED BY <1>2

(* A map that is not free, or behind the last one, is set in every block.  *)
LEMMA SetMapIs ==
  ASSUME NEW n \in Nat, NEW m \in Nat, NEW map \in Seq(0..n), Len(map) = m,
         NEW k \in 1..n, NEW l \in 1..(m + 1), NEW t, t = SetMap(map, k, l),
         NEW w, w = IF l <= m THEN m ELSE m + 1
  PROVE  /\ t \in Seq(0..n) /\ l \in DOMAIN t /\ t[l] = k /\ Len(t) = w
         /\ \A j \in 1..m : j # l => t[j] = map[j]
<1>1. w \in Nat /\ l \in 1..w /\ m <= w
  OBVIOUS
<1>2. Max({l, Len(map)}) = w
  BY <1>1, MaxOfTwo
<1>3. PICK f : f = [j \in 1..w |-> IF j = l THEN k ELSE IF j \in DOMAIN map THEN map[j] ELSE 0]
  OBVIOUS
<1>4. t = f
  BY <1>2, <1>3 DEF SetMap
<1>5. DOMAIN map = 1..m /\ \A j \in 1..m : map[j] \in 0..n
  OBVIOUS
<1>6. f \in [1..w -> 0..n]
  BY <1>3, <1>5
<1>7. f \in Seq(0..n) /\ Len(f) = w /\ DOMAIN f = 1..w
  BY <1>6
<1>8. f[l] = k /\ \A j \in 1..m : j # l => f[j] = map[j]
  BY <1>1, <1>3, <1>5
<1> QED BY <1>1, <1>4, <1>7, <1>8

LEMMA FreeMapIs ==
  ASSUME NEW n \in Nat, NEW blocks, Even(blocks, n)
  PROVE  /\ FreeMap(blocks) \in 1..(Len(blocks[1].map) + 1)
         /\ FreeMap(blocks) \in DOMAIN blocks[1].map => blocks[1].map[FreeMap(blocks)] = 0
<1>1. PICK m \in Nat : Len(blocks[1].map) = m /\ DOMAIN blocks[1].map = 1..m
  <2>1. 1 \in DOMAIN blocks
    BY DEF Even
  <2> QED BY <2>1, EvenIs
<1>2. PICK s : s = {l \in DOMAIN blocks[1].map : blocks[1].map[l] = 0} \cup {Len(blocks[1].map) + 1}
  OBVIOUS
<1>3. s # {} /\ s \subseteq Nat
  BY <1>1, <1>2
<1>4. Min(s) \in s
  BY <1>3, MinIs
<1>5. FreeMap(blocks) = Min(s)
  BY <1>2 DEF FreeMap
<1> QED BY <1>1, <1>2, <1>4, <1>5

LEMMA WithMapIs ==
  ASSUME NEW n \in Nat, NEW blocks, Even(blocks, n), NEW k \in 1..n
  PROVE  /\ Even(WithMap(blocks, k), n) /\ Keeps(blocks, WithMap(blocks, k))
         /\ MapFor(blocks, k) \in Nat /\ MapFor(blocks, k) \in DOMAIN WithMap(blocks, k)[1].map
         /\ \A b \in DOMAIN blocks : WithMap(blocks, k)[b].map[MapFor(blocks, k)] = k
<1>1. PICK nb \in Nat \ {0} : Len(blocks) = nb /\ DOMAIN blocks = 1..nb
  BY EvenIs
<1>2. PICK m \in Nat : \A b \in DOMAIN blocks : 
        /\ blocks[b] \in RunBlocks(n) /\ blocks[b].data \in Nat
        /\ blocks[b].item \in [Items -> Int \ (n + 1..FunOffset - 1)]
        /\ blocks[b].map \in Seq(0..n) /\ Len(blocks[b].map) = m
        /\ DOMAIN blocks[b].map = 1..m /\ \A l \in 1..m : blocks[b].map[l] \in 0..n
  BY EvenIs
<1>3. 1 \in DOMAIN blocks
  BY <1>1
<1>4. CASE Mapped(blocks, k) # {}
  <2>1. Mapped(blocks, k) \subseteq Nat
    BY <1>2, <1>3 DEF Mapped
  <2>2. MapFor(blocks, k) \in Mapped(blocks, k)
    BY <1>4, <2>1, MinIs DEF MapFor
  <2>3. WithMap(blocks, k) = blocks
    BY <1>4 DEF WithMap
  <2>4. MapFor(blocks, k) \in DOMAIN blocks[1].map /\
         \A b \in DOMAIN blocks : blocks[b].map[MapFor(blocks, k)] = k
    BY <2>2 DEF Mapped
  <2>5. Keeps(blocks, blocks)
    BY DEF Keeps
  <2> QED BY <2>1, <2>2, <2>3, <2>4, <2>5
<1>5. CASE Mapped(blocks, k) = {}
  <2>1. PICK l \in 1..(m + 1) : l = FreeMap(blocks) /\ (l \in 1..m => blocks[1].map[l] = 0)
    BY <1>2, <1>3, FreeMapIs
  <2>2. MapFor(blocks, k) = l
    BY <1>5, <2>1 DEF MapFor
  <2>3. PICK new : new = [b \in DOMAIN blocks |-> [blocks[b] EXCEPT !.map = SetMap(@, k, l)]]
    OBVIOUS
  <2>4. WithMap(blocks, k) = new
    BY <1>5, <2>1, <2>3 DEF WithMap
  <2>5. PICK w : w = IF l <= m THEN m ELSE m + 1
    OBVIOUS
  <2>6. ASSUME NEW b \in DOMAIN blocks
        PROVE  /\ new[b] \in RunBlocks(n)
               /\ new[b].data = blocks[b].data /\ new[b].item = blocks[b].item
               /\ Len(new[b].map) = w /\ l \in DOMAIN new[b].map /\ DOMAIN new[b].map = 1..w
               /\ new[b].map[l] = k
               /\ \A j \in 1..m : j # l => new[b].map[j] = blocks[b].map[j]
    <3>1. PICK s, t : s = blocks[b].map /\ t = SetMap(s, k, l)
      OBVIOUS
    <3>2. s \in Seq(0..n) /\ Len(s) = m
      BY <1>2, <2>6, <3>1
    <3>3. /\ t \in Seq(0..n) /\ l \in DOMAIN t /\ t[l] = k /\ Len(t) = w
          /\ \A j \in 1..m : j # l => t[j] = s[j]
      <4>1. t = SetMap(s, k, l) /\ m \in Nat /\ n \in Nat
        BY <3>1
      <4>2. s \in Seq(0..n)
        BY <3>2
      <4>3. Len(s) = m
        BY <3>2
      <4>4. l \in 1..(m + 1) /\ k \in 1..n
        BY <2>1
      <4> QED BY <2>5, <4>1, <4>2, <4>3, <4>4, SetMapIs
    <3>4. new[b] = [blocks[b] EXCEPT !.map = t]
      BY <2>3, <2>6, <3>1
    <3>5. PICK M, I : M = Seq(0..n) /\ I = [Items -> Int \ (n + 1..FunOffset - 1)]
      OBVIOUS
    <3>6. blocks[b] \in [data : Nat, item : I, map : M]
      BY <1>2, <2>6, <3>5 DEF RunBlocks
    <3>7. t \in M
      BY <3>3, <3>5
    <3>8. /\ new[b] \in [data : Nat, item : I, map : M] /\ new[b].map = t
          /\ new[b].data = blocks[b].data /\ new[b].item = blocks[b].item
      BY <3>4, <3>6, <3>7
    <3>9. DOMAIN t = 1..w
      BY <3>3
    <3> QED BY <3>1, <3>3, <3>5, <3>8, <3>9 DEF RunBlocks
  <2>7. DOMAIN new = DOMAIN blocks
    BY <2>3
  <2>8. Even(new, n)
    <3>1. PICK R : R = RunBlocks(n)
      OBVIOUS
    <3>2. new \in [1..nb -> R]
      BY <1>1, <2>3, <2>6, <3>1
    <3>3. new \in Seq(R)
      BY <3>2
    <3> QED BY <1>3, <2>6, <2>7, <3>1, <3>3 DEF Even
  <2>9. Keeps(blocks, new)
    <3>1. ASSUME NEW j \in DOMAIN blocks[1].map, blocks[1].map[j] # 0
          PROVE  j \in DOMAIN new[1].map /\ \A b \in DOMAIN blocks : new[b].map[j] = blocks[b].map[j]
      <4>1. j \in 1..m /\ j # l
        BY <1>2, <1>3, <2>1, <3>1
      <4>2. j \in 1..w
        BY <2>5, <4>1
      <4> QED BY <1>3, <2>6, <4>1, <4>2
    <3> QED BY <2>6, <2>7, <3>1 DEF Keeps
  <2> QED BY <1>3, <2>2, <2>4, <2>6, <2>8, <2>9
<1> QED BY <1>4, <1>5
-----------------------------------------------------------------------------
(* The tokens, one after the other. *)

Token == [kind : {"par", "map", "fun"}, no : Nat]

(* What a token has become: a run specific parameter a map which is this   *)
(* parameter in all blocks, another parameter that of its new number.      *)
Became(doc, run, blocks, t, u) ==
  IF t.kind = "par" /\ IsSpecific(doc, t.no, run)
  THEN \E l \in DOMAIN blocks[1].map : u = MapNo(l) /\ \A b \in DOMAIN blocks : blocks[b].map[l] = t.no
  ELSE u = IF t.kind = "par" THEN Par(NewNo(doc, run, t.no)) ELSE t

TokenOf(doc, t) == t \in Token /\ (t.kind = "par" => t.no \in DOMAIN doc.par)

LEMMA KeepsOn ==
  ASSUME NEW x, NEW y, NEW z, 1 \in DOMAIN x, Keeps(x, y), Keeps(y, z)
  PROVE  Keeps(x, z)
<1>1. DOMAIN y = DOMAIN x /\ DOMAIN z = DOMAIN x
  BY DEF Keeps
<1>2. \A b \in DOMAIN x : z[b].data = x[b].data /\ z[b].item = x[b].item
  BY <1>1 DEF Keeps
<1>3. ASSUME NEW l \in DOMAIN x[1].map, x[1].map[l] # 0
      PROVE  l \in DOMAIN z[1].map /\ \A b \in DOMAIN x : z[b].map[l] = x[b].map[l]
  <2>1. l \in DOMAIN y[1].map /\ \A b \in DOMAIN x : y[b].map[l] = x[b].map[l]
    BY <1>3 DEF Keeps
  <2>2. y[1].map[l] # 0
    BY <1>3, <2>1
  <2>3. l \in DOMAIN z[1].map /\ \A b \in DOMAIN y : z[b].map[l] = y[b].map[l]
    BY <2>1, <2>2 DEF Keeps
  <2> QED BY <1>1, <2>1, <2>3
<1> QED BY <1>1, <1>2, <1>3 DEF Keeps

(* A map that has been found stays.                                        *)
LEMMA BecameOn ==
  ASSUME NEW doc, NEW run, NEW t, TokenOf(doc, t), NEW n \in Nat, DOMAIN doc.par = 1..n,
         NEW x, NEW y, NEW u, Became(doc, run, x, t, u), 1 \in DOMAIN x, Keeps(x, y)
  PROVE  Became(doc, run, y, t, u)
<1>1. CASE t.kind = "par" /\ IsSpecific(doc, t.no, run)
  <2>1. PICK l \in DOMAIN x[1].map : u = MapNo(l) /\ \A b \in DOMAIN x : x[b].map[l] = t.no
    BY <1>1 DEF Became
  <2>2. x[1].map[l] # 0
    <3>1. t.no # 0
      BY <1>1 DEF TokenOf
    <3> QED BY <2>1, <3>1
  <2>3. DOMAIN y = DOMAIN x /\ l \in DOMAIN y[1].map /\ \A b \in DOMAIN x : y[b].map[l] = x[b].map[l]
    BY <2>1, <2>2 DEF Keeps
  <2> QED BY <1>1, <2>1, <2>3 DEF Became
<1>2. CASE ~(t.kind = "par" /\ IsSpecific(doc, t.no, run))
  BY <1>2 DEF Became
<1> QED BY <1>1, <1>2

(* One token. *)
Goes(doc, run, n, t, blocks, out, next) ==
  \E u \in Token : \E new :
    /\ next = [blocks |-> new, out |-> Append(out, u)]
    /\ Even(new, n) /\ Keeps(blocks, new) /\ Became(doc, run, new, t, u)

LEMMA TokenBecomes ==
  ASSUME NEW doc, NEW run, NEW t, TokenOf(doc, t), NEW n \in Nat, DOMAIN doc.par = 1..n,
         NEW blocks, Even(blocks, n), NEW out, NEW acc, acc = [blocks |-> blocks, out |-> out],
         NEW next, next = Substituted(doc, run, acc, t)
  PROVE  Goes(doc, run, n, t, blocks, out, next)
<1>1. CASE t.kind = "par" /\ IsSpecific(doc, t.no, run)
  <2>1. PICK k \in 1..n : k = t.no
    BY <1>1 DEF TokenOf
  <2>2. PICK new : new = WithMap(blocks, k)
    OBVIOUS
  <2>3. PICK l : l = MapFor(blocks, k)
    OBVIOUS
  <2>4. /\ Even(new, n) /\ Keeps(blocks, new) /\ l \in Nat /\ l \in DOMAIN new[1].map
        /\ \A b \in DOMAIN blocks : new[b].map[l] = k
    BY <2>2, <2>3, WithMapIs
  <2>5. next = [blocks |-> new, out |-> Append(out, MapNo(l))]
    BY <1>1, <2>1, <2>2, <2>3 DEF Substituted
  <2>6. MapNo(l) \in Token
    BY <2>4 DEF MapNo, Token
  <2>7. DOMAIN new = DOMAIN blocks
    BY <2>4 DEF Keeps
  <2>8. Became(doc, run, new, t, MapNo(l))
    BY <1>1, <2>1, <2>4, <2>7 DEF Became
  <2> QED BY <2>4, <2>5, <2>6, <2>8 DEF Goes
<1>2. CASE ~(t.kind = "par" /\ IsSpecific(doc, t.no, run))
  <2>1. PICK u : u = IF t.kind = "par" THEN Par(NewNo(doc, run, t.no)) ELSE t
    OBVIOUS
  <2>2. u \in Token
    <3>1. CASE t.kind = "par"
      <4>1. NewNo(doc, run, t.no) \in Nat
        BY <3>1, BeforeCounted DEF NewNo, TokenOf
      <4> QED BY <2>1, <3>1, <4>1 DEF Par, Token
    <3>2. CASE t.kind # "par"
      BY <2>1, <3>2 DEF TokenOf
    <3> QED BY <3>1, <3>2
  <2>3. next = [acc EXCEPT !.out = Append(@, u)]
    BY <1>2, <2>1 DEF Substituted
  <2>4. next = [blocks |-> blocks, out |-> Append(out, u)]
    BY <2>3
  <2>5. Keeps(blocks, blocks)
    BY DEF Keeps, Even
  <2>6. Became(doc, run, blocks, t, u)
    BY <1>2, <2>1 DEF Became
  <2> QED BY <2>2, <2>4, <2>5, <2>6 DEF Goes
<1> QED BY <1>1, <1>2

(* All of them: the maps are found, and each token has become what it is.  *)
LEMMA AllBecome ==
  ASSUME NEW doc, NEW run, NEW n \in Nat, DOMAIN doc.par = 1..n, Even(doc.blocks, n),
         NEW tokens \in Seq(Token), tokens = Tokens(doc),
         \A k \in DOMAIN tokens : TokenOf(doc, tokens[k]),
         NEW all, all = SubstitutedAll(doc, run)
  PROVE  /\ Even(all.blocks, n) /\ Keeps(doc.blocks, all.blocks)
         /\ all.out \in Seq(Token) /\ Len(all.out) = Len(tokens)
         /\ \A k \in 1..Len(tokens) : Became(doc, run, all.blocks, tokens[k], all.out[k])
<1>1. PICK m \in Nat : m = Len(tokens) /\ DOMAIN tokens = 1..m
  OBVIOUS
<1>2. PICK R, O : R = Seq(RunBlocks(n)) /\ O = Seq(Token)
  OBVIOUS
<1>3. PICK Accs : Accs = {acc \in [blocks : R, out : O] : Even(acc.blocks, n)}
  OBVIOUS
<1>4. PICK start : start = [blocks |-> doc.blocks, out |-> <<>>]
  OBVIOUS
<1>5. start \in Accs
  BY <1>2, <1>3, <1>4 DEF Even
<1> DEFINE Step(acc, e) == Substituted(doc, run, acc, tokens[e])
<1>6. ASSUME NEW acc \in Accs, NEW e \in 1..m
      PROVE  /\ Step(acc, e) \in Accs
             /\ \E u \in Token : /\ Step(acc, e).out = Append(acc.out, u)
                                 /\ Even(Step(acc, e).blocks, n)
                                 /\ Keeps(acc.blocks, Step(acc, e).blocks)
                                 /\ Became(doc, run, Step(acc, e).blocks, tokens[e], u)
  <2>1. PICK blocks \in R, out \in O : acc = [blocks |-> blocks, out |-> out] /\ Even(blocks, n)
    BY <1>3
  <2>2. PICK t, next : t = tokens[e] /\ next = Step(acc, e)
    OBVIOUS
  <2>3. TokenOf(doc, t) /\ next = Substituted(doc, run, acc, t)
    BY <1>1, <2>2
  <2>4. PICK new : \E u \in Token : /\ next = [blocks |-> new, out |-> Append(out, u)]
                                     /\ Even(new, n) /\ Keeps(blocks, new)
                                     /\ Became(doc, run, new, t, u)
    <3>1. Goes(doc, run, n, t, blocks, out, next)
      BY <2>1, <2>3, TokenBecomes
    <3> QED BY <3>1 DEF Goes
  <2>5. PICK u \in Token : /\ next = [blocks |-> new, out |-> Append(out, u)]
                           /\ Even(new, n) /\ Keeps(blocks, new)
                           /\ Became(doc, run, new, t, u)
    BY <2>4
  <2>6. new \in R /\ Append(out, u) \in O
    BY <1>2, <2>1, <2>5 DEF Even
  <2>7. next \in Accs
    BY <1>3, <2>5, <2>6
  <2>8. acc.blocks = blocks /\ acc.out = out /\ next.blocks = new /\ next.out = Append(out, u)
    BY <2>1, <2>5
  <2> QED BY <2>2, <2>7, <2>8, <2>5
<1> HIDE DEF Step
<1>7. PICK step : step = [b \in Accs \X (1..m) |-> Step(b[1], b[2])]
  OBVIOUS
<1>8. \A acc \in Accs, e \in 1..m : step[<<acc, e>>] = Step(acc, e)
  BY <1>7
<1>9. step \in [Accs \X (1..m) -> Accs]
  BY <1>6, <1>7
<1>10. PICK g \in [SUBSET (1..m) -> Accs] : FoldsTo(g, start, step, m)
  BY <1>1, <1>5, <1>9, FoldRuns, Zenon
<1>11. \A s \in SUBSET (1..m) : g[s] = IF s = {} THEN start ELSE Step(g[s \ {Max(s)}], Max(s))
  <2>1. ASSUME NEW s \in SUBSET (1..m), s # {}
        PROVE  step[<<g[s \ {Max(s)}], Max(s)>>] = Step(g[s \ {Max(s)}], Max(s))
    <3>1. PICK x : x = Max(s)
      OBVIOUS
    <3>2. x \in 1..m
      BY <1>1, <2>1, <3>1, MaxIs
    <3>3. g[s \ {x}] \in Accs
      OBVIOUS
    <3> QED BY <1>8, <3>1, <3>2, <3>3
  <2> QED BY <1>10, <2>1 DEF FoldsTo
<1>12. g = [s \in SUBSET DOMAIN tokens |-> IF s = {} THEN start ELSE Step(g[s \ {Max(s)}], Max(s))]
  BY <1>1, <1>11
<1>13. PICK h : h = CHOOSE z : z = [s \in SUBSET DOMAIN tokens |->
                                      IF s = {} THEN start ELSE Step(z[s \ {Max(s)}], Max(s))]
  OBVIOUS
<1>14. h = [s \in SUBSET DOMAIN tokens |-> IF s = {} THEN start ELSE Step(h[s \ {Max(s)}], Max(s))]
  BY <1>12, <1>13, Zenon
<1>15. all = h[DOMAIN tokens]
  <2>1. all = FoldLeft(LAMBDA acc, token : Substituted(doc, run, acc, token), start, tokens)
    BY <1>4 DEF SubstitutedAll
  <2> QED BY <1>13, <2>1, Zenon DEF FoldLeft, MapThenFoldSet, Step
<1>16. PICK good : good = {e \in 0..m :
         /\ h[1..e] \in Accs /\ Even(h[1..e].blocks, n) /\ Keeps(doc.blocks, h[1..e].blocks)
         /\ Len(h[1..e].out) = e
         /\ \A k \in 1..e : Became(doc, run, h[1..e].blocks, tokens[k], h[1..e].out[k])}
  OBVIOUS
<1>17. 0 \in good
  <2>1. 1..0 = {} /\ {} \in SUBSET DOMAIN tokens /\ 0 \in 0..m
    BY <1>1
  <2>2. h[1..0] = start
    BY <1>14, <2>1
  <2>3. start.blocks = doc.blocks /\ start.out = <<>>
    BY <1>4
  <2>4. Keeps(doc.blocks, doc.blocks)
    <3>1. 1 \in DOMAIN doc.blocks
      BY DEF Even
    <3> QED BY DEF Keeps
  <2> QED BY <1>5, <1>16, <2>1, <2>2, <2>3, <2>4
<1>18. ASSUME NEW e \in 0..(m - 1), e \in good PROVE e + 1 \in good
  <2>1. PICK f \in 1..m : f = e + 1 /\ f - 1 = e /\ f \in 0..m
    BY <1>1
  <2>2. 1..f \in SUBSET (1..m) /\ 1..f # {} /\ Max(1..f) = f /\ (1..f) \ {f} = 1..(f - 1)
    BY <1>1, MaxUpTo
  <2>3. PICK old, new : old = h[1..e] /\ new = h[1..f]
    OBVIOUS
  <2>4. new = Step(old, f)
    <3>1. PICK s, t : s = 1..f /\ t = 1..(f - 1)
      OBVIOUS
    <3>2. s \in SUBSET DOMAIN tokens /\ s # {} /\ Max(s) = f /\ s \ {f} = t
      BY <1>1, <2>2, <3>1
    <3>3. h[s] = Step(h[t], f)
      BY <1>14, <3>2
    <3> QED BY <2>1, <2>3, <3>1, <3>3
  <2>5. /\ old \in Accs /\ Even(old.blocks, n) /\ Keeps(doc.blocks, old.blocks) /\ Len(old.out) = e
        /\ \A k \in 1..e : Became(doc, run, old.blocks, tokens[k], old.out[k])
    BY <1>16, <1>18, <2>3
  <2>6. PICK u \in Token : /\ new \in Accs /\ new.out = Append(old.out, u)
                           /\ Even(new.blocks, n) /\ Keeps(old.blocks, new.blocks)
                           /\ Became(doc, run, new.blocks, tokens[f], u)
    BY <1>6, <2>4, <2>5
  <2>7. Keeps(doc.blocks, new.blocks)
    <3>1. 1 \in DOMAIN doc.blocks
      BY DEF Even
    <3> QED BY <2>5, <2>6, <3>1, KeepsOn
  <2>8. Len(new.out) = f /\ new.out[f] = u /\ \A k \in 1..e : new.out[k] = old.out[k]
    <3>1. PICK o : o = old.out
      OBVIOUS
    <3>2. o \in Seq(Token) /\ Len(o) = e
      BY <1>2, <1>3, <2>5, <3>1
    <3> QED BY <2>1, <2>6, <3>1, <3>2
  <2>9. ASSUME NEW k \in 1..f PROVE Became(doc, run, new.blocks, tokens[k], new.out[k])
    <3>1. CASE k = f
      BY <2>6, <2>8, <3>1
    <3>2. CASE k # f
      <4>1. k \in 1..e /\ k \in DOMAIN tokens
        BY <1>1, <2>1, <3>2
      <4>2. TokenOf(doc, tokens[k]) /\ Became(doc, run, old.blocks, tokens[k], old.out[k])
        BY <2>5, <4>1
      <4>3. 1 \in DOMAIN old.blocks
        BY <2>5 DEF Even
      <4>4. Became(doc, run, new.blocks, tokens[k], old.out[k])
        <5>1. PICK t, x, y : t = tokens[k] /\ x = old.blocks /\ y = new.blocks
          OBVIOUS
        <5>2. TokenOf(doc, t) /\ Became(doc, run, x, t, old.out[k]) /\ 1 \in DOMAIN x /\ Keeps(x, y)
          BY <2>6, <4>2, <4>3, <5>1
        <5>3. Became(doc, run, y, t, old.out[k])
          BY <5>2, BecameOn
        <5> QED BY <5>1, <5>3
      <4> QED BY <2>8, <4>1, <4>4
    <3> QED BY <3>1, <3>2
  <2>10. f \in good
    BY <1>16, <2>1, <2>3, <2>6, <2>7, <2>8, <2>9
  <2> QED BY <2>1, <2>10
<1>19. 0..m \subseteq good
  BY <1>1, <1>17, <1>18, UpTo
<1>20. m \in good
  BY <1>1, <1>19
<1>21. all = h[1..m]
  BY <1>1, <1>15
<1>22. all \in Accs /\ Even(all.blocks, n) /\ Keeps(doc.blocks, all.blocks) /\ Len(all.out) = m
       /\ \A k \in 1..m : Became(doc, run, all.blocks, tokens[k], all.out[k])
  BY <1>16, <1>20, <1>21
<1> QED BY <1>1, <1>2, <1>3, <1>22

-----------------------------------------------------------------------------
(* The sorted template. *)

SortedIs(doc, run, sorted, n, glob) ==
  /\ Len(sorted.par) = n /\ glob \in 0..n /\ NoOfSpecific(sorted, run) = n - glob
  /\ \A k \in 1..n : Rank(doc, run, k) \in 1..n /\ sorted.par[Rank(doc, run, k)] = doc.par[k]
  /\ \A p \in 1..n : sorted.par[p].run = run <=> p > glob

LEMMA SortedPars ==
  ASSUME NEW doc, NEW run, NEW n \in Nat, NEW P, doc.par \in Seq(P), Len(doc.par) = n,
         NEW sorted, sorted = Sorted(doc, run),
         NEW glob, glob = n - NoOfSpecific(doc, run)
  PROVE  sorted.par \in Seq(P) /\ SortedIs(doc, run, sorted, n, glob)
<1>1. DOMAIN doc.par = 1..n /\ \A k \in 1..n : doc.par[k] \in P
  BY SMT
<1>2. PICK f : f = [p \in 1..n |-> doc.par[Order(doc, run)[p]]]
  OBVIOUS
<1>3. /\ \A k \in 1..n : Rank(doc, run, k) \in 1..n /\ Order(doc, run)[Rank(doc, run, k)] = k
      /\ \A p \in 1..n : Order(doc, run)[p] \in 1..n /\ Rank(doc, run, Order(doc, run)[p]) = p
  BY <1>1, OrderIs
<1>4. sorted.par = f
  <2>1. \A p \in 1..n : f[p] = doc.par[Order(doc, run)[p]]
    BY <1>2
  <2>2. sorted.par = [p \in 1..n |-> doc.par[Order(doc, run)[p]]]
    BY <1>1 DEF Sorted
  <2> QED BY <1>2, <2>2
<1>5. f \in [1..n -> P]
  <2>1. \A p \in 1..n : doc.par[Order(doc, run)[p]] \in P
    BY <1>1, <1>3
  <2> QED BY <1>2, <2>1
<1>6. f \in Seq(P) /\ Len(f) = n /\ DOMAIN f = 1..n
  BY <1>5
<1>7. \A k \in 1..n : Rank(doc, run, k) \in 1..n /\ f[Rank(doc, run, k)] = doc.par[k]
  BY <1>2, <1>3
<1>8. /\ NoOfSpecific(doc, run) \in 0..n
      /\ \A k \in 1..n : Rank(doc, run, k) > n - NoOfSpecific(doc, run) <=> IsSpecific(doc, k, run)
  BY <1>1, SpecificBehind
<1>9. ASSUME NEW p \in 1..n PROVE f[p].run = run <=> p > glob
  <2>1. PICK k \in 1..n : k = Order(doc, run)[p] /\ Rank(doc, run, k) = p
    BY <1>3
  <2>2. f[p] = doc.par[k]
    BY <1>2, <2>1
  <2>3. Rank(doc, run, k) > n - NoOfSpecific(doc, run) <=> IsSpecific(doc, k, run)
    BY <1>8
  <2> QED BY <2>1, <2>2, <2>3 DEF IsSpecific
<1>10. glob \in 0..n /\ n - glob = NoOfSpecific(doc, run)
  BY <1>8
<1>11. NoOfSpecific(sorted, run) = n - glob
  <2>1. {p \in DOMAIN sorted.par : IsSpecific(sorted, p, run)} = (glob + 1)..n
    BY <1>4, <1>6, <1>9, <1>10 DEF IsSpecific
  <2>2. Cardinality((glob + 1)..n) = n - glob
    <3>1. PICK x \in Int : x = glob + 1
      BY <1>10
    <3>2. x \in Int /\ n \in Int
      BY <3>1
    <3>3. Cardinality(x..n) = IF x > n THEN 0 ELSE n - x + 1
      BY <3>2, FS_Interval, Zenon
    <3> QED BY <1>10, <3>1, <3>3
  <2> QED BY <2>1, <2>2 DEF NoOfSpecific
<1> QED BY <1>4, <1>6, <1>7, <1>9, <1>10, <1>11 DEF SortedIs

(* The tokens of the sorted template, and its RUN blocks.                  *)
RestIs(doc, run, all, sorted) ==
  /\ {"par", "theory", "functions", "blocks", "rrf"} \subseteq DOMAIN sorted
  /\ Tokens(sorted) = all.out /\ sorted.rrf = NewNo(doc, run, doc.rrf)
  /\ sorted.blocks = [b \in DOMAIN doc.blocks |-> Renumbered(doc, run, all.blocks[b])]

LEMMA SortedRest ==
  ASSUME NEW doc, NEW run, NEW n \in Nat, DOMAIN doc.par = 1..n, Even(doc.blocks, n),
         doc.theory \in Seq(Token), doc.functions \in Seq(Token),
         \A k \in DOMAIN Tokens(doc) : TokenOf(doc, Tokens(doc)[k]),
         NEW all, all = SubstitutedAll(doc, run), NEW sorted, sorted = Sorted(doc, run)
  PROVE  RestIs(doc, run, all, sorted)
<1>1. PICK tokens \in Seq(Token), l \in Nat, m \in Nat :
        tokens = Tokens(doc) /\ l = Len(doc.theory) /\ m = Len(tokens) /\ l <= m
  <2>1. PICK x, y : x = doc.theory /\ y = doc.functions
    OBVIOUS
  <2>2. x \in Seq(Token) /\ y \in Seq(Token)
    BY <2>1
  <2>3. x \o y \in Seq(Token) /\ Len(x) \in Nat /\ Len(x \o y) \in Nat /\ Len(x) <= Len(x \o y)
    BY <2>2
  <2> QED BY <2>1, <2>3 DEF Tokens
<1>2. all.out \in Seq(Token) /\ Len(all.out) = m
  BY <1>1, AllBecome
<1>3. PICK s : s = all.out
  OBVIOUS
<1>4. SubSeq(s, 1, l) \o SubSeq(s, l + 1, Len(s)) = s
  <2>1. PICK x, y : x = SubSeq(s, 1, l) /\ y = SubSeq(s, l + 1, m)
    OBVIOUS
  <2>2. s \in Seq(Token) /\ Len(s) = m /\ l <= m
    BY <1>1, <1>2, <1>3
  <2>3. x \in Seq(Token) /\ Len(x) = l /\ \A k \in 1..l : x[k] = s[k]
    BY <2>1, <2>2
  <2>4. y \in Seq(Token) /\ Len(y) = m - l /\ \A k \in 1..m - l : y[k] = s[l + k]
    BY <2>1, <2>2
  <2>5. x \o y \in Seq(Token) /\ Len(x \o y) = m
    BY <2>3, <2>4
  <2>6. ASSUME NEW k \in 1..m PROVE (x \o y)[k] = s[k]
    <3>1. CASE k <= l
      <4>1. k \in 1..l
        BY <3>1
      <4>2. (x \o y)[k] = x[k]
        BY <2>3, <2>4, <4>1
      <4> QED BY <2>3, <4>1, <4>2
    <3>2. CASE k > l
      <4>1. (x \o y)[k] = y[k - l]
        BY <2>3, <2>4, <3>2
      <4>2. k - l \in 1..m - l /\ l + (k - l) = k
        BY <3>2
      <4> QED BY <2>4, <4>1, <4>2
    <3>3. k <= l \/ k > l
      OBVIOUS
    <3> QED BY <3>1, <3>2, <3>3
  <2>7. x \o y = s
    <3>1. PICK z : z = x \o y
      OBVIOUS
    <3> QED BY <2>2, <2>5, <2>6, <3>1
  <2> QED BY <2>1, <2>2, <2>7
<1>5. sorted.theory = SubSeq(s, 1, l) /\ sorted.functions = SubSeq(s, l + 1, Len(s))
  BY <1>1, <1>3 DEF Sorted
<1>6. Tokens(sorted) = s
  BY <1>4, <1>5 DEF Tokens
<1>7. /\ {"par", "theory", "functions", "blocks", "rrf"} \subseteq DOMAIN sorted
      /\ sorted.rrf = NewNo(doc, run, doc.rrf)
      /\ sorted.blocks = [b \in DOMAIN doc.blocks |-> Renumbered(doc, run, all.blocks[b])]
  BY DEF Sorted
<1> QED BY <1>3, <1>6, <1>7 DEF RestIs

-----------------------------------------------------------------------------
(* The file for all runs. *)

LEMMA RowAndColumn ==
  ASSUME NEW w \in Nat \ {0}, NEW q \in Nat, NEW r \in 0..w - 1, NEW m, m = q * w + r
  PROVE  m \div w = q /\ m % w = r
<1>1. PICK qw \in Int : qw = q * w
  OBVIOUS
<1>2. m = qw + r /\ m \in Int
  BY <1>1
<1>3. PICK x \in Int, y \in Int : x = m \div w /\ y = m % w
  BY <1>2
<1>4. PICK xw \in Int : xw = x * w
  OBVIOUS
<1>5. m = xw + y /\ y \in 0..w - 1
  BY <1>2, <1>3, <1>4
<1>6. x = q
  <2>1. CASE x >= q + 1
    <3>1. PICK z \in Nat : x = q + 1 + z
      <4>1. x - q - 1 \in Nat /\ x = q + 1 + (x - q - 1)
        BY <2>1
      <4> QED BY <4>1
    <3>2. x * w = q * w + w + z * w
      BY <3>1
    <3>3. z * w \in Nat
      OBVIOUS
    <3>4. xw >= qw + w
      BY <1>1, <1>4, <3>2, <3>3
    <3> QED BY <1>2, <1>5, <3>4
  <2>2. CASE x + 1 <= q
    <3>1. PICK z \in Nat : q = x + 1 + z
      <4>1. q - x - 1 \in Nat /\ q = x + 1 + (q - x - 1)
        BY <2>2
      <4> QED BY <4>1
    <3>2. q * w = x * w + w + z * w
      BY <3>1
    <3>3. z * w \in Nat
      OBVIOUS
    <3>4. qw >= xw + w
      BY <1>1, <1>4, <3>2, <3>3
    <3> QED BY <1>2, <1>5, <3>4
  <2> QED BY <2>1, <2>2
<1> QED BY <1>1, <1>2, <1>3, <1>4, <1>5, <1>6

(* Row a of a table with m rows.                                           *)
LEMMA InTable ==
  ASSUME NEW w \in Nat, NEW m \in Nat, NEW a \in 1..m, NEW j \in 1..w
  PROVE  (a - 1) * w \in Nat /\ (a - 1) * w + j \in 1..m * w /\ m * w \in Nat
<1>1. PICK k \in Nat : k = a - 1 /\ k + 1 <= m
  OBVIOUS
<1>2. (k + 1) * w <= m * w /\ m * w \in Nat
  BY <1>1, TimesGrows
<1>3. PICK kw \in Nat, mw \in Nat : kw = k * w /\ mw = m * w
  BY <1>2
<1>4. kw + w <= mw
  <2>1. (k + 1) * w = kw + w
    BY <1>3
  <2> QED BY <1>2, <1>3, <2>1
<1>5. kw + j \in 1..mw
  BY <1>4
<1> QED BY <1>1, <1>3, <1>5

(* The same behind g others. *)
Place(g, w, a, j) == g + (a - 1) * w + j

IsPlace(p, g, w, m, a, j) ==
  /\ p \in 1..g + m * w /\ ~(p <= g)
  /\ ((p - g - 1) \div w) + 1 = a /\ ((p - g - 1) % w) + 1 = j

LEMMA BehindOthers ==
  ASSUME NEW g \in Nat, NEW w \in Nat, NEW m \in Nat, NEW a \in 1..m, NEW j \in 1..w,
         NEW p, p = Place(g, w, a, j)
  PROVE  IsPlace(p, g, w, m, a, j)
<1>1. PICK q \in Nat, r \in 0..w - 1 : q = a - 1 /\ r = j - 1
  <2>1. a - 1 \in Nat /\ j - 1 \in 0..w - 1
    OBVIOUS
  <2> QED BY <2>1
<1>2. PICK x \in Nat, mw \in Nat : x = q * w /\ mw = m * w
  OBVIOUS
<1>3. x + j \in 1..mw
  BY <1>1, <1>2, InTable
<1>4. p = g + x + j
  BY <1>1, <1>2 DEF Place
<1>5. p \in 1..g + mw /\ ~(p <= g)
  BY <1>3, <1>4
<1>6. PICK f : f = p - g - 1
  OBVIOUS
<1>7. f = q * w + r
  BY <1>1, <1>2, <1>4, <1>6
<1>8. f \div w = q /\ f % w = r
  <2>1. w \in Nat \ {0}
    OBVIOUS
  <2> QED BY <1>7, <2>1, RowAndColumn
<1>9. q + 1 = a /\ r + 1 = j
  BY <1>1
<1> QED BY <1>2, <1>5, <1>6, <1>8, <1>9 DEF IsPlace

Repeated(sorted, global, list, m, spec, glob) ==
  /\ DOMAIN global.par = 1..glob + m * spec
  /\ \A p \in 1..glob : global.par[p] = sorted.par[p]
  /\ \A a \in 1..m, j \in 1..spec : \E val :
       global.par[Place(glob, spec, a, j)] =
         [name |-> sorted.par[glob + j].name, run |-> list[a], val |-> val]

LEMMA GlobalPars ==
  ASSUME NEW sorted, NEW n \in Nat, Len(sorted.par) = n, {"par", "blocks"} \subseteq DOMAIN sorted,
         NEW temp \in Nat, NEW list \in Seq(Nat), NEW d, ~TooLong(temp, d),
         \A j \in 1..Len(list) - 1 : ~TooLong(list[j], d),
         NEW spec \in 0..n, spec = NoOfSpecific(sorted, temp), NEW glob, glob = n - spec,
         NEW ones, NEW global, global = GlobalFile(sorted, temp, list, ones, d),
         NEW m \in Nat, Len(list) = m
  PROVE  Repeated(sorted, global, list, m, spec, glob)
<1>1. m = Len(list)
  OBVIOUS
<1> DEFINE SpecPar_(a, k) ==
      [name |-> sorted.par[glob + k].name, run |-> NameOf(temp, temp, list, d)[a],
       val |-> ValueOf(sorted, glob + k, temp, list, ones, a)]
<1>2. PICK pars : pars = [p \in 1..glob + m * spec |->
                            IF p <= glob THEN sorted.par[p]
                            ELSE SpecPar_(((p - glob - 1) \div spec) + 1, ((p - glob - 1) % spec) + 1)]
  OBVIOUS
<1>3. global.par = pars
  BY <1>1, <1>2 DEF GlobalFile
<1> HIDE DEF SpecPar_
<1>4. spec \in Nat /\ glob \in Nat /\ m * spec \in Nat
  BY <1>1
<1>5. ASSUME NEW a \in 1..m, NEW j \in 1..spec
      PROVE  pars[Place(glob, spec, a, j)] = SpecPar_(a, j)
  <2>1. PICK p : p = Place(glob, spec, a, j)
    OBVIOUS
  <2>2. IsPlace(p, glob, spec, m, a, j)
    BY <1>4, <2>1, BehindOthers
  <2>3. pars[p] = SpecPar_(((p - glob - 1) \div spec) + 1, ((p - glob - 1) % spec) + 1)
    BY <1>2, <2>2, Zenon DEF IsPlace
  <2>4. pars[p] = SpecPar_(a, j)
    BY <2>2, <2>3, Zenon DEF IsPlace
  <2> QED BY <2>1, <2>4
<1>6. ASSUME NEW a \in 1..m, NEW j \in 1..spec
      PROVE  \E val : SpecPar_(a, j) = [name |-> sorted.par[glob + j].name, run |-> list[a], val |-> val]
  <2>1. NameOf(temp, temp, list, d)[a] = list[a]
    BY <1>1, NameIs
  <2> QED BY <2>1 DEF SpecPar_
<1>7. \A p \in 1..glob : pars[p] = sorted.par[p]
  BY <1>2, <1>4
<1>8. DOMAIN pars = 1..glob + m * spec
  BY <1>2
<1>9. ASSUME NEW a \in 1..m, NEW j \in 1..spec
      PROVE  \E val : global.par[Place(glob, spec, a, j)] =
                        [name |-> sorted.par[glob + j].name, run |-> list[a], val |-> val]
  <2>1. global.par[Place(glob, spec, a, j)] = SpecPar_(a, j)
    BY <1>3, <1>5
  <2>2. PICK val : SpecPar_(a, j) = [name |-> sorted.par[glob + j].name, run |-> list[a], val |-> val]
    BY <1>6
  <2> QED BY <2>1, <2>2, Zenon
<1>10. DOMAIN global.par = 1..glob + m * spec /\ \A p \in 1..glob : global.par[p] = sorted.par[p]
  BY <1>3, <1>7, <1>8
<1> QED BY <1>9, <1>10 DEF Repeated

(* Its RUN blocks.                                                         *)
BlockNo(nb, a, b) == (a - 1) * nb + b
Moved(block, of, run, a, spec, glob) ==
  /\ block.data = run
  /\ block.item = [x \in Items |-> ShiftedBy(a, spec, glob, of.item[x])]
  /\ block.map = [l \in DOMAIN of.map |-> ShiftedBy(a, spec, glob, of.map[l])]

Made(sorted, temp, list, d, spec, glob, nb, global) ==
  /\ {"par", "blocks"} \subseteq DOMAIN sorted /\ temp \in Nat /\ list \in Seq(Nat)
  /\ ~TooLong(temp, d) /\ \A j \in 1..Len(list) - 1 : ~TooLong(list[j], d)
  /\ spec = NoOfSpecific(sorted, temp) /\ glob = Len(sorted.par) - spec
  /\ nb \in Nat /\ Len(sorted.blocks) = nb
  /\ \E ones : global = GlobalFile(sorted, temp, list, ones, d)

LEMMA FunctionIsSeq ==
  ASSUME NEW m \in Nat, NEW S, NEW f \in [1..m -> S]
  PROVE  f \in Seq(S) /\ Len(f) = m
OBVIOUS

LEMMA GlobalBlocks ==
  ASSUME NEW sorted, NEW temp, NEW list, NEW d, NEW spec, NEW glob, NEW nb, NEW global,
         Made(sorted, temp, list, d, spec, glob, nb, global),
         NEW a \in 1..Len(list), NEW b \in 1..nb, sorted.blocks[b].data = temp
  PROVE  Moved(global.blocks[BlockNo(nb, a, b)], sorted.blocks[b], list[a], a, spec, glob)
<1>1. /\ {"par", "blocks"} \subseteq DOMAIN sorted /\ temp \in Nat /\ list \in Seq(Nat)
      /\ ~TooLong(temp, d) /\ \A j \in 1..Len(list) - 1 : ~TooLong(list[j], d)
      /\ spec = NoOfSpecific(sorted, temp) /\ glob = Len(sorted.par) - spec
      /\ nb \in Nat /\ Len(sorted.blocks) = nb
  BY DEF Made
<1>2. PICK ones : global = GlobalFile(sorted, temp, list, ones, d)
  BY DEF Made
<1>3. PICK block : block = global.blocks[BlockNo(nb, a, b)]
  OBVIOUS
<1>4. PICK m \in Nat : m = Len(list) /\ DOMAIN list = 1..m
  BY <1>1
<1> DEFINE Block(a_, b_) ==
      [data |-> NameOf(sorted.blocks[b_].data, temp, list, d)[a_],
       item |-> [x \in Items |-> ShiftedBy(a_, spec, glob, sorted.blocks[b_].item[x])],
       map |-> [l \in DOMAIN sorted.blocks[b_].map |->
                  ShiftedBy(a_, spec, glob, sorted.blocks[b_].map[l])]]
<1>5. PICK seqs : seqs = [a_ \in 1..m |-> [b_ \in 1..nb |-> Block(a_, b_)]]
  OBVIOUS
<1>6. global.blocks = FlattenSeq(seqs)
  BY <1>1, <1>4, <1>5, <1>2 DEF GlobalFile
<1>7. Block(a, b).data = list[a]
  BY <1>1, NameIs
<1>8. /\ Block(a, b).item = [x \in Items |-> ShiftedBy(a, spec, glob, sorted.blocks[b].item[x])]
      /\ Block(a, b).map = [l \in DOMAIN sorted.blocks[b].map |->
                              ShiftedBy(a, spec, glob, sorted.blocks[b].map[l])]
  OBVIOUS
<1> HIDE DEF Block
<1>9. PICK X : X = {Block(c[1], c[2]) : c \in (1..m) \X (1..nb)}
  OBVIOUS
<1>10. ASSUME NEW a_ \in 1..m, NEW b_ \in 1..nb PROVE Block(a_, b_) \in X
  <2>1. PICK c : c = <<a_, b_>>
    OBVIOUS
  <2>2. c \in (1..m) \X (1..nb) /\ c[1] = a_ /\ c[2] = b_
    BY <2>1
  <2>3. Block(c[1], c[2]) \in X
    BY <1>9, <2>2, Zenon
  <2> QED BY <2>2, <2>3
<1>11. PICK S : S = Seq(X)
  OBVIOUS
<1>12. ASSUME NEW e \in 1..m
      PROVE  seqs[e] \in S /\ Len(seqs[e]) = nb /\ \A b_ \in 1..nb : seqs[e][b_] = Block(e, b_)
  <2>1. PICK s : s = [b_ \in 1..nb |-> Block(e, b_)]
    OBVIOUS
  <2>2. s \in [1..nb -> X]
    BY <1>10, <2>1
  <2>3. nb \in Nat
    BY <1>1
  <2>4. s \in Seq(X) /\ Len(s) = nb
    BY <2>2, <2>3, FunctionIsSeq
  <2> QED BY <1>5, <1>11, <2>1, <2>4
<1>13. seqs \in Seq(S) /\ Len(seqs) = m
  <2>1. seqs \in [1..m -> S]
    BY <1>5, <1>12
  <2>2. m \in Nat
    OBVIOUS
  <2> QED BY <2>1, <2>2, FunctionIsSeq
<1>14. FlattenSeq(seqs)[(a - 1) * nb + b] = seqs[a][b]
  <2>1. seqs \in Seq(Seq(X)) /\ \A e \in 1..Len(seqs) : Len(seqs[e]) = nb
    BY <1>11, <1>12, <1>13
  <2>2. a \in 1..Len(seqs)
    BY <1>4, <1>13
  <2> QED BY <1>1, <2>1, <2>2, FlattenEven
<1>15. block = Block(a, b)
  BY <1>1, <1>4, <1>6, <1>12, <1>14, <1>3 DEF BlockNo
<1> QED BY <1>7, <1>8, <1>15, <1>3 DEF Moved

-----------------------------------------------------------------------------
(* What a number means in the file for all runs. *)

(* A matter of names: None is no parameter.                                *)
NoneIsNoParameter == \A name, run, val : None # [name |-> name, run |-> run, val |-> val]

ParAt(pars, v) == IF v \in DOMAIN pars THEN pars[v] ELSE None

(* The parameters of the file for all runs, from those of the template.    *)
MergedPar(doc, global, temp, list, spec, glob, k, r) ==
  IF IsSpecific(doc, k, temp)
  THEN \A a \in 1..Len(list) : \E val :
         global.par[Place(glob, spec, a, r - glob)] = [name |-> doc.par[k].name, run |-> list[a], val |-> val]
  ELSE global.par[r] = doc.par[k]
Merged(doc, global, temp, list, n, spec, glob) ==
  /\ doc.par \in Seq(Parameters(doc)) /\ Len(doc.par) = n
  /\ spec = NoOfSpecific(doc, temp) /\ glob = n - spec
  /\ DOMAIN global.par = 1..glob + Len(list) * spec
  /\ \A k \in 1..n : MergedPar(doc, global, temp, list, spec, glob, k, Rank(doc, temp, k))

LEMMA BehindGlobal ==
  ASSUME NEW m \in Nat, NEW g \in Nat, NEW s, s = m - g, NEW r \in Nat, r <= m, r > g
  PROVE  r - g \in 1..s /\ g + (r - g) = r
OBVIOUS

LEMMA FileIsMerged ==
  ASSUME NEW doc, NEW n, doc.par \in Seq(Parameters(doc)), n = Len(doc.par),
         NEW temp \in Nat, NEW list \in Seq(Nat), NEW d, ~TooLong(temp, d),
         \A j \in 1..Len(list) - 1 : ~TooLong(list[j], d),
         NEW spec, spec = NoOfSpecific(doc, temp), NEW glob, glob = n - spec,
         NEW ones, NEW global, global = GlobalFile(Sorted(doc, temp), temp, list, ones, d)
  PROVE  Merged(doc, global, temp, list, n, spec, glob)
<1>1. PICK sorted, P, m : sorted = Sorted(doc, temp) /\ P = Parameters(doc) /\ m = Len(list)
  OBVIOUS
<1>2. doc.par \in Seq(P) /\ n \in Nat /\ m \in Nat /\ DOMAIN doc.par = 1..n
  BY <1>1
<1>3. {"par", "blocks"} \subseteq DOMAIN sorted
  BY <1>1 DEF Sorted
<1>4. SortedIs(doc, temp, sorted, n, glob)
  BY <1>1, <1>2, SortedPars
<1>5. spec \in 0..n /\ \A k \in 1..n : Rank(doc, temp, k) > glob <=> IsSpecific(doc, k, temp)
  BY <1>2, SpecificBehind
<1>6. glob \in Nat /\ spec = n - glob
  BY <1>2, <1>5
<1>7. Repeated(sorted, global, list, m, spec, glob)
  <2>1. global = GlobalFile(sorted, temp, list, ones, d) /\ spec = NoOfSpecific(sorted, temp)
        /\ Len(sorted.par) = n
    BY <1>1, <1>4, <1>6 DEF SortedIs
  <2> QED BY <1>1, <1>2, <1>3, <1>5, <2>1, GlobalPars
<1>8. ASSUME NEW k \in 1..n PROVE MergedPar(doc, global, temp, list, spec, glob, k, Rank(doc, temp, k))
  <2>1. PICK r \in 1..n : /\ r = Rank(doc, temp, k) /\ sorted.par[r] = doc.par[k]
                          /\ r > glob <=> IsSpecific(doc, k, temp)
    BY <1>4, <1>5 DEF SortedIs
  <2>2. CASE ~IsSpecific(doc, k, temp)
    <3>1. r \in 1..glob
      BY <1>2, <1>6, <2>1, <2>2
    <3>2. global.par[r] = doc.par[k]
      BY <1>7, <2>1, <3>1 DEF Repeated
    <3> QED BY <2>1, <2>2, <3>2 DEF MergedPar
  <2>3. CASE IsSpecific(doc, k, temp)
    <3>1. PICK j \in 1..spec : j = r - glob /\ glob + j = r
      <4>1. n \in Nat
        BY <1>2
      <4>2. r \in Nat /\ r <= n
        BY <4>1
      <4>3. r > glob /\ glob \in Nat /\ spec = n - glob
        BY <1>6, <2>1, <2>3
      <4>4. r - glob \in 1..spec /\ glob + (r - glob) = r
        BY <4>1, <4>2, <4>3, BehindGlobal
      <4> QED BY <4>4
    <3>2. ASSUME NEW a \in 1..m
          PROVE  \E val : global.par[Place(glob, spec, a, r - glob)] =
                            [name |-> doc.par[k].name, run |-> list[a], val |-> val]
      <4>1. PICK val : global.par[Place(glob, spec, a, j)] =
                         [name |-> sorted.par[glob + j].name, run |-> list[a], val |-> val]
        BY <1>7 DEF Repeated
      <4> QED BY <2>1, <3>1, <4>1
    <3> QED BY <1>1, <2>1, <2>3, <3>2 DEF MergedPar
  <2> QED BY <2>2, <2>3
<1>9. DOMAIN global.par = 1..glob + m * spec
  BY <1>7 DEF Repeated
<1> QED BY <1>1, <1>2, <1>8, <1>9 DEF Merged

(* A number that is a parameter of the template is the same one of the run, *)
(* moved or not; another one is none.                                      *)
LEMMA MovedMeans ==
  ASSUME NoneIsNoParameter, NEW doc, NEW global, NEW temp, NEW list \in Seq(Nat), NEW n, NEW spec, NEW glob,
         Merged(doc, global, temp, list, n, spec, glob),
         global.par \in Seq(ToSet(global.par)), Len(global.par) < FunOffset,
         NEW a \in 1..Len(list), NEW v \in Int \ (n + 1..FunOffset - 1),
         NEW w, w = ShiftedBy(a, spec, glob, NewNo(doc, temp, v))
  PROVE  /\ SameFor(ParAt(doc.par, v), ParAt(global.par, w), temp, list[a])
         /\ v \in 1..n /\ ~IsSpecific(doc, v, temp) => w = NewNo(doc, temp, v)
<1>1. PICK m \in Nat : m = Len(list) /\ a \in 1..m
  OBVIOUS
<1>2. /\ doc.par \in Seq(Parameters(doc)) /\ Len(doc.par) = n /\ spec = NoOfSpecific(doc, temp)
      /\ glob = n - spec /\ DOMAIN global.par = 1..glob + m * spec
  BY <1>1 DEF Merged
<1>3. n \in Nat /\ DOMAIN doc.par = 1..n
  BY <1>2
<1>4. spec \in Nat /\ glob \in Nat /\ spec \in 0..n /\ glob + spec = n
      /\ \A k \in 1..n : Rank(doc, temp, k) > glob <=> IsSpecific(doc, k, temp)
  BY <1>2, <1>3, SpecificBehind
<1>5. PICK mw \in Nat : mw = m * spec
  BY <1>1, <1>4
<1>6. DOMAIN global.par = 1..glob + mw /\ glob + mw < FunOffset
  <2>1. DOMAIN global.par = 1..glob + mw
    BY <1>2, <1>5
  <2>2. Len(global.par) = glob + mw
    <3>1. PICK l \in Nat : l = Len(global.par) /\ DOMAIN global.par = 1..l
      OBVIOUS
    <3>2. glob + mw \in Nat /\ 1..l = 1..glob + mw
      BY <1>4, <2>1, <3>1
    <3> QED BY <3>1, <3>2
  <2> QED BY <2>1, <2>2
<1>7. CASE v \notin 1..n
  <2>1. NewNo(doc, temp, v) = v
    BY <1>3, <1>7 DEF NewNo
  <2>2. v <= 0 \/ v >= FunOffset
    BY <1>3, <1>7 DEF FunOffset
  <2>3. v \notin 1..glob + mw /\ v \notin glob + 1..glob + spec
    BY <1>3, <1>4, <1>6, <1>7, <2>2 DEF FunOffset
  <2>4. w = v
    BY <2>1, <2>3 DEF ShiftedBy
  <2>5. ParAt(doc.par, v) = None /\ ParAt(global.par, w) = None
    BY <1>3, <1>6, <1>7, <2>3, <2>4 DEF ParAt
  <2> QED BY <1>7, <2>5 DEF SameFor
<1>8. ASSUME v \in 1..n
      PROVE  /\ doc.par[v] # None /\ Rank(doc, temp, v) \in 1..n
             /\ NewNo(doc, temp, v) = Rank(doc, temp, v) /\ ParAt(doc.par, v) = doc.par[v]
  <2>1. PICK x : x = doc.par[v]
    OBVIOUS
  <2>2. x \in Parameters(doc)
    BY <1>2, <1>3, <1>8, <2>1
  <2>3. x = [name |-> x.name, run |-> x.run, val |-> x.val]
    <3>1. PICK A, B : x \in [name : A, run : Int, val : B]
      BY <2>2 DEF Parameters
    <3> QED BY <3>1
  <2>4. x # None
    BY <2>3, Zenon DEF NoneIsNoParameter
  <2>5. Rank(doc, temp, v) \in 1..n
    BY <1>3, <1>8, BeforeCounted
  <2> QED BY <1>3, <1>8, <2>1, <2>4, <2>5 DEF NewNo, ParAt
<1>9. CASE v \in 1..n /\ ~IsSpecific(doc, v, temp)
  <2>1. PICK r \in 1..n : r = Rank(doc, temp, v) /\ r <= glob
    BY <1>3, <1>4, <1>8, <1>9
  <2>2. r \notin glob + 1..glob + spec
    BY <1>4, <2>1
  <2>3. w = r
    BY <1>8, <1>9, <2>1, <2>2 DEF ShiftedBy
  <2>4. global.par[r] = doc.par[v]
    BY <1>2, <1>9, <2>1 DEF Merged, MergedPar
  <2>5. r \in DOMAIN global.par
    BY <1>4, <1>6, <2>1
  <2>6. ParAt(global.par, w) = doc.par[v]
    BY <2>3, <2>4, <2>5 DEF ParAt
  <2>7. doc.par[v].run # temp
    BY <1>9 DEF IsSpecific
  <2> QED BY <1>8, <1>9, <2>1, <2>3, <2>6, <2>7 DEF SameFor
<1>10. CASE v \in 1..n /\ IsSpecific(doc, v, temp)
  <2>1. PICK r \in 1..n : r = Rank(doc, temp, v) /\ r > glob
    BY <1>3, <1>4, <1>8, <1>10
  <2>2. PICK j \in 1..spec : j = r - glob /\ r = glob + j
    <3>1. r - glob \in 1..spec /\ r = glob + (r - glob)
      BY <1>4, <2>1
    <3> QED BY <3>1
  <2>3. w = Place(glob, spec, a, j)
    <3>1. r \in glob + 1..glob + spec
      BY <1>4, <2>1
    <3>2. w = r + (a - 1) * spec
      BY <1>8, <1>10, <2>1, <3>1 DEF ShiftedBy
    <3>3. PICK x \in Int : x = (a - 1) * spec
      BY <1>1, <1>4
    <3> QED BY <1>4, <2>2, <3>2, <3>3 DEF Place
  <2>4. w \in DOMAIN global.par
    <3>1. IsPlace(w, glob, spec, m, a, j)
      BY <1>1, <1>4, <2>3, BehindOthers
    <3> QED BY <1>5, <1>6, <3>1 DEF IsPlace
  <2>5. PICK val : global.par[w] = [name |-> doc.par[v].name, run |-> list[a], val |-> val]
    BY <1>1, <1>2, <1>10, <2>1, <2>2, <2>3 DEF Merged, MergedPar
  <2>6. /\ ParAt(global.par, w) # None
        /\ ParAt(global.par, w).name = doc.par[v].name /\ ParAt(global.par, w).run = list[a]
    BY <2>4, <2>5 DEF ParAt, NoneIsNoParameter
  <2>7. doc.par[v].run = temp
    BY <1>10 DEF IsSpecific
  <2> QED BY <1>8, <1>10, <2>6, <2>7 DEF SameFor
<1> QED BY <1>7, <1>9, <1>10

-----------------------------------------------------------------------------
(* What the file for all runs means. *)

RefOf(doc, t) == TokenOf(doc, t) /\ (t.kind = "map" => t.no \in UsedMaps(doc.blocks))

LEMMA CompleteIs ==
  ASSUME NEW doc, Complete(doc), NEW n, n = Len(doc.par)
  PROVE  /\ n \in Nat /\ DOMAIN doc.par = 1..n /\ doc.par \in Seq(Parameters(doc))
         /\ Even(doc.blocks, n) /\ doc.rrf \in 0..n
         /\ doc.theory \in Seq(Token) /\ doc.functions \in Seq(Token) /\ Tokens(doc) \in Seq(Token)
         /\ \A k \in DOMAIN Tokens(doc) : RefOf(doc, Tokens(doc)[k])
<1>1. doc.par \in Seq(Parameters(doc)) /\ doc.rrf \in 0..n
  BY DEF Complete
<1>2. n \in Nat /\ DOMAIN doc.par = 1..n
  BY <1>1
<1>3. PICK R, T : R = RunBlocks(n) /\ T = References(n, doc.blocks)
  OBVIOUS
<1>4. /\ doc.blocks \in Seq(R) /\ doc.blocks # <<>>
      /\ \A b \in DOMAIN doc.blocks : DOMAIN doc.blocks[b].map = DOMAIN doc.blocks[1].map
  BY <1>3 DEF Complete, RunBlocks
<1>5. 1 \in DOMAIN doc.blocks
  BY <1>4
<1>6. ASSUME NEW b \in DOMAIN doc.blocks PROVE Len(doc.blocks[b].map) = Len(doc.blocks[1].map)
  <2>1. PICK x, y : x = doc.blocks[b].map /\ y = doc.blocks[1].map
    OBVIOUS
  <2>2. doc.blocks[b] \in R /\ doc.blocks[1] \in R
    BY <1>4, <1>5
  <2>3. PICK M, I : M = Seq(0..n) /\ R = [data : Nat, item : I, map : M]
    BY <1>3 DEF RunBlocks
  <2>4. x \in M /\ y \in M
    BY <2>1, <2>2, <2>3
  <2>5. x \in Seq(0..n) /\ y \in Seq(0..n) /\ DOMAIN x = DOMAIN y
    BY <1>4, <2>1, <2>3, <2>4
  <2>6. Len(x) = Len(y)
    BY <2>5
  <2> QED BY <2>1, <2>6
<1>7. Even(doc.blocks, n)
  BY <1>3, <1>4, <1>5, <1>6 DEF Even
<1>8. ASSUME NEW t \in T PROVE RefOf(doc, t) /\ t \in Token
  <2>1. CASE \E k \in 1..n : t = Par(k)
    BY <1>2, <2>1 DEF Par, RefOf, TokenOf, Token
  <2>2. CASE \E l \in UsedMaps(doc.blocks) : t = MapNo(l)
    <3>1. PICK l \in UsedMaps(doc.blocks) : t = MapNo(l)
      BY <2>2
    <3>2. l \in Nat
      <4>1. l \in DOMAIN doc.blocks[1].map
        BY DEF UsedMaps
      <4>2. \E m \in Nat : DOMAIN doc.blocks[1].map = 1..m
        BY <1>2, <1>5, <1>7, EvenIs
      <4> QED BY <4>1, <4>2
    <3> QED BY <3>1, <3>2 DEF MapNo, RefOf, TokenOf, Token
  <2>3. CASE t \in [kind : {"fun"}, no : Nat]
    BY <2>3 DEF RefOf, TokenOf, Token
  <2> QED BY <1>3, <2>1, <2>2, <2>3 DEF References
<1>9. PICK x, y : x = doc.theory /\ y = doc.functions
  OBVIOUS
<1>10. x \in Seq(T) /\ y \in Seq(T)
  BY <1>3, <1>9 DEF Complete
<1>11. x \in Seq(Token) /\ y \in Seq(Token)
  BY <1>8, <1>10
<1>12. x \o y \in Seq(T) /\ x \o y \in Seq(Token)
  BY <1>10, <1>11
<1>13. \A k \in DOMAIN (x \o y) : (x \o y)[k] \in T
  BY <1>12
<1>14. Tokens(doc) = x \o y
  BY <1>9 DEF Tokens
<1> QED BY <1>1, <1>2, <1>7, <1>8, <1>9, <1>11, <1>12, <1>13, <1>14

(* One of the RUN blocks.                                                  *)
OneOf(blocks, b, n) ==
  /\ blocks[b] \in RunBlocks(n)
  /\ \E k \in Nat : DOMAIN blocks[b].map = 1..k /\ DOMAIN blocks[1].map = 1..k
  /\ \A l \in DOMAIN blocks[b].map : blocks[b].map[l] \in 0..n

LEMMA OneOfEven ==
  ASSUME NEW n \in Nat, NEW blocks, Even(blocks, n), NEW b \in DOMAIN blocks
  PROVE  OneOf(blocks, b, n)
<1>1. PICK k \in Nat : \A c \in DOMAIN blocks :
        /\ blocks[c] \in RunBlocks(n) /\ DOMAIN blocks[c].map = 1..k
        /\ \A l \in 1..k : blocks[c].map[l] \in 0..n
  BY EvenIs
<1>2. 1 \in DOMAIN blocks
  BY DEF Even
<1> QED BY <1>1, <1>2 DEF OneOf

LEMMA ReferredIs ==
  ASSUME NEW doc, NEW block, NEW t
  PROVE  /\ \A v : Referred(doc, block, Par(v)) = ParAt(doc.par, v)
         /\ t.kind = "par" => Referred(doc, block, t) = ParAt(doc.par, t.no)
         /\ t.kind = "map" => Referred(doc, block, t) = ParAt(doc.par, block.map[t.no])
         /\ \A l : Referred(doc, block, MapNo(l)) = ParAt(doc.par, block.map[l])
         /\ t.kind = "fun" => Referred(doc, block, t) = None
BY DEF Referred, ParAt, Par, MapNo

(* RUN block b of the template, for run a.                                 *)
BlockOf(doc, blocks, block, temp, run, a, b, spec, glob) ==
  /\ block.data = run
  /\ \A x \in Items : block.item[x] = ShiftedBy(a, spec, glob, NewNo(doc, temp, doc.blocks[b].item[x]))
  /\ \A l \in DOMAIN blocks[1].map :
       block.map[l] = ShiftedBy(a, spec, glob, NewNo(doc, temp, blocks[b].map[l]))

LEMMA BlockIs ==
  ASSUME NEW doc, Complete(doc), NEW n, n = Len(doc.par), NEW temp \in Nat, Matches(doc, temp),
         NEW list \in Seq(Nat), NEW d, ~TooLong(temp, d),
         \A j \in 1..Len(list) - 1 : ~TooLong(list[j], d),
         NEW spec, spec = NoOfSpecific(doc, temp), NEW glob, glob = n - spec,
         NEW ones, NEW global, global = GlobalFile(Sorted(doc, temp), temp, list, ones, d),
         NEW all, all = SubstitutedAll(doc, temp),
         NEW a \in 1..Len(list), NEW b \in DOMAIN doc.blocks,
         NEW block, block = global.blocks[(a - 1) * Len(doc.blocks) + b]
  PROVE  BlockOf(doc, all.blocks, block, temp, list[a], a, b, spec, glob)
<1>1. /\ n \in Nat /\ DOMAIN doc.par = 1..n /\ doc.par \in Seq(Parameters(doc))
      /\ Even(doc.blocks, n)
      /\ doc.theory \in Seq(Token) /\ doc.functions \in Seq(Token) /\ Tokens(doc) \in Seq(Token)
      /\ \A k \in DOMAIN Tokens(doc) : TokenOf(doc, Tokens(doc)[k])
  BY CompleteIs DEF RefOf
<1>2. Even(all.blocks, n) /\ Keeps(doc.blocks, all.blocks)
  BY <1>1, AllBecome
<1>3. PICK sorted : sorted = Sorted(doc, temp)
  OBVIOUS
<1>4. /\ {"par", "blocks"} \subseteq DOMAIN sorted
      /\ sorted.blocks = [b_ \in DOMAIN doc.blocks |-> Renumbered(doc, temp, all.blocks[b_])]
  <2>1. RestIs(doc, temp, all, sorted)
    BY <1>1, <1>3, SortedRest
  <2> QED BY <2>1 DEF RestIs
<1>5. SortedIs(doc, temp, sorted, n, glob)
  BY <1>1, <1>3, SortedPars
<1>6. NoOfSpecific(doc, temp) \in 0..n
  BY <1>1, SpecificBehind
<1>7. spec = NoOfSpecific(sorted, temp) /\ glob = Len(sorted.par) - spec
  <2>1. PICK s \in Nat : s = spec
    BY <1>6
  <2>2. n - (n - s) = s
    BY <1>1
  <2> QED BY <1>5, <2>1, <2>2 DEF SortedIs
<1>8. PICK nb \in Nat : nb = Len(doc.blocks) /\ DOMAIN doc.blocks = 1..nb
  BY <1>1, EvenIs
<1>9. Len(sorted.blocks) = nb
  <2>1. PICK f : f = sorted.blocks
    OBVIOUS
  <2>2. f = [b_ \in 1..nb |-> f[b_]]
    BY <1>4, <1>8, <2>1
  <2>3. f \in [1..nb -> ToSet(f)]
    BY <2>2 DEF ToSet
  <2>4. f \in Seq(ToSet(f)) /\ Len(f) = nb
    BY <2>3
  <2> QED BY <2>1, <2>4
<1>10. PICK old, new : old = all.blocks[b] /\ new = sorted.blocks[b]
  OBVIOUS
<1>11. new = Renumbered(doc, temp, old)
  BY <1>4, <1>10
<1>12. DOMAIN all.blocks = DOMAIN doc.blocks /\ old.data = doc.blocks[b].data /\ old.item = doc.blocks[b].item
  BY <1>2, <1>10 DEF Keeps
<1>13. OneOf(all.blocks, b, n)
  BY <1>1, <1>2, <1>12, OneOfEven
<1>14. {"item", "map", "data"} \subseteq DOMAIN old
  BY <1>10, <1>13 DEF OneOf, RunBlocks
<1>15. /\ new.data = temp
       /\ \A x \in Items : new.item[x] = NewNo(doc, temp, doc.blocks[b].item[x])
       /\ DOMAIN new.map = DOMAIN all.blocks[1].map
       /\ \A l \in DOMAIN all.blocks[1].map : new.map[l] = NewNo(doc, temp, old.map[l])
  <2>1. new.data = old.data
    BY <1>11, <1>14 DEF Renumbered
  <2>2. new.item = [x \in Items |-> NewNo(doc, temp, old.item[x])]
    BY <1>11, <1>14 DEF Renumbered
  <2>3. new.map = [l \in DOMAIN old.map |-> NewNo(doc, temp, old.map[l])]
    BY <1>11, <1>14 DEF Renumbered
  <2>4. doc.blocks[b].data = temp
    BY DEF Matches
  <2>5. DOMAIN old.map = DOMAIN all.blocks[1].map
    BY <1>10, <1>13 DEF OneOf
  <2> QED BY <1>12, <2>1, <2>2, <2>3, <2>4, <2>5
<1>16. Moved(block, new, list[a], a, spec, glob)
  <2>1. global = GlobalFile(sorted, temp, list, ones, d)
    BY <1>3
  <2>2. b \in 1..nb /\ sorted.blocks[b].data = temp /\ block = global.blocks[BlockNo(nb, a, b)]
    BY <1>8, <1>10, <1>15 DEF BlockNo
  <2>3. Made(sorted, temp, list, d, spec, glob, nb, global)
    BY <1>4, <1>7, <1>9, <2>1 DEF Made
  <2>4. Moved(block, sorted.blocks[b], list[a], a, spec, glob)
    BY <2>2, <2>3, GlobalBlocks
  <2> QED BY <1>10, <2>4
<1> QED BY <1>10, <1>15, <1>16 DEF BlockOf, Moved

(* A token of the template.                                                *)
LEMMA TokenMeans ==
  ASSUME NoneIsNoParameter, NEW doc, NEW n, Even(doc.blocks, n), n \in Nat, DOMAIN doc.par = 1..n,
         FreeInAll(doc.blocks), NEW global, NEW temp, NEW list \in Seq(Nat), NEW spec, NEW glob,
         Merged(doc, global, temp, list, n, spec, glob),
         global.par \in Seq(ToSet(global.par)), Len(global.par) < FunOffset,
         NEW blocks, Keeps(doc.blocks, blocks),
         NEW a \in 1..Len(list), NEW b \in DOMAIN doc.blocks,
         NEW block, BlockOf(doc, blocks, block, temp, list[a], a, b, spec, glob),
         NEW t, RefOf(doc, t), NEW u, Became(doc, temp, blocks, t, u)
  PROVE  SameFor(Referred(doc, doc.blocks[b], t), Referred(global, block, u), temp, list[a])
<1>1. \A v \in 0..n : v \in Int \ (n + 1..FunOffset - 1)
  OBVIOUS
<1>2. DOMAIN blocks = DOMAIN doc.blocks
  BY DEF Keeps
<1>3. CASE t.kind = "par" /\ IsSpecific(doc, t.no, temp)
  <2>1. PICK l \in DOMAIN blocks[1].map : u = MapNo(l) /\ \A b_ \in DOMAIN blocks : blocks[b_].map[l] = t.no
    BY <1>3 DEF Became
  <2>2. block.map[l] = ShiftedBy(a, spec, glob, NewNo(doc, temp, t.no))
    BY <1>2, <2>1 DEF BlockOf
  <2>3. t.no \in 0..n
    BY <1>3 DEF RefOf, TokenOf
  <2>4. SameFor(ParAt(doc.par, t.no), ParAt(global.par, block.map[l]), temp, list[a])
    BY <1>1, <2>2, <2>3, MovedMeans
  <2> QED BY <1>3, <2>1, <2>4, ReferredIs
<1>4. CASE t.kind = "par" /\ ~IsSpecific(doc, t.no, temp)
  <2>1. u = Par(NewNo(doc, temp, t.no))
    BY <1>4 DEF Became
  <2>2. t.no \in 1..n /\ t.no \in 0..n
    BY <1>4 DEF RefOf, TokenOf
  <2>3. PICK w : w = ShiftedBy(a, spec, glob, NewNo(doc, temp, t.no))
    OBVIOUS
  <2>4. SameFor(ParAt(doc.par, t.no), ParAt(global.par, w), temp, list[a]) /\ w = NewNo(doc, temp, t.no)
    BY <1>1, <1>4, <2>2, <2>3, MovedMeans
  <2> QED BY <1>4, <2>1, <2>4, ReferredIs
<1>5. CASE t.kind = "map"
  <2>1. u = t
    BY <1>5 DEF Became
  <2>2. PICK l : l = t.no
    OBVIOUS
  <2>3. l \in DOMAIN doc.blocks[1].map /\ doc.blocks[1].map[l] # 0
    BY <1>5, <2>2 DEF RefOf, UsedMaps, FreeInAll
  <2>4. l \in DOMAIN blocks[1].map /\ blocks[b].map[l] = doc.blocks[b].map[l]
    BY <2>3 DEF Keeps
  <2>5. PICK v : v = doc.blocks[b].map[l]
    OBVIOUS
  <2>6. v \in 0..n
    <3>1. OneOf(doc.blocks, b, n)
      BY OneOfEven
    <3> QED BY <2>3, <2>5, <3>1 DEF OneOf
  <2>7. block.map[l] = ShiftedBy(a, spec, glob, NewNo(doc, temp, v))
    BY <2>4, <2>5 DEF BlockOf
  <2>8. SameFor(ParAt(doc.par, v), ParAt(global.par, block.map[l]), temp, list[a])
    BY <1>1, <2>6, <2>7, MovedMeans
  <2> QED BY <1>5, <2>1, <2>2, <2>5, <2>8, ReferredIs
<1>6. CASE t.kind = "fun"
  <2>1. u = t
    BY <1>6 DEF Became
  <2>2. Referred(doc, doc.blocks[b], t) = None /\ Referred(global, block, u) = None
    BY <1>6, <2>1, ReferredIs
  <2> QED BY <2>2 DEF SameFor
<1>7. t.kind \in {"par", "map", "fun"}
  BY DEF RefOf, TokenOf, Token
<1> QED BY <1>3, <1>4, <1>5, <1>6, <1>7

-----------------------------------------------------------------------------
(* The file for all runs means what the template means. *)

(* What is left of the sorted template in it.                              *)
LEMMA GlobalRest ==
  ASSUME NEW sorted, {"par", "theory", "functions", "blocks", "rrf"} \subseteq DOMAIN sorted,
         NEW temp, NEW list, NEW ones, NEW d,
         NEW global, global = GlobalFile(sorted, temp, list, ones, d)
  PROVE  Tokens(global) = Tokens(sorted) /\ global.rrf = sorted.rrf
BY DEF GlobalFile, Tokens

LEMMA FirstStays ==
  ASSUME NEW spec \in Nat, NEW glob, NEW v \in Int
  PROVE  ShiftedBy(1, spec, glob, v) = v
BY DEF ShiftedBy

LEMMA GlobalFileMeans ==
  ASSUME NoneIsNoParameter, NEW doc, Complete(doc), FreeInAll(doc.blocks),
         NEW temp \in Nat, Matches(doc, temp), NEW list \in Seq(Nat), 1 \in DOMAIN list,
         NEW d, ~TooLong(temp, d), \A j \in 1..Len(list) - 1 : ~TooLong(list[j], d),
         NEW ones, NEW global, global = GlobalFile(Sorted(doc, temp), temp, list, ones, d),
         global.par \in Seq(ToSet(global.par)), Len(global.par) < FunOffset
  PROVE  MeansTheSame(doc, global, temp, list)
<1>1. PICK n, all, sorted : n = Len(doc.par) /\ all = SubstitutedAll(doc, temp) /\ sorted = Sorted(doc, temp)
  OBVIOUS
<1>2. PICK spec, glob : spec = NoOfSpecific(doc, temp) /\ glob = n - spec
  OBVIOUS
<1>3. /\ n \in Nat /\ DOMAIN doc.par = 1..n /\ doc.par \in Seq(Parameters(doc))
      /\ Even(doc.blocks, n) /\ doc.rrf \in 0..n
      /\ doc.theory \in Seq(Token) /\ doc.functions \in Seq(Token) /\ Tokens(doc) \in Seq(Token)
      /\ \A k \in DOMAIN Tokens(doc) : RefOf(doc, Tokens(doc)[k])
  BY <1>1, CompleteIs
<1>4. \A k \in DOMAIN Tokens(doc) : TokenOf(doc, Tokens(doc)[k])
  BY <1>3 DEF RefOf
<1>5. Merged(doc, global, temp, list, n, spec, glob)
  BY <1>1, <1>2, <1>3, FileIsMerged
<1>6. RestIs(doc, temp, all, sorted)
  BY <1>1, <1>3, <1>4, SortedRest
<1>7. Tokens(global) = all.out /\ global.rrf = NewNo(doc, temp, doc.rrf)
  BY <1>1, <1>6, GlobalRest DEF RestIs
<1>8. /\ Keeps(doc.blocks, all.blocks) /\ Len(all.out) = Len(Tokens(doc))
      /\ \A k \in 1..Len(Tokens(doc)) : Became(doc, temp, all.blocks, Tokens(doc)[k], all.out[k])
  BY <1>1, <1>3, <1>4, AllBecome
<1>9. spec \in Nat
  BY <1>2, <1>3, SpecificBehind
<1>10. SameFor(Referred(doc, None, Par(doc.rrf)), Referred(global, None, Par(global.rrf)), temp, list[1])
  <2>1. PICK v, w : v = doc.rrf /\ w = global.rrf
    OBVIOUS
  <2>2. v \in 0..n /\ v \in Int \ (n + 1..FunOffset - 1) /\ w = NewNo(doc, temp, v)
    BY <1>3, <1>7, <2>1
  <2>3. w \in Int
    <3>1. CASE v \in 1..n
      <4>1. Rank(doc, temp, v) \in 1..n
        BY <1>3, <3>1, BeforeCounted
      <4> QED BY <1>3, <2>2, <3>1, <4>1 DEF NewNo
    <3>2. CASE v \notin 1..n
      BY <1>3, <2>2, <3>2 DEF NewNo
    <3> QED BY <3>1, <3>2
  <2>4. w = ShiftedBy(1, spec, glob, NewNo(doc, temp, v))
    BY <1>9, <2>2, <2>3, FirstStays
  <2>5. 1 \in 1..Len(list)
    OBVIOUS
  <2>6. SameFor(ParAt(doc.par, v), ParAt(global.par, w), temp, list[1])
    BY <1>5, <2>2, <2>4, <2>5, MovedMeans
  <2> QED BY <2>1, <2>6, ReferredIs
<1>11. ASSUME NEW a \in DOMAIN list, NEW b \in DOMAIN doc.blocks,
              NEW block, block = global.blocks[(a - 1) * Len(doc.blocks) + b]
       PROVE  /\ block.data = list[a]
              /\ \A x \in Items :
                  SameFor(ItemOf(doc, doc.blocks[b], x), ItemOf(global, block, x), temp, list[a])
              /\ \A k \in DOMAIN Tokens(doc) :
                   SameFor(Referred(doc, doc.blocks[b], Tokens(doc)[k]),
                           Referred(global, block, Tokens(global)[k]), temp, list[a])
  <2>1. a \in 1..Len(list)
    OBVIOUS
  <2>2. BlockOf(doc, all.blocks, block, temp, list[a], a, b, spec, glob)
    BY <1>1, <1>2, <1>11, <2>1, BlockIs
  <2>3. ASSUME NEW x \in Items
        PROVE  SameFor(ItemOf(doc, doc.blocks[b], x), ItemOf(global, block, x), temp, list[a])
    <3>1. PICK v, w : v = doc.blocks[b].item[x] /\ w = block.item[x]
      OBVIOUS
    <3>2. v \in Int \ (n + 1..FunOffset - 1)
      <4>1. PICK I, M : I = [Items -> Int \ (n + 1..FunOffset - 1)] /\ M = Seq(0..n)
        OBVIOUS
      <4>2. doc.blocks[b] \in [data : Nat, item : I, map : M]
        BY <1>3, <4>1, OneOfEven DEF OneOf, RunBlocks
      <4>3. doc.blocks[b].item \in I
        BY <4>2
      <4> QED BY <3>1, <4>1, <4>3
    <3>3. w = ShiftedBy(a, spec, glob, NewNo(doc, temp, v))
      BY <2>2, <3>1 DEF BlockOf
    <3>4. SameFor(ParAt(doc.par, v), ParAt(global.par, w), temp, list[a])
      BY <1>5, <2>1, <3>2, <3>3, MovedMeans
    <3> QED BY <3>1, <3>4, ReferredIs DEF ItemOf
  <2>4. ASSUME NEW k \in DOMAIN Tokens(doc)
        PROVE  SameFor(Referred(doc, doc.blocks[b], Tokens(doc)[k]),
                       Referred(global, block, Tokens(global)[k]), temp, list[a])
    <3>1. PICK t, u : t = Tokens(doc)[k] /\ u = all.out[k]
      OBVIOUS
    <3>2. k \in 1..Len(Tokens(doc))
      <4>1. PICK s : s = Tokens(doc)
        OBVIOUS
      <4>2. s \in Seq(Token)
        BY <1>3, <4>1
      <4>3. DOMAIN s = 1..Len(s)
        BY <4>2
      <4> QED BY <4>1, <4>3
    <3>3. RefOf(doc, t) /\ Became(doc, temp, all.blocks, t, u)
      BY <1>3, <1>8, <3>1, <3>2
    <3>4. SameFor(Referred(doc, doc.blocks[b], t), Referred(global, block, u), temp, list[a])
      BY <1>3, <1>5, <1>8, <2>1, <2>2, <3>3, TokenMeans
    <3> QED BY <1>7, <3>1, <3>4
  <2>5. block.data = list[a]
    BY <2>2 DEF BlockOf
  <2> QED BY <2>3, <2>4, <2>5
<1> QED BY <1>10, <1>11 DEF MeansTheSame
-----------------------------------------------------------------------------
(* From the template to the file for all runs. *)

(* A parameter is there, and a fit leaves its name and run.                *)
Whole(doc) ==
  /\ {"theory", "functions", "blocks", "rrf"} \subseteq DOMAIN doc
  /\ \A k \in DOMAIN doc.par : doc.par[k] # None

LEMMA GlobalWhole ==
  ASSUME NoneIsNoParameter, NEW doc, doc.par \in Seq(Parameters(doc)),
         NEW temp, NEW list \in Seq(Nat), NEW d, NEW ones,
         NEW global, global = GlobalFile(Sorted(doc, temp), temp, list, ones, d)
  PROVE  Whole(global)
<1>1. PICK P, n, sorted : P = Parameters(doc) /\ n = Len(doc.par) /\ sorted = Sorted(doc, temp)
  OBVIOUS
<1>2. n \in Nat /\ DOMAIN doc.par = 1..n /\ doc.par \in Seq(P)
  BY <1>1
<1>3. PICK glob : glob = n - NoOfSpecific(doc, temp)
  OBVIOUS
<1>4. sorted.par \in Seq(P) /\ SortedIs(doc, temp, sorted, n, glob)
  BY <1>1, <1>2, <1>3, SortedPars
<1>5. glob \in 0..n /\ NoOfSpecific(sorted, temp) = n - glob /\ Len(sorted.par) = n
  BY <1>4 DEF SortedIs
<1>6. \A p \in 1..n : sorted.par[p] \in P
  BY <1>2, <1>4, <1>5
<1>7. \A x \in P : x # None
  <2> SUFFICES ASSUME NEW x \in P PROVE x # None
    OBVIOUS
  <2>1. x = [name |-> x.name, run |-> x.run, val |-> x.val]
    <3>1. PICK A, B : x \in [name : A, run : Int, val : B]
      BY <1>1 DEF Parameters
    <3> QED BY <3>1
  <2> QED BY <2>1, Zenon DEF NoneIsNoParameter
<1>8. PICK spec, g : /\ spec = NoOfSpecific(sorted, temp) /\ g = Len(sorted.par) - spec
                     /\ g = glob
  <2>1. n - (n - glob) = glob
    BY <1>2, <1>5
  <2> QED BY <1>5, <2>1
<1> DEFINE Specific_(a, k) ==
      [name |-> sorted.par[g + k].name, run |-> NameOf(temp, temp, list, d)[a],
       val |-> ValueOf(sorted, g + k, temp, list, ones, a)]
<1>9. \A a, k : Specific_(a, k) # None
  BY Zenon DEF NoneIsNoParameter
<1> DEFINE Par_(p) == IF p <= g THEN sorted.par[p]
                      ELSE Specific_(((p - g - 1) \div spec) + 1, ((p - g - 1) % spec) + 1)
<1>10. global.par = [p \in 1..g + Len(list) * spec |-> Par_(p)]
  <2>1. {"par", "blocks"} \subseteq DOMAIN sorted
    BY <1>1 DEF Sorted
  <2> QED BY <1>1, <1>8, <2>1 DEF GlobalFile
<1> HIDE DEF Specific_
<1>11. ASSUME NEW p \in 1..g + Len(list) * spec PROVE Par_(p) # None
  <2>1. CASE p <= g
    <3>1. p \in 1..n
      BY <1>2, <1>5, <1>8, <2>1
    <3> QED BY <1>6, <1>7, <2>1, <3>1
  <2>2. CASE ~(p <= g)
    BY <1>9, <2>2
  <2> QED BY <2>1, <2>2
<1> HIDE DEF Par_
<1>12. {"theory", "functions", "blocks", "rrf"} \subseteq DOMAIN global
  <2>1. {"theory", "functions", "blocks", "rrf"} \subseteq DOMAIN sorted
    BY <1>1 DEF Sorted
  <2>2. DOMAIN global = DOMAIN sorted
    BY <1>1 DEF GlobalFile
  <2> QED BY <2>1, <2>2
<1> QED BY <1>10, <1>11, <1>12 DEF Whole

NamesOf(old, new) ==
  /\ DOMAIN new = DOMAIN old /\ DOMAIN new.par = DOMAIN old.par
  /\ \A x \in DOMAIN old : x \notin {"par", "valid"} => new[x] = old[x]
  /\ \A k \in DOMAIN old.par : /\ new.par[k].name = old.par[k].name
                               /\ new.par[k].run = old.par[k].run
                               /\ old.par[k] # None => new.par[k] # None

LEMMA NamesStay ==
  ASSUME NoneIsNoParameter, NEW doc, Document(doc), NEW name,
         NEW new, new = Fitted(name, doc) \/ new = NotConverged(doc)
  PROVE  NamesOf(doc, new)
<1>1. CASE new = NotConverged(doc)
  BY <1>1 DEF NotConverged, Document, NamesOf
<1>2. CASE new = Fitted(name, doc)
  <2>1. PICK pars : pars = [k \in DOMAIN doc.par |->
                             [name |-> doc.par[k].name, run |-> doc.par[k].run,
                              val |-> [of |-> name, s |-> session]]]
    OBVIOUS
  <2>2. new = [doc EXCEPT !.valid = TRUE, !.par = pars]
    BY <1>2, <2>1 DEF Fitted
  <2>3. /\ DOMAIN new = DOMAIN doc /\ new.par = pars
        /\ \A x \in DOMAIN doc : x \notin {"par", "valid"} => new[x] = doc[x]
    BY <2>2 DEF Document
  <2>4. \A k \in DOMAIN doc.par : pars[k] # None
    BY <2>1, Zenon DEF NoneIsNoParameter
  <2>5. DOMAIN pars = DOMAIN doc.par /\ \A k \in DOMAIN doc.par :
          pars[k].name = doc.par[k].name /\ pars[k].run = doc.par[k].run
    BY <2>1
  <2> QED BY <2>3, <2>4, <2>5 DEF NamesOf
<1> QED BY <1>1, <1>2

(* So what the file means stays, too.                                      *)
LEMMA MeaningStays ==
  ASSUME NEW doc, NEW old, NEW new, NEW temp, NEW list, MeansTheSame(doc, old, temp, list), Whole(old),
         NamesOf(old, new)
  PROVE  MeansTheSame(doc, new, temp, list) /\ Whole(new)
<1>1. /\ DOMAIN new = DOMAIN old /\ DOMAIN new.par = DOMAIN old.par
      /\ new.blocks = old.blocks /\ new.theory = old.theory /\ new.functions = old.functions
      /\ new.rrf = old.rrf
      /\ \A k \in DOMAIN old.par : /\ new.par[k].name = old.par[k].name
                                   /\ new.par[k].run = old.par[k].run
                                   /\ old.par[k] # None => new.par[k] # None
  BY DEF NamesOf, Whole
<1>2. Tokens(new) = Tokens(old)
  BY <1>1 DEF Tokens
<1>3. ASSUME NEW p, NEW block, NEW t, NEW run, SameFor(p, Referred(old, block, t), temp, run)
      PROVE  SameFor(p, Referred(new, block, t), temp, run)
  <2>1. PICK no : no = IF t.kind = "map" THEN block.map[t.no] ELSE t.no
    OBVIOUS
  <2>2. /\ Referred(old, block, t) = (IF t.kind # "fun" /\ no \in DOMAIN old.par THEN old.par[no] ELSE None)
        /\ Referred(new, block, t) = (IF t.kind # "fun" /\ no \in DOMAIN old.par THEN new.par[no] ELSE None)
    BY <1>1, <2>1 DEF Referred
  <2>3. CASE t.kind # "fun" /\ no \in DOMAIN old.par
    <3>1. old.par[no] # None /\ new.par[no] # None
      BY <1>1, <2>3 DEF Whole
    <3> QED BY <1>1, <1>3, <2>2, <2>3, <3>1 DEF SameFor
  <2>4. CASE ~(t.kind # "fun" /\ no \in DOMAIN old.par)
    <3>1. Referred(new, block, t) = Referred(old, block, t)
      BY <2>2, <2>4
    <3> QED BY <1>3, <3>1
  <2> QED BY <2>3, <2>4
<1>4. Whole(new)
  BY <1>1 DEF Whole
<1>5. SameFor(Referred(doc, None, Par(doc.rrf)), Referred(new, None, Par(new.rrf)), temp, list[1])
  <2>1. SameFor(Referred(doc, None, Par(doc.rrf)), Referred(old, None, Par(old.rrf)), temp, list[1])
    BY DEF MeansTheSame
  <2> QED BY <1>1, <1>3, <2>1
<1>6. ASSUME NEW a \in DOMAIN list, NEW b \in DOMAIN doc.blocks,
             NEW block, block = old.blocks[(a - 1) * Len(doc.blocks) + b]
      PROVE  /\ block.data = list[a]
             /\ \A x \in Items : SameFor(ItemOf(doc, doc.blocks[b], x), ItemOf(new, block, x), temp, list[a])
             /\ \A k \in DOMAIN Tokens(doc) :
                  SameFor(Referred(doc, doc.blocks[b], Tokens(doc)[k]),
                          Referred(new, block, Tokens(new)[k]), temp, list[a])
  <2>1. /\ block.data = list[a]
        /\ \A x \in Items : SameFor(ItemOf(doc, doc.blocks[b], x), ItemOf(old, block, x), temp, list[a])
        /\ \A k \in DOMAIN Tokens(doc) :
             SameFor(Referred(doc, doc.blocks[b], Tokens(doc)[k]),
                     Referred(old, block, Tokens(old)[k]), temp, list[a])
    BY <1>6 DEF MeansTheSame
  <2>2. \A x \in Items : SameFor(ItemOf(doc, doc.blocks[b], x), ItemOf(new, block, x), temp, list[a])
    BY <1>3, <2>1 DEF ItemOf
  <2>3. \A k \in DOMAIN Tokens(doc) :
          SameFor(Referred(doc, doc.blocks[b], Tokens(doc)[k]),
                  Referred(new, block, Tokens(new)[k]), temp, list[a])
    BY <1>2, <1>3, <2>1
  <2> QED BY <2>1, <2>2, <2>3
<1> QED BY <1>1, <1>4, <1>5, <1>6 DEF MeansTheSame

-----------------------------------------------------------------------------
(* The template, as it has been read. *)

TemplateRead ==
  opt.global # "no" /\ opt.temp > 0 =>
    /\ Active => digits = DigitsOf(opt.temp)
    /\ pc \in {"one", "onefit", "merge"} =>
         /\ Readable(Msr(opt.temp)) /\ Matches(files[Msr(opt.temp)], opt.temp)
         /\ msr = SortedTemplate

(* Only what is for one run alone is written before, and the template is   *)
(* not touched until the end.                                              *)
LEMMA TemplateStays ==
  ASSUME StepsOfMode, [Next]_vars, opt.global # "no", Active
  PROVE  /\ UNCHANGED <<opt, digits>>
         /\ \A run : files'[Msr(run)] = files[Msr(run)]
         /\ \/ UNCHANGED files
            \/ pc = "one" /\ pc' = "onefit"
            \/ pc = "onefit" /\ pc' = "one"
            \/ Merge \/ FitGlobal
<1>1. pc \notin RunSteps
  BY DEF StepsOfMode
<1>2. ~Start /\ ~Prepare /\ ~NoTemplate /\ ~Fit /\ ~ReadMsrFile /\ ~WriteOutput /\ ~Terminated
  BY <1>1 DEF Start, Prepare, NoTemplate, Fit, ReadMsrFile, WriteOutput, Terminated, RunSteps, Active
<1>3. ASSUME NEW name, NEW doc, Put(name, doc), name[1] # "msr"
      PROVE  \A run : files'[Msr(run)] = files[Msr(run)]
  <2> SUFFICES ASSUME NEW run PROVE files'[Msr(run)] = files[Msr(run)]
    OBVIOUS
  <2>1. Msr(run) # name
    BY <1>3 DEF Msr
  <2> QED BY <1>3, <2>1 DEF Put
<1>4. CASE End \/ WriteGlobal
  <2>1. UNCHANGED <<files, opt, digits>>
    BY <1>4, Writes, WriteIs DEF End, WriteGlobal, Write, prog
  <2> QED BY <2>1
<1>5. CASE PrepareGlobal \/ OnesDone \/ ReadGlobal \/ Interrupt \/ UNCHANGED vars
  <2>1. UNCHANGED <<files, opt, digits>>
    BY <1>5 DEF PrepareGlobal, OnesDone, ReadGlobal, Interrupt, vars, prog
  <2> QED BY <2>1
<1>6. CASE PrepareOne
  <2>1. /\ UNCHANGED <<opt, digits>> /\ pc = "one" /\ pc' = "onefit"
        /\ UNCHANGED files \/ \E doc : Put(One(Present), doc)
    BY <1>6 DEF PrepareOne, GoTo
  <2>2. One(Present)[1] # "msr"
    BY DEF One
  <2> QED BY <1>3, <2>1, <2>2
<1>7. CASE FitOne
  <2>1. /\ UNCHANGED <<opt, digits>> /\ pc = "onefit" /\ pc' = "one"
        /\ UNCHANGED files \/ \E doc : Put(One(Present), doc)
    BY <1>7 DEF FitOne, GoTo, Musrfit
  <2>2. One(Present)[1] # "msr"
    BY DEF One
  <2> QED BY <1>3, <2>1, <2>2
<1>8. CASE Merge \/ FitGlobal
  <2>1. /\ UNCHANGED <<opt, digits>>
        /\ UNCHANGED files \/ \E doc : Put(GlobalName, doc)
    BY <1>8 DEF Merge, FitGlobal, Musrfit, prog
  <2>2. GlobalName[1] # "msr"
    BY DEF GlobalName
  <2> QED BY <1>3, <1>8, <2>1, <2>2
<1> QED BY <1>2, <1>4, <1>5, <1>6, <1>7, <1>8 DEF Next

LEMMA TemplateReadKept ==
  ASSUME TypeOfRest, StepsOfMode, TemplateRead, [Next]_vars
  PROVE  TemplateRead'
<1>1. CASE ~Active
  <2>1. CASE Start
    <3>1. ASSUME Accepted(opt'), digits' = DigitsOf(FormatFile(opt')[2]), opt'.global # "no", opt'.temp > 0
          PROVE  digits' = DigitsOf(opt'.temp)
      <4>1. PICK o : o = opt'
        OBVIOUS
      <4>2. FormatFile(o) # None /\ FirstOf(o) = o.temp
        BY <3>1, <4>1 DEF Accepted, FormatFound, FirstOf
      <4>3. FormatFile(o)[2] = o.temp
        <5>1. CASE Exists(Msr(FirstOf(o)))
          BY <4>2, <5>1 DEF FormatFile, Msr
        <5>2. CASE ~Exists(Msr(FirstOf(o)))
          BY <3>1, <4>1, <4>2, <5>2 DEF FormatFile
        <5> QED BY <5>1, <5>2
      <4> QED BY <3>1, <4>1, <4>3
    <3>2. pc' \notin {"one", "onefit", "merge"}
      BY <2>1 DEF Start, GoTo
    <3>3. Active' => Accepted(opt') /\ digits' = DigitsOf(FormatFile(opt')[2])
      BY <2>1 DEF Start, GoTo, Active
    <3> QED BY <3>1, <3>2, <3>3 DEF TemplateRead
  <2>2. CASE ~Start
    <3>1. pc' = pc
      BY <1>1, <2>2 DEF Active, Next, Prepare, NoTemplate, Fit, ReadMsrFile, WriteOutput,
         End, PrepareGlobal, PrepareOne, FitOne, OnesDone, Merge, FitGlobal, ReadGlobal, WriteGlobal,
         Interrupt, Terminated, vars
    <3> QED BY <1>1, <3>1 DEF TemplateRead, Active
  <2> QED BY <2>1, <2>2
<1>2. CASE Active /\ opt.global = "no"
  <2>1. opt' = opt
    BY <1>2, NextIs, Writes, WriteIs, NoneWritten DEF Start, Active, End, prog
  <2> QED BY <1>2, <2>1 DEF TemplateRead
<1>3. CASE Active /\ opt.global # "no"
  <2>1. /\ UNCHANGED <<opt, digits>> /\ \A run : files'[Msr(run)] = files[Msr(run)]
    BY <1>3, TemplateStays
  <2>2. PICK name, doc : name = Msr(opt.temp) /\ doc = files[name] /\ files'[name] = doc
    BY <2>1
  <2>3. /\ Readable(Msr(opt.temp)) = (doc \notin {None, Broken})
        /\ Readable(Msr(opt.temp))' = (doc \notin {None, Broken})
        /\ SortedTemplate = Sorted(doc, opt.temp) /\ SortedTemplate' = Sorted(doc, opt.temp)
    BY <2>1, <2>2 DEF Readable, SortedTemplate, Msr
  <2>4. ASSUME pc' \in {"one", "onefit", "merge"}, pc \in {"one", "onefit", "merge"}
        PROVE  msr' = msr
    <3>1. pc \notin {"gwrite", "write"} \cup RunSteps \cup {"gfit", "gread", "global"}
      BY <2>4 DEF RunSteps
    <3> QED BY <1>3, <2>4, <3>1 DEF Next, Start, Prepare, NoTemplate, Fit, ReadMsrFile, WriteOutput,
         End, PrepareGlobal, PrepareOne, FitOne, OnesDone, Merge, FitGlobal, ReadGlobal, WriteGlobal,
         Interrupt, Terminated, vars, prog, Active, GoTo, RunSteps
  <2>5. ASSUME opt.temp > 0, pc' \in {"one", "onefit", "merge"}, pc \notin {"one", "onefit", "merge"}
        PROVE  doc \notin {None, Broken} /\ Matches(doc, opt.temp) /\ msr' = Sorted(doc, opt.temp)
    <3>1. PrepareGlobal
      BY <1>3, <2>5 DEF Next, Start, Prepare, NoTemplate, Fit, ReadMsrFile, WriteOutput,
         End, PrepareOne, FitOne, OnesDone, Merge, FitGlobal, ReadGlobal, WriteGlobal, Write,
         Interrupt, Terminated, vars, prog, Active, GoTo, AfterPrepare
    <3>2. opt.temp \in Int
      BY Msr2DataAssumption DEF TypeOfRest
    <3>3. ~(opt.temp <= 0)
      BY <2>5, <3>2
    <3> QED BY <2>2, <2>3, <2>5, <3>1, <3>3 DEF PrepareGlobal, GoTo
  <2> QED BY <1>3, <2>1, <2>2, <2>3, <2>4, <2>5 DEF TemplateRead, Active
<1> QED BY <1>1, <1>2, <1>3

-----------------------------------------------------------------------------
(* What the file for all runs means, as long as there is one. *)

Compared(doc) ==
  /\ opt.global # "no" /\ opt.temp > 0 /\ N > 0 /\ pc \in {"gfit", "gread", "gwrite"}
  /\ Readable(GlobalName) /\ Complete(doc) /\ FreeInAll(doc.blocks)
  /\ Len(files[GlobalName].par) < FunOffset
  /\ \A a \in 1..N - 1 : ~TooLong(opt.list[a], digits)
MeansInv ==
  Compared(files[Msr(opt.temp)]) =>
    /\ MeansTheSame(files[Msr(opt.temp)], files[GlobalName], opt.temp, opt.list)
    /\ Whole(files[GlobalName])

LEMMA DigitsEnough ==
  ASSUME NEW run \in Nat
  PROVE  ~TooLong(run, DigitsOf(run))
<1>1. PICK S : S = {e \in Width..9 : run >= 10 ^ e}
  OBVIOUS
<1>2. S \subseteq Width..9 /\ IsFiniteSet(Width..9)
  <2>1. S \subseteq Width..9
    BY <1>1, Zenon
  <2>2. Width \in Int /\ 9 \in Int
    BY DEF Width
  <2> QED BY <2>1, <2>2, FS_Interval
<1>3. Cardinality(S) \in Nat
  BY <1>2, FS_Subset, FS_CardinalityType
<1>4. DigitsOf(run) = Width + Cardinality(S)
  BY <1>1 DEF DigitsOf
<1>5. PICK d \in Nat : d = DigitsOf(run)
  BY <1>3, <1>4 DEF Width
<1>6. ~(d > d)
  OBVIOUS
<1> QED BY <1>5, <1>6 DEF TooLong

(* Merge. *)
LEMMA MergeMeans ==
  ASSUME NoneIsNoParameter, TypeOfRest, FilesShaped, TemplateKnown, StepsOfMode, TemplateRead, Merge,
         NEW doc, doc = files[Msr(opt.temp)], Compared(doc)'
  PROVE  MeansTheSame(doc, files'[GlobalName], opt.temp, opt.list) /\ Whole(files'[GlobalName])
<1>1. UNCHANGED <<opt, digits>> /\ pc = "merge"
    /\ Put(GlobalName, GlobalFile(msr, opt.temp, opt.list, Ones, digits))
  BY DEF Merge
<1>2. N' = N /\ GlobalName' = GlobalName
  BY <1>1 DEF N, GlobalName
<1>3. /\ opt.global # "no" /\ opt.temp > 0 /\ N > 0 /\ Complete(doc) /\ FreeInAll(doc.blocks)
      /\ Len(files'[GlobalName].par) < FunOffset
      /\ \A a \in 1..N - 1 : ~TooLong(opt.list[a], digits)
  BY <1>1, <1>2 DEF Compared
<1>4. digits = DigitsOf(opt.temp) /\ Matches(doc, opt.temp) /\ msr = Sorted(doc, opt.temp)
  BY <1>1, <1>3 DEF TemplateRead, Active, SortedTemplate
<1>5. opt.temp \in Nat /\ opt.list \in Seq(Nat) /\ N \in Nat /\ DOMAIN opt.list = 1..N
  <2>1. opt \in Options /\ opt.temp \in Int
    BY Msr2DataAssumption DEF TypeOfRest
  <2> QED BY <1>3, <2>1, LengthOfList
<1>6. PICK global, list, temp, d, ones :
        /\ list = opt.list /\ temp = opt.temp /\ d = digits /\ ones = Ones
        /\ global = GlobalFile(Sorted(doc, temp), temp, list, ones, d)
  OBVIOUS
<1>7. files'[GlobalName] = global
  BY <1>1, <1>3, <1>4, <1>6, NamesKnown DEF Put
<1>8. Document(global)
  BY <1>3, <1>7, MergeDoc
<1>9. ~TooLong(temp, d) /\ \A j \in 1..Len(list) - 1 : ~TooLong(list[j], d)
  BY <1>3, <1>4, <1>5, <1>6, DigitsEnough DEF N
<1>10. temp \in Nat /\ list \in Seq(Nat) /\ 1 \in DOMAIN list
  BY <1>3, <1>5, <1>6
<1>11. global.par \in Seq(ToSet(global.par)) /\ Len(global.par) < FunOffset
  BY <1>3, <1>7, <1>8 DEF Document
<1>12. MeansTheSame(doc, global, temp, list)
  BY <1>3, <1>4, <1>6, <1>9, <1>10, <1>11, GlobalFileMeans
<1>13. Whole(global)
  BY <1>3, <1>6, <1>10, GlobalWhole DEF Complete
<1> QED BY <1>6, <1>7, <1>12, <1>13

(* The fit of it. *)
LEMMA FitMeans ==
  ASSUME NoneIsNoParameter, TypeOfRest, FilesShaped, FitGlobal, N > 0,
         NEW doc, NEW temp, NEW list, files'[GlobalName] \notin {None, Broken},
         Readable(GlobalName) /\ Len(files[GlobalName].par) = Len(files'[GlobalName].par) =>
           MeansTheSame(doc, files[GlobalName], temp, list) /\ Whole(files[GlobalName])
  PROVE  MeansTheSame(doc, files'[GlobalName], temp, list) /\ Whole(files'[GlobalName])
<1>1. PICK name : name = GlobalName
  OBVIOUS
<1>2. name \in DOMAIN files /\ name[1] # "one"
  BY <1>1, NamesKnown DEF GlobalName
<1>3. CASE UNCHANGED files
  BY <1>3 DEF Readable
<1>4. CASE files' # files
  <2>1. PICK new : /\ Readable(name) /\ Put(name, new)
                   /\ new \in {Fitted(name, files[name]), NotConverged(files[name]), Broken}
    BY <1>1, <1>4 DEF FitGlobal, Musrfit
  <2>2. files'[name] = new /\ new # Broken
    BY <1>1, <1>2, <2>1 DEF Put
  <2>3. PICK old : old = files[name]
    OBVIOUS
  <2>4. Document(old)
    BY <1>2, <2>1, <2>3 DEF FilesShaped
  <2>5. new = Fitted(name, old) \/ new = NotConverged(old)
    BY <2>1, <2>2, <2>3
  <2>6. NamesOf(old, new)
    BY <2>4, <2>5, NamesStay
  <2>7. Len(new.par) = Len(old.par)
    BY <2>6 DEF NamesOf
  <2>8. MeansTheSame(doc, old, temp, list) /\ Whole(old)
    BY <1>1, <2>1, <2>2, <2>3, <2>7
  <2>9. MeansTheSame(doc, new, temp, list) /\ Whole(new)
    BY <2>6, <2>8, MeaningStays
  <2> QED BY <1>1, <2>2, <2>9
<1> QED BY <1>3, <1>4

LEMMA MeansInvKept ==
  ASSUME NoneIsNoParameter, TypeOfRest, FilesShaped, TemplateKnown, StepsOfMode, TemplateRead,
         MeansInv, [Next]_vars
  PROVE  MeansInv'
<1>1. PICK doc : doc = files'[Msr(opt'.temp)]
  OBVIOUS
<1>2. SUFFICES ASSUME Compared(doc)'
               PROVE  /\ MeansTheSame(doc, files'[GlobalName'], opt'.temp, opt'.list)
                      /\ Whole(files'[GlobalName'])
  BY <1>1 DEF MeansInv, Msr, Compared, Readable, N, GlobalName
<1>3. pc' \in {"gfit", "gread", "gwrite"}
  BY <1>2 DEF Compared
<1>4. Active
  BY <1>3 DEF Active, Next, Prepare, NoTemplate, Fit, ReadMsrFile, WriteOutput, Start, GoTo,
     End, PrepareGlobal, PrepareOne, FitOne, OnesDone, Merge, FitGlobal, ReadGlobal, WriteGlobal,
     Interrupt, Terminated, vars
<1>5. opt' = opt
  BY <1>4, NextIs, Writes, WriteIs, NoneWritten DEF Start, Active, End, prog
<1>6. opt.global # "no" /\ opt.temp > 0 /\ N > 0
  BY <1>2, <1>5 DEF Compared, N
<1>7. UNCHANGED digits /\ files'[Msr(opt.temp)] = files[Msr(opt.temp)]
  BY <1>4, <1>6, TemplateStays
<1>8. doc = files[Msr(opt.temp)]
  BY <1>1, <1>5, <1>7 DEF Msr
<1>9. GlobalName' = GlobalName
  BY <1>5 DEF GlobalName
<1>10. CASE Merge
  BY <1>2, <1>5, <1>8, <1>9, <1>10, MergeMeans
<1>11. CASE FitGlobal
  <2>1. pc = "gfit"
    BY <1>11 DEF FitGlobal
  <2>2. files'[GlobalName] \notin {None, Broken}
    BY <1>2, <1>9 DEF Compared, Readable
  <2>3. ASSUME Readable(GlobalName), Len(files[GlobalName].par) = Len(files'[GlobalName].par)
        PROVE  MeansTheSame(doc, files[GlobalName], opt.temp, opt.list) /\ Whole(files[GlobalName])
    <3>1. Compared(doc)
      BY <1>2, <1>5, <1>7, <1>9, <2>1, <2>3 DEF Compared, N
    <3> QED BY <1>8, <3>1 DEF MeansInv
  <2> QED BY <1>5, <1>6, <1>9, <1>11, <2>2, <2>3, FitMeans
<1>12. CASE ~Merge /\ ~FitGlobal
  <2>1. UNCHANGED files
    BY <1>3, <1>4, <1>6, <1>12, TemplateStays
  <2>2. opt.temp \in Int
    BY Msr2DataAssumption DEF TypeOfRest
  <2>3. ~(opt.temp <= 0)
    BY <1>6, <2>2
  <2>4. pc \in {"gfit", "gread", "gwrite"}
    BY <1>3, <1>4, <1>12, <2>3 DEF Active, Next, Prepare, NoTemplate, Fit, ReadMsrFile, WriteOutput,
       Start, GoTo, Write, AfterPrepare,
       End, PrepareGlobal, PrepareOne, FitOne, OnesDone, ReadGlobal, WriteGlobal,
       Interrupt, Terminated, vars
  <2>5. Compared(doc)
    BY <1>2, <1>5, <1>7, <1>9, <2>1, <2>4 DEF Compared, N, Readable
  <2> QED BY <1>5, <1>8, <1>9, <2>1, <2>5 DEF MeansInv
<1> QED BY <1>10, <1>11, <1>12

-----------------------------------------------------------------------------
(* The parameters of a row of the file for all runs. *)

(* Those in front are for all runs, and they are counted.                  *)
Unnamed(doc, glob) == \A p \in DOMAIN doc.par : p <= glob => doc.par[p].run = 0
OwnPars ==
  opt.global # "no" /\ N > 0 =>
    /\ ~(opt.temp > 0) /\ (pc \in {"global", "gfit", "gread"} \/ (pc = "gwrite" /\ i = 1)) => num = Unknown
    /\ pc = "gwrite" /\ msr # None => Readable(GlobalName) /\ msr = files[GlobalName]
    /\ OwnNames /\ opt.temp > 0 /\ pc \in {"gfit", "gread"} /\ Readable(GlobalName) =>
         Unnamed(files[GlobalName], num.glob)
    /\ pc = "gwrite" /\ msr # None /\ OwnNames /\ (opt.temp > 0 \/ i > 1) => Unnamed(msr, num.glob)
    /\ pc = "gwrite" /\ msr # None /\ i > 1 =>
         Consistent(num) /\ num.spec \in Nat /\ num.glob \in Nat

LEMMA GlobalUnnamed ==
  ASSUME NEW doc, Document(doc), NEW temp, \A k \in DOMAIN doc.par : doc.par[k].run \in {0, temp},
         NEW list, NEW ones, NEW d, NEW sorted, sorted = Sorted(doc, temp),
         NEW glob, glob = Len(sorted.par) - NoOfSpecific(sorted, temp)
  PROVE  Unnamed(GlobalFile(sorted, temp, list, ones, d), glob)
<1>1. PICK P, n, g : P = ToSet(doc.par) /\ n = Len(doc.par) /\ g = n - NoOfSpecific(doc, temp)
  OBVIOUS
<1>2. doc.par \in Seq(P) /\ n \in Nat
  BY <1>1 DEF Document
<1>3. \A x \in P : x.run \in {0, temp}
  BY <1>1 DEF ToSet
<1>4. sorted.par \in Seq(P) /\ SortedIs(doc, temp, sorted, n, g)
  BY <1>1, <1>2, SortedPars
<1>5. /\ Len(sorted.par) = n /\ g \in 0..n /\ NoOfSpecific(sorted, temp) = n - g
      /\ \A p \in 1..n : sorted.par[p].run = temp <=> p > g
  BY <1>4 DEF SortedIs
<1>6. glob = g
  BY <1>2, <1>5
<1>7. ASSUME NEW p \in 1..n, p <= glob PROVE sorted.par[p].run = 0
  <2>1. sorted.par[p] \in P
    BY <1>4, <1>5
  <2>2. ~(p > g)
    BY <1>2, <1>5, <1>6, <1>7
  <2> QED BY <1>3, <1>5, <2>1, <2>2
<1>8. PICK global : global = GlobalFile(sorted, temp, list, ones, d)
  OBVIOUS
<1>9. ASSUME NEW p \in DOMAIN global.par, p <= glob PROVE global.par[p] = sorted.par[p] /\ p \in 1..n
  <2>1. {"par", "blocks"} \subseteq DOMAIN sorted
    BY DEF Sorted
  <2>2. PICK l : l = Len(list) * NoOfSpecific(sorted, temp)
    OBVIOUS
  <2>3. DOMAIN global.par = 1..glob + l /\ global.par[p] = sorted.par[p]
    BY <1>8, <1>9, <2>1, <2>2 DEF GlobalFile
  <2>4. p \in Int /\ p >= 1
    BY <1>9, <2>3
  <2> QED BY <1>2, <1>5, <1>6, <1>9, <2>3, <2>4
<1> QED BY <1>7, <1>8, <1>9 DEF Unnamed

LEMMA SameNames ==
  ASSUME OwnNames', opt' = opt, files'[Msr(opt.temp)] = files[Msr(opt.temp)],
         ~(opt.temp > 0) => UNCHANGED files
  PROVE  OwnNames
BY DEF OwnNames, Msr, GlobalName

LEMMA OwnParsKept ==
  ASSUME NoneIsNoParameter, TypeOfRest, FilesShaped, TemplateKnown, StepsOfMode, TemplateRead,
         OwnPars, [Next]_vars, ~WriteGlobal
  PROVE  OwnPars'
<1>1. CASE Start
  <2>1. pc' \notin {"gfit", "gread", "gwrite"} /\ num' = Unknown
    BY <1>1 DEF Start, GoTo
  <2>2. Unknown' = Unknown
    BY DEF Unknown
  <2> QED BY <2>1, <2>2 DEF OwnPars
<1>2. CASE End
  BY <1>2 DEF End, GoTo, OwnPars
<1>3. CASE WriteOutput
  <2>1. opt.global = "no"
    BY <1>3 DEF WriteOutput, StepsOfMode, RunSteps
  <2>2. opt' = opt
    BY <1>3, Writes, WriteIs
  <2> QED BY <2>1, <2>2 DEF OwnPars
<1>4. CASE Quiet
  <2>1. UNCHANGED <<db, session, opt>>
    BY <1>4, NoneWritten
  <2>2. SUFFICES ASSUME opt.global # "no", N > 0 PROVE OwnPars'
    BY <2>1 DEF OwnPars, N
  <2>3. N' = N /\ GlobalName' = GlobalName /\ Unknown' = Unknown
    BY <2>1 DEF N, GlobalName, Unknown
  <2>4. opt.temp \in Int
    BY Msr2DataAssumption DEF TypeOfRest
  <2>5. CASE UNCHANGED vars
    BY <2>5 DEF vars, prog, OwnPars, OwnNames, FirstNamed, N, GlobalName, Msr, Readable, Unknown, Consistent,
       ParsCounted, ParNo, TooLong, DigitsOf, Unnamed, Width
  <2>6. CASE Merge
    <3>1. UNCHANGED num /\ pc' \in {"gread", "gfit"} /\ pc = "merge" /\ opt.temp > 0
      BY <2>6 DEF Merge, GoTo, TemplateKnown
    <3>2. PICK doc : doc = files[Msr(opt.temp)]
      OBVIOUS
    <3>3. doc \notin {None, Broken} /\ msr = Sorted(doc, opt.temp)
      BY <2>2, <3>1, <3>2 DEF TemplateRead, SortedTemplate, Readable
    <3>4. num.glob = Len(msr.par) - NoOfSpecific(msr, opt.temp)
      BY <3>1 DEF TemplateKnown
    <3>5. Document(doc)
      BY <3>1, <3>2, <3>3, NamesKnown DEF FilesShaped, Readable, Msr
    <3>6. ASSUME OwnNames' PROVE Unnamed(files'[GlobalName], num.glob)
      <4>1. files'[Msr(opt.temp)] = doc
        <5>1. Msr(opt.temp) # GlobalName
          BY DEF Msr, GlobalName
        <5> QED BY <2>6, <3>2, <5>1 DEF Merge, Put
      <4>2. OwnNames
        BY <2>1, <3>1, <3>2, <3>6, <4>1, SameNames
      <4>3. \A k \in DOMAIN doc.par : doc.par[k].run \in {0, opt.temp}
        BY <3>1, <3>2, <3>3, <4>2 DEF OwnNames
      <4>4. PICK ones : ones = Ones
        OBVIOUS
      <4>5. files'[GlobalName] = GlobalFile(msr, opt.temp, opt.list, ones, digits)
        BY <2>2, <2>6, <4>4, NamesKnown DEF Merge, Put
      <4> QED BY <3>3, <3>4, <3>5, <4>3, <4>5, GlobalUnnamed
    <3> QED BY <2>1, <2>3, <3>1, <3>6 DEF OwnPars, Unnamed
  <2>7. CASE FitGlobal
    <3>1. UNCHANGED num /\ pc = "gfit" /\ pc' = "gread" /\ Musrfit(GlobalName)
      BY <2>7 DEF FitGlobal, GoTo, prog
    <3>2. ASSUME OwnNames', opt.temp > 0, files'[GlobalName] \notin {None, Broken}
          PROVE  Unnamed(files'[GlobalName], num.glob)
      <4>1. files'[Msr(opt.temp)] = files[Msr(opt.temp)]
        <5>1. Active
          BY <3>1 DEF Active
        <5> QED BY <2>2, <5>1, TemplateStays
      <4>2. OwnNames
        BY <2>1, <3>2, <4>1, SameNames
      <4>3. PICK name, old, new : name = GlobalName /\ old = files[name] /\ new = files'[name]
        OBVIOUS
      <4>4. name \in DOMAIN files /\ name[1] # "one"
        BY <2>2, <4>3, NamesKnown DEF GlobalName
      <4>5. new = old \/ (Readable(name) /\ new \in {Fitted(name, old), NotConverged(old), Broken})
        BY <3>1, <4>3, <4>4 DEF Musrfit, Put
      <4>6. Readable(name) /\ Document(old)
        BY <3>2, <4>3, <4>4, <4>5 DEF FilesShaped, Readable
      <4>7. Unnamed(old, num.glob)
        BY <2>2, <3>1, <3>2, <4>2, <4>3, <4>6 DEF OwnPars
      <4>8. CASE new = old
        BY <4>3, <4>7, <4>8
      <4>9. CASE new # old
        <5>1. new = Fitted(name, old) \/ new = NotConverged(old)
          BY <3>2, <4>3, <4>5, <4>9
        <5>2. NamesOf(old, new)
          BY <4>6, <5>1, NamesStay
        <5> QED BY <4>3, <4>7, <5>2 DEF NamesOf, Unnamed
      <4> QED BY <4>8, <4>9
    <3>3. ~(opt.temp > 0) => num = Unknown
      BY <2>2, <3>1 DEF OwnPars
    <3> QED BY <2>1, <2>3, <3>1, <3>2, <3>3 DEF OwnPars, Unnamed, Readable
  <2>8. CASE ReadGlobal
    <3>1. /\ UNCHANGED <<num, files, i>> /\ pc = "gread" /\ pc' \in {"done", "error", "gwrite"}
          /\ pc' = "gwrite" => Readable(GlobalName) /\ msr' = files[GlobalName]
      BY <2>8 DEF ReadGlobal, GoTo
    <3>2. i = 1
      BY <3>1 DEF StepsOfMode
    <3>3. OwnNames' => OwnNames
      BY <2>1, <3>1 DEF OwnNames, Msr, GlobalName
    <3>4. ASSUME pc' = "gwrite", OwnNames', opt.temp > 0 PROVE Unnamed(msr', num.glob)
      BY <2>2, <3>1, <3>3, <3>4 DEF OwnPars
    <3>5. ~(opt.temp > 0) => num = Unknown
      BY <2>2, <3>1 DEF OwnPars
    <3>6. Readable(GlobalName)' <=> Readable(GlobalName)
      BY <2>3, <3>1 DEF Readable
    <3> QED BY <2>1, <2>3, <3>1, <3>2, <3>4, <3>5, <3>6 DEF OwnPars, Unnamed
  <2>9. CASE PrepareGlobal
    <3>1. /\ UNCHANGED <<files, i>> /\ pc = "global"
          /\ \/ pc' \in {"gfit", "gread"} /\ ~(opt.temp > 0) /\ UNCHANGED num
             \/ pc' \in {"error", "crashed", "merge", "one"}
      BY <2>4, <2>9 DEF PrepareGlobal, GoTo
    <3>2. ~(opt.temp > 0) => num = Unknown
      BY <2>2, <3>1 DEF OwnPars
    <3> QED BY <2>1, <2>3, <3>1, <3>2 DEF OwnPars
  <2>10. CASE ~(Merge \/ FitGlobal \/ ReadGlobal \/ PrepareGlobal \/ UNCHANGED vars)
    <3>1. pc' \notin {"global", "gfit", "gread", "gwrite"}
      BY <1>4, <2>2, <2>10 DEF StepsOfMode, RunSteps, Quiet, Prepare, NoTemplate, Fit, ReadMsrFile,
         PrepareOne, FitOne, OnesDone, Interrupt, Terminated, vars, GoTo, AfterPrepare
    <3> QED BY <3>1 DEF OwnPars
  <2> QED BY <2>5, <2>6, <2>7, <2>8, <2>9, <2>10
<1> QED BY <1>1, <1>2, <1>3, <1>4, NextIs

(* WriteOutput of one run.                                                 *)
LEMMA NumWritten ==
  ASSUME NoneIsNoSequence, TypeOfRest, StepsOfMode, FilesShaped, OwnGlobal, OwnPars,
         WriteGlobal, pc' \notin {"crashed", "error"}
  PROVE  /\ i \in 1..N /\ msr # None /\ Readable(GlobalName) /\ msr = files[GlobalName]
         /\ num'.spec \in Nat /\ num'.glob \in Nat /\ Consistent(num')
         /\ OwnNames => Unnamed(msr, num'.glob)
         /\ \E pars : /\ pars = SubSeq(msr.par, 1, num'.glob) \o SpecPar(num')
                      /\ Write(pars, "gwrite")
<1>1. i \in Nat \ {0} /\ N \in Nat /\ opt.temp \in Int /\ DOMAIN opt.list = 1..N
  BY LengthOfList, Msr2DataAssumption DEF TypeOfRest
<1>2. pc = "gwrite" /\ i \in 1..N /\ msr # None /\ (i = 1 => ~ModuloZero(Counted) /\ Consistent(Counted))
  BY <1>1 DEF WriteGlobal, GoTo
<1>3. opt.global # "no" /\ N > 0
  BY <1>1, <1>2 DEF StepsOfMode
<1>4. Readable(GlobalName) /\ msr = files[GlobalName]
  BY <1>2, <1>3 DEF OwnPars
<1>5. num' = (IF i = 1 THEN Counted ELSE num)
  BY <1>2 DEF WriteGlobal
<1>6. \E pars : pars = SubSeq(msr.par, 1, num'.glob) \o SpecPar(num') /\ Write(pars, "gwrite")
  <2>1. PICK pars : pars = SubSeq(msr.par, 1, num'.glob) \o SpecPar(num')
    OBVIOUS
  <2>2. Write(pars, "gwrite")
    BY <1>2, <2>1 DEF WriteGlobal
  <2> QED BY <2>1, <2>2
<1>7. CASE i > 1
  <2>1. num' = num
    BY <1>5, <1>7
  <2>2. Consistent(num) /\ num.spec \in Nat /\ num.glob \in Nat /\ (OwnNames => Unnamed(msr, num.glob))
    BY <1>2, <1>3, <1>7 DEF OwnPars
  <2> QED BY <1>2, <1>4, <1>6, <2>1, <2>2
<1>8. CASE i = 1 /\ opt.temp > 0
  <2>1. num' = num /\ num.spec \in Nat /\ num.glob \in Nat
    BY <1>8, WritesCounted
  <2>2. Consistent(num')
    BY <1>2, <1>5, <1>8
  <2>3. OwnNames => Unnamed(msr, num.glob)
    BY <1>2, <1>3, <1>8 DEF OwnPars
  <2> QED BY <1>2, <1>4, <1>6, <2>1, <2>2, <2>3
<1>9. CASE i = 1 /\ ~(opt.temp > 0)
  <2>1. num = Unknown
    BY <1>2, <1>3, <1>9 DEF OwnPars
  <2>2. PICK S : S = {k \in DOMAIN msr.par : IsSpecific(msr, k, opt.list[1])}
    OBVIOUS
  <2>3. /\ num'.glob = (IF S = {} THEN Len(msr.par) ELSE Min(S) - 1)
        /\ num'.spec = Cardinality(S)
    BY <1>5, <1>9, <2>1, <2>2 DEF Counted
  <2>4. S # {}
    <3>1. S = {} => Counted.spec = 0
      BY <1>5, <1>9, <2>3, FS_EmptySet
    <3> QED BY <1>2, <1>9, <3>1 DEF ModuloZero
  <2>5. PICK m \in Nat : DOMAIN msr.par = 1..m
    <3>1. GlobalName \in DOMAIN files /\ GlobalName[1] # "one"
      BY <1>3, NamesKnown DEF GlobalName
    <3>2. msr.par \in Seq(ToSet(msr.par))
      BY <1>4, <3>1 DEF FilesShaped, Document
    <3> QED BY <3>2
  <2>6. S \subseteq 1..m
    BY <2>2, <2>5
  <2>7. Cardinality(S) \in Nat
    <3>1. IsFiniteSet(1..m)
      BY FS_Interval
    <3> QED BY <2>6, <3>1, FS_Subset, FS_CardinalityType
  <2>8. Min(S) \in S /\ \A k \in S : Min(S) <= k
    <3>1. S \subseteq Nat
      BY <2>6
    <3> QED BY <2>4, <3>1, MinIs
  <2>9. PICK first \in 1..m : first = Min(S)
    BY <2>6, <2>8
  <2>10. num'.glob = first - 1
    BY <2>3, <2>4, <2>9
  <2>11. ASSUME OwnNames, NEW p \in DOMAIN msr.par, p <= num'.glob PROVE msr.par[p].run = 0
    <3> SUFFICES ASSUME msr.par[p].run # 0 PROVE FALSE
      OBVIOUS
    <3>1. FirstNamed(msr, opt.list[1])
      BY <1>4, <1>9, <2>11 DEF OwnNames, Readable
    <3>2. PICK j \in 1..p : msr.par[j].run = opt.list[1]
      BY <3>1 DEF FirstNamed
    <3>3. j \in S
      BY <2>2, <2>5, <3>2 DEF IsSpecific
    <3>4. first <= j
      BY <2>8, <2>9, <3>3
    <3> QED BY <2>5, <2>10, <2>11, <3>4
  <2>12. num'.glob \in Nat
    BY <2>10
  <2>13. Consistent(num')
    BY <1>2, <1>5, <1>9
  <2> QED BY <1>2, <1>4, <1>6, <2>3, <2>7, <2>11, <2>12, <2>13 DEF Unnamed
<1>10. i > 1 \/ (i = 1 /\ opt.temp > 0) \/ (i = 1 /\ ~(opt.temp > 0))
  BY <1>1
<1> QED BY <1>7, <1>8, <1>9, <1>10

(* Those for all runs and those of run i.                                  *)
LEMMA NamesInRow ==
  ASSUME NEW c, c.spec \in Nat, c.glob \in Nat, Consistent(c), Unnamed(msr, c.glob),
         Document(msr), N \in Nat, i \in 1..N,
         NEW pars, pars = SubSeq(msr.par, 1, c.glob) \o SpecPar(c)
  PROVE  \A p \in DOMAIN pars : pars[p].run \in {0, Present}
<1>1. PICK all, glob, spec, n : all = msr.par /\ glob = c.glob /\ spec = c.spec /\ n = N
  OBVIOUS
<1>2. PICK A : A = ToSet(all)
  OBVIOUS
<1>3. all \in Seq(A) /\ glob \in Nat /\ spec \in Nat /\ n \in Nat /\ Len(all) - glob = n * spec
  BY <1>1, <1>2 DEF Document, Consistent, ParsCounted
<1>4. glob <= Len(all) /\ Len(all) \in Nat
  <2>1. n * spec \in Nat /\ Len(all) \in Nat
    BY <1>3
  <2> QED BY <1>3, <2>1
<1>5. PICK sub, rest : sub = SubSeq(all, 1, glob) /\ rest = SpecPar(c)
  OBVIOUS
<1>6. PICK T : T = {all[p] : p \in 1..glob} \cup {all[ParNo(c, i, k)] : k \in 1..spec}
  OBVIOUS
<1>7. sub \in Seq(T)
  <2>1. sub \in Seq(A) /\ Len(sub) = glob /\ \A p \in 1..glob : sub[p] = all[p]
    BY <1>3, <1>4, <1>5
  <2>2. \A p \in 1..glob : sub[p] \in T
    BY <1>6, <2>1
  <2> QED BY <2>1, <2>2
<1>8. rest \in Seq(T)
  <2>1. rest = [k \in 1..spec |-> all[ParNo(c, i, k)]]
    BY <1>1, <1>5 DEF SpecPar
  <2>2. rest \in [1..spec -> T]
    BY <1>6, <2>1
  <2> QED BY <1>3, <2>2, FunctionIsSeq
<1>9. pars = sub \o rest
  BY <1>1, <1>5
<1>10. \A t \in T : t.run \in {0, Present}
  <2>1. ASSUME NEW p \in 1..glob PROVE all[p].run = 0
    <3>1. p \in DOMAIN all /\ p <= glob
      BY <1>3, <1>4
    <3> QED BY <1>1, <3>1 DEF Unnamed
  <2>2. ASSUME NEW k \in 1..spec PROVE all[ParNo(c, i, k)].run = Present
    BY <1>1 DEF Consistent, Present
  <2> QED BY <1>6, <2>1, <2>2
<1>11. sub \o rest \in Seq(T)
  BY <1>7, <1>8
<1>12. \A p \in DOMAIN (sub \o rest) : (sub \o rest)[p] \in T
  BY <1>11
<1> QED BY <1>9, <1>10, <1>12

LEMMA OwnParsWritten ==
  ASSUME NoneIsNoSequence, TypeOfRest, RowsInv, StepsOfMode, FilesShaped, OwnGlobal, OwnPars,
         OwnParameters, WriteGlobal
  PROVE  OwnPars' /\ OwnParameters'
<1>1. i \in Nat \ {0} /\ N \in Nat /\ DOMAIN opt.list = 1..N
  BY LengthOfList DEF TypeOfRest
<1>2. pc = "gwrite" /\ opt.global # "no" /\ session > 0
  BY DEF WriteGlobal, StepsOfMode, RowsInv, SessionsBehind, TypeOfRest
<1>3. UNCHANGED <<files, session, opt>>
  BY Writes, WriteIs
<1>4. OwnNames' => OwnNames
  BY <1>3 DEF OwnNames, Msr, GlobalName
<1>5. ASSUME UNCHANGED db PROVE OwnParameters'
  BY <1>3, <1>4, <1>5 DEF OwnParameters, RowsNow
<1>6. CASE pc' \in {"crashed", "error"}
  <2>1. UNCHANGED db
    <3>1. ASSUME NEW pars, NEW next, Write(pars, next), pc = "gwrite", next = "gwrite"
          PROVE  UNCHANGED db
      BY <1>6, <3>1, WriteIs
    <3> QED BY <1>2, <1>6, <3>1, Writes
  <2> QED BY <1>5, <1>6, <2>1 DEF OwnPars
<1>7. CASE pc' \notin {"crashed", "error"}
  <2>1. /\ i \in 1..N /\ msr # None /\ Readable(GlobalName) /\ msr = files[GlobalName]
        /\ num'.spec \in Nat /\ num'.glob \in Nat /\ Consistent(num')
        /\ OwnNames => Unnamed(msr, num'.glob)
    BY <1>7, NumWritten
  <2>2. PICK pars : pars = SubSeq(msr.par, 1, num'.glob) \o SpecPar(num') /\ Write(pars, "gwrite")
    BY <1>7, NumWritten
  <2>3. /\ pc' = "gwrite" /\ (msr' = msr \/ msr' = None) /\ i' = i + 1 /\ UNCHANGED digits
        /\ UNCHANGED db \/ \E ind : Append_(ind, pars)
    <3>1. UNCHANGED digits
      BY <2>2 DEF Write
    <3> QED BY <1>7, <2>2, <3>1, WriteIs
  <2>4. OwnPars'
    <3>1. i' > 1 /\ N' = N /\ GlobalName' = GlobalName
      BY <1>1, <1>3, <2>3 DEF N, GlobalName
    <3>2. msr' = msr => Consistent(num)' /\ (OwnNames' => Unnamed(msr, num.glob)')
      <4>1. PICK c : c = num'
        OBVIOUS
      <4>2. Consistent(c) /\ (OwnNames => Unnamed(msr, c.glob))
        BY <2>1, <4>1
      <4>3. msr' = msr => Consistent(c)' /\ Unnamed(msr, c.glob)' = Unnamed(msr, c.glob)
        BY <1>3, <2>3, <4>2 DEF Consistent, ParsCounted, ParNo, TooLong, DigitsOf, Width, N, Unnamed
      <4> QED BY <1>4, <4>1, <4>2, <4>3
    <3>3. Readable(GlobalName)' /\ files'[GlobalName'] = files[GlobalName]
      BY <1>3, <2>1, <3>1 DEF Readable
    <3> QED BY <2>1, <2>3, <3>1, <3>2, <3>3 DEF OwnPars
  <2>5. ASSUME NEW ind, Append_(ind, pars) PROVE OwnParameters'
    <3> SUFFICES ASSUME OwnNames'
                 PROVE  \A k \in RowsNow' : \A p \in DOMAIN db'[k].pars :
                         db'[k].pars[p].run \in {0, db'[k].run}
      BY DEF OwnParameters
    <3>1. PICK last \in Nat \ {0} :
            /\ RowsNow' = RowsNow \cup {last} /\ db'[last] = Row(ind, pars)
            /\ \A k \in RowsNow : k \in Nat /\ k < last /\ db'[k] = db[k]
      BY <1>2, <1>3, <2>5, AppendedRow
    <3>2. Document(msr)
      <4>1. GlobalName \in DOMAIN files /\ GlobalName[1] # "one"
        BY <1>1, <2>1, NamesKnown DEF GlobalName
      <4> QED BY <2>1, <4>1 DEF FilesShaped
    <3>3. PICK c : c = num'
      OBVIOUS
    <3>4. \A p \in DOMAIN pars : pars[p].run \in {0, Present}
      BY <1>1, <1>4, <2>1, <2>2, <3>2, <3>3, NamesInRow
    <3>5. CASE OwnNames
      <4>1. ASSUME NEW k \in RowsNow, NEW p \in DOMAIN db[k].pars PROVE db[k].pars[p].run \in {0, db[k].run}
        BY <1>2, <3>5 DEF OwnParameters
      <4>2. Row(ind, pars).run = Present /\ Row(ind, pars).pars = pars
        BY DEF Row
      <4> QED BY <3>1, <3>4, <4>1, <4>2
    <3> QED BY <1>4, <3>5
  <2> QED BY <1>5, <2>3, <2>4, <2>5
<1> QED BY <1>6, <1>7

LEMMA OwnParametersKept ==
  ASSUME NoneIsNoSequence, TypeOfRest, RowsInv, StepsOfMode, OwnParameters, [Next]_vars, ~WriteGlobal
  PROVE  OwnParameters'
<1>1. CASE Start
  <2>1. RowsNow' = {}
    BY <1>1, NoRowsAtStart DEF RowsInv
  <2> QED BY <2>1 DEF OwnParameters
<1>2. CASE End
  <2>1. UNCHANGED <<files, session, opt>>
    BY <1>2 DEF End, prog
  <2>2. db' = db \/ db' = <<Blank>>
    BY <1>2 DEF End
  <2>3. CASE db' = db
    BY <2>1, <2>3 DEF OwnParameters, RowsNow, OwnNames, Msr, GlobalName
  <2>4. CASE db' = <<Blank>>
    <3>1. RowsNow' = {}
      BY <2>4 DEF RowsNow, Blank
    <3> QED BY <3>1 DEF OwnParameters
  <2> QED BY <2>2, <2>3, <2>4
<1>3. CASE WriteOutput
  <2>1. opt.global = "no" /\ opt' = opt
    BY <1>3, Writes, WriteIs DEF WriteOutput, StepsOfMode, RunSteps
  <2> QED BY <2>1 DEF OwnParameters
<1>4. CASE Quiet
  <2>1. UNCHANGED <<db, session, opt>>
    BY <1>4, NoneWritten
  <2>2. RowsNow' = RowsNow
    BY <2>1 DEF RowsNow
  <2>3. CASE opt.global = "no"
    BY <2>1, <2>3 DEF OwnParameters
  <2>4. CASE UNCHANGED files
    BY <2>1, <2>2, <2>4 DEF OwnParameters, OwnNames, Msr, GlobalName
  <2>5. CASE opt.global # "no" /\ files' # files
    <3>1. Active
      BY <1>4, <2>5 DEF Active, Quiet, Prepare, NoTemplate, Fit, ReadMsrFile, PrepareGlobal, PrepareOne,
         FitOne, OnesDone, Merge, FitGlobal, ReadGlobal, Interrupt, Terminated, vars
    <3>2. pc \in {"one", "onefit"} \/ Merge \/ FitGlobal
      BY <2>5, <3>1, TemplateStays
    <3>3. pc \in BeforeRows
      BY <3>2 DEF Merge, FitGlobal, BeforeRows
    <3>4. RowsNow = {}
      BY <3>3 DEF RowsInv, RowsBehind
    <3> QED BY <2>2, <3>4 DEF OwnParameters
  <2> QED BY <2>3, <2>4, <2>5
<1> QED BY <1>1, <1>2, <1>3, <1>4, NextIs

-----------------------------------------------------------------------------
(* All of it. *)

MeansAll == TemplateRead /\ MeansInv /\ OwnPars /\ OwnParameters

(* The file that PrepareGlobalInputFile makes of a template means for each *)
(* run what the template means for its own, however often musrfit has gone *)
(* over it; and each row that WriteOutput makes of such a file has, of the *)
(* parameters named after runs, those of its run: for all templates, lists *)
(* of runs, directories and db-files, whatever has failed or been          *)
(* interrupted.                                                            *)
THEOREM GlobalMeans ==
  ASSUME NoneIsNoSequence, NoneIsNoParameter
  PROVE  Spec => []GlobalMeansTemplate
<1>1. Init => TypeOfRest /\ RowsInv /\ OwnInv /\ MeansAll
  <2>1. Init => TypeOfRest /\ RowsInv /\ OwnInv
    BY OwnInvAtStart
  <2>2. Init => MeansAll
    BY DEF Init, MeansAll, TemplateRead, MeansInv, Compared, OwnPars, OwnParameters, RowsNow, Active
  <2> QED BY <2>1, <2>2
<1>2. TypeOfRest /\ RowsInv /\ OwnInv /\ MeansAll /\ [Next]_vars =>
        (TypeOfRest /\ RowsInv /\ OwnInv /\ MeansAll)'
  <2> SUFFICES ASSUME TypeOfRest, RowsInv, OwnInv, MeansAll, [Next]_vars
               PROVE  TypeOfRest' /\ RowsInv' /\ OwnInv' /\ MeansAll'
    OBVIOUS
  <2>1. TypeOfRest' /\ RowsInv' /\ OwnInv'
    BY OwnInvKept
  <2>2. StepsOfMode /\ FilesShaped /\ TemplateKnown /\ OwnGlobal
    BY DEF OwnInv
  <2>3. TemplateRead'
    BY <2>2, TemplateReadKept DEF MeansAll
  <2>4. MeansInv'
    BY <2>2, MeansInvKept DEF MeansAll
  <2>5. OwnPars' /\ OwnParameters'
    BY <2>2, OwnParsKept, OwnParsWritten, OwnParametersKept DEF MeansAll
  <2> QED BY <2>1, <2>3, <2>4, <2>5 DEF MeansAll
<1>3. MeansAll => GlobalMeansTemplate
  BY DEF MeansAll, MeansInv, Compared, GlobalMeansTemplate, FileMeansTemplate
<1> QED BY <1>1, <1>2, <1>3, PTL DEF Spec

=============================================================================
