------------------------------ MODULE RunBlock ------------------------------
(***************************************************************************)
(* What a RUN block and the GLOBAL block of a msr-file say about the bins   *)
(* of a run: t0's, background, data and fit range, as PMsrHandler reads    *)
(* and writes the lines and PMsrRunBlock (src/src/classes/PMusr.cpp) keeps *)
(* the numbers.                                                            *)
(*                                                                         *)
(* A line is its keyword and its numbers; 'fit fgb+n0 lgb-n1' has the      *)
(* keyword "fit fgb".  Every keyword but addt0 stands once in a block.     *)
(* Detectors are counted as the t0's are: those of a single histogram fit  *)
(* one by one, those of an asymmetry fit forward and backward in turn.     *)
(* Indices start at 1.                                                     *)
(***************************************************************************)
EXTENDS Integers, Sequences, FiniteSets, SequencesExt

None == -1              \* a bin that is not given
Undefined == -100000    \* PMUSR_UNDEFINED, of a time

NoRange == <<None, None, None, None>>

NoBlock ==
  [t0 |-> <<>>, addT0 |-> <<>>, bkg |-> NoRange, data |-> NoRange,
   inBins |-> FALSE, offset |-> <<None, None>>, time |-> <<Undefined, Undefined>>]

Words == {"t0", "addt0", "background", "data", "fit", "fit fgb"}
Lines == [word : Words, n : Seq(Int)]

Line(word, n) == [word |-> word, n |-> n]

-----------------------------------------------------------------------------
(* PMsrRunBlock. *)

GetAt(s, i) == IF i \in DOMAIN s THEN s[i] ELSE None

(* SetT0Bin: what the vector grows by is zero, not None. *)
SetAt(s, i, v) ==
  IF i \in DOMAIN s THEN [s EXCEPT ![i] = v]
    ELSE s \o [j \in 1..(i - Len(s)) |-> IF j = i - Len(s) THEN v ELSE 0]

GetAddT0(b, k, d) == IF k \in DOMAIN b.addT0 THEN GetAt(b.addT0[k], d) ELSE None

SetAddT0(b, k, d, v) ==
  LET grown == b.addT0 \o [j \in 1..(k - Len(b.addT0)) |-> <<>>]
  IN  [b EXCEPT !.addT0 = [grown EXCEPT ![k] = SetAt(@, d, v)]]

-----------------------------------------------------------------------------
(* HandleRunEntry, HandleGlobalEntry. *)

Overwritten(range, n) == [i \in 1..4 |-> IF i <= Len(n) THEN n[i] ELSE range[i]]

(* Without '-n1' it is the first offset that is set to zero. *)
ReadOffset(n) ==
  <<IF n[1] = None \/ n[2] = None THEN 0 ELSE n[1], n[2]>>

ReadLine(b, l) ==
  CASE l.word = "t0"         -> [b EXCEPT !.t0 = @ \o l.n]
    [] l.word = "addt0"      -> [b EXCEPT !.addT0 = Append(@, l.n)]
    [] l.word = "background" -> [b EXCEPT !.bkg = Overwritten(@, l.n)]
    [] l.word = "data"       -> [b EXCEPT !.data = Overwritten(@, l.n)]
    [] l.word = "fit"        -> [b EXCEPT !.time = l.n]
    [] l.word = "fit fgb"    -> [b EXCEPT !.inBins = TRUE, !.offset = ReadOffset(l.n)]

ReadBlock(lines) == FoldLeft(ReadLine, NoBlock, lines)

LegalLine(l) ==
  CASE l.word \in {"t0", "addt0"} -> l.n # <<>> /\ \A i \in DOMAIN l.n : l.n[i] >= 0
    [] l.word \in {"background", "data"} ->
         l.n # <<>> /\ Len(l.n) % 2 = 0 /\ \A i \in DOMAIN l.n : l.n[i] > 0
    [] OTHER -> Len(l.n) = 2

(* The data line of the GLOBAL block is looked at less closely. *)
LegalGlobalLine(l) ==
  IF l.word = "data" THEN Len(l.n) >= 2 /\ \A i \in DOMAIN l.n : l.n[i] >= 0
    ELSE LegalLine(l)

InTime(b) == \A i \in 1..2 : b.time[i] # Undefined

(* CheckRunBlockIntegrity: a fit range there must be; that of the GLOBAL   *)
(* block counts for an asymmetry fit only if it is given in time.          *)
HasFitRange(single, run, global) ==
  run.inBins \/ InTime(run) \/ InTime(global) \/ (single /\ global.inBins)

(* CheckAddRunParameters. *)
AddT0sMatch(addRuns, run) == addRuns = 0 \/ Len(run.addT0) \in {0, addRuns}

Legal(file, single, addRuns) ==
  /\ \A i \in DOMAIN file.run : LegalLine(file.run[i])
  /\ \A i \in DOMAIN file.global : LegalGlobalLine(file.global[i])
  /\ HasFitRange(single, ReadBlock(file.run), ReadBlock(file.global))
  /\ AddT0sMatch(addRuns, ReadBlock(file.run))

-----------------------------------------------------------------------------
(* WriteMsrLogFile, GLOBAL and RUN block. *)

IfPositive(bin) == IF bin > 0 THEN <<bin>> ELSE <<>>

WriteRangeForward(word, range) ==   \* mutant
  Line(word, FlattenSeq([i \in 1..2 |-> IfPositive(range[i])]))

(* A bin is written if it is greater than zero. *)
WriteRange(word, range) == Line(word, FlattenSeq([i \in 1..4 |-> IfPositive(range[i])]))

(* A time of -1 ends the line. *)
WriteFit(b) ==
  IF b.inBins THEN Line("fit fgb", [i \in 1..2 |-> IF b.offset[i] > 0 THEN b.offset[i] ELSE None])
    ELSE Line("fit", IF b.time[1] = -1 THEN <<>>
                       ELSE IF b.time[2] = -1 THEN <<b.time[1]>> ELSE b.time)

Has(lines, word) == \E i \in DOMAIN lines : lines[i].word = word

Once(lines, words) ==
  \A i, j \in DOMAIN lines : lines[i].word \in words /\ lines[j].word \in words => i = j

AddT0LinesBefore(lines, i) ==
  Cardinality({j \in 1..(i - 1) : lines[j].word = "addt0"})

WriteAddT0(bins) == IF bins = <<>> THEN <<>> ELSE <<Line("addt0", bins)>>

(* What the block has no line for, in front of its fit line; there are no  *)
(* t0's for a run from ISIS.  An addt0 line counts if it comes before.     *)
WriteMissing(lines, i, b, isis) ==
  (IF ~Has(lines, "t0") /\ b.t0 # <<>> /\ ~isis THEN <<Line("t0", b.t0)>> ELSE <<>>)
  \o (IF isis THEN <<>>
      ELSE LET from == AddT0LinesBefore(lines, i)
           IN  FlattenSeq([k \in 1..(Len(b.addT0) - from) |-> WriteAddT0(b.addT0[from + k])]))
  \o (IF ~Has(lines, "background") /\ b.bkg[1] >= 0 THEN <<WriteRange("background", b.bkg)>> ELSE <<>>)
  \o (IF ~Has(lines, "data") /\ b.data[1] >= 0 THEN <<WriteRange("data", b.data)>> ELSE <<>>)

WriteLine(lines, i, b, isis) ==
  CASE lines[i].word = "t0"         -> <<Line("t0", b.t0)>>
    [] lines[i].word = "addt0"      -> <<Line("addt0", b.addT0[AddT0LinesBefore(lines, i) + 1])>>
    [] lines[i].word = "background" -> <<WriteRange("background", b.bkg)>>
    [] lines[i].word = "data"       -> <<WriteRange("data", b.data)>>
    [] OTHER                        -> WriteMissing(lines, i, b, isis) \o <<WriteFit(b)>>

WriteRun(lines, b, isis) ==
  FlattenSeq([i \in DOMAIN lines |-> WriteLine(lines, i, b, isis)])

WriteGlobal(lines, b) ==
  [i \in DOMAIN lines |->
     CASE lines[i].word = "data" -> WriteRange("data", b.data)
       [] lines[i].word \in {"fit", "fit fgb"} -> WriteFit(b)
       [] OTHER -> lines[i]]
=============================================================================
