------------------------------ MODULE Packing ------------------------------
(* any2many -rebin n: how the writers of PRunDataHandler pack the bins of  *)
(* the histograms of a run.  A histogram is the sequence of its counts,    *)
(* all histograms of a run have the same number of bins.                   *)
(*                                                                         *)
(* The writers share a loop over the bins.  In front of every n-th bin but *)
(* the first it gives away the sum so far and goes on with that bin.       *)
EXTENDS Integers, Sequences, SequencesExt

NoOfPacks(len, n) == (len - 1) \div n

ClosesEarly(j, n) == j % n = 0   \* mutant
Closes(j, n) == j > 1 /\ (j - 1) % n = 0

Filled(h, len) == h \o [k \in 1..(len - Len(h)) |-> 0]

(* One histogram: sum is what is in the sum before and behind.  The bin    *)
(* that closes a pack begins the next one, or is left out.                 *)
AddBin(h, n, kept, acc, j) ==
  IF Closes(j, n) THEN [sum |-> IF kept THEN h[j] ELSE 0, packs |-> Append(acc.packs, acc.sum)]
                  ELSE [acc EXCEPT !.sum = @ + h[j]]
Loop(h, n, kept, sum0) ==
  FoldLeftDomain(LAMBDA acc, j : AddBin(h, n, kept, acc, j), [sum |-> sum0, packs |-> <<>>], h)

(* All of them: the sum is set to zero when it is given away, but not in   *)
(* front of the next histogram.                                            *)
AddHisto(n, acc, h) ==
  LET loop == Loop(h, n, TRUE, acc.sum)
  IN  [sum |-> loop.sum, histos |-> Append(acc.histos, loop.packs)]
LoopSet(hs, n) ==
  FoldLeft(LAMBDA acc, h : AddHisto(n, acc, h), [sum |-> 0, histos |-> <<>>], hs).histos

-----------------------------------------------------------------------------
(* The writers. *)

OutFormats == {"musrroot", "root", "nexus1-hdf5", "psi-bin", "mud", "wkm", "ascii"}

(* A TH1F with a bin more than there are packs to expect. *)
Th1f(packs, hs, n) == [i \in DOMAIN hs |-> Filled(packs[i], Len(hs[i]) \div n + 1)]

WriteMusrRoot(hs, n) == Th1f(IF n = 1 THEN hs ELSE LoopSet(hs, n), hs, n)
WriteRoot(hs, n)     == Th1f(IF n = 1 THEN hs ELSE LoopSet(hs, n), hs, n)
WriteNexus(hs, n)    == IF n = 1 THEN hs ELSE LoopSet(hs, n)
WritePsiBin(hs, n)   == IF n = 1 THEN hs ELSE LoopSet(hs, n)

(* The loop is there for n = 1, too, and the length that of the first one. *)
WriteMud(hs, n) ==
  LET packs == LoopSet(hs, n)
  IN  [i \in DOMAIN hs |-> Filled(packs[i], Len(hs[1]) \div n + 1)]

(* The sum begins with zero, and the bin that closes a pack is in no pack. *)
WriteWkm(hs, n) == IF n = 1 THEN hs ELSE [i \in DOMAIN hs |-> Loop(hs[i], n, FALSE, 0).packs]

(* The sum begins with the first bin, which the loop adds, too. *)
WriteAscii(hs, n) ==
  IF n = 1 THEN hs ELSE [i \in DOMAIN hs |-> Loop(hs[i], n, TRUE, hs[i][1]).packs]

Packed(format, hs, n) ==
  CASE format = "musrroot"    -> WriteMusrRoot(hs, n)
    [] format = "root"        -> WriteRoot(hs, n)
    [] format = "nexus1-hdf5" -> WriteNexus(hs, n)
    [] format = "psi-bin"     -> WritePsiBin(hs, n)
    [] format = "mud"         -> WriteMud(hs, n)
    [] format = "wkm"         -> WriteWkm(hs, n)
    [] format = "ascii"       -> WriteAscii(hs, n)

-----------------------------------------------------------------------------
(* What a pack is to hold. *)

Total(h) == FoldLeft(LAMBDA total, bin : total + bin, 0, h)
Pack(h, k, n) == Total(SubSeq(h, (k - 1) * n + 1, k * n))
=============================================================================
