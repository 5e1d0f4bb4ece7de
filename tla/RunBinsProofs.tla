----------------------------- MODULE RunBinsProofs -----------------------------
(***************************************************************************)
(* Theorems about RunBins: the preparation of a run for a fit, session     *)
(* after session.                                                          *)
(***************************************************************************)
EXTENDS RunBins, SequenceTheorems, FiniteSetTheorems, WellFoundedInduction, TLAPS

-----------------------------------------------------------------------------
(* Loops: what a recursive function and the folds of the model compute.    *)

LEMMA LeastNumber ==
  ASSUME NEW S, S # {}, S \subseteq Nat
  PROVE  \E n \in S : \A l \in S : n <= l
<1>1. \E n \in S : \A l \in S : ~(<<l, n>> \in OpToRel(<, Nat))
  BY WFMin, NatLessThanWellFounded
<1>2. PICK n \in S : \A l \in S : ~(<<l, n>> \in OpToRel(<, Nat))
  BY <1>1
<1>3. ASSUME NEW l \in S PROVE n <= l
  <2>1. ~(l < n)
    BY <1>2 DEF OpToRel
  <2> QED BY <2>1
<1> QED BY <1>3

(* A set of numbers that has the first and with each the next has all.     *)
LEMMA UpTo ==
  ASSUME NEW n \in Nat, NEW S, 0 \in S, \A i \in 0..(n - 1) : i \in S => i + 1 \in S
  PROVE  0..n \subseteq S
<1>1. SUFFICES ASSUME NEW T, T = {i \in 0..n : i \notin S}, T # {} PROVE FALSE
  OBVIOUS
<1>2. PICK m \in T : \A l \in T : m <= l
  BY <1>1, LeastNumber
<1>3. m \in 1..n
  BY <1>1
<1>4. m - 1 \in 0..(n - 1) /\ m - 1 \in S
  BY <1>1, <1>2, <1>3
<1>5. (m - 1) + 1 = m
  BY <1>3
<1> QED
  BY <1>1, <1>4, <1>5

(* Step i of a loop makes f[i] of what the step before has left. *)
Runs(f, start, step, n) == f[0] = start /\ \A i \in 1..n : f[i] = step[<<f[i - 1], i>>]

(* A loop can be run: step by step, each value is made from the one before. *)
LEMMA LoopRuns ==
  ASSUME NEW n \in Nat, NEW S, NEW start \in S, NEW step \in [S \X (1..n) -> S]
  PROVE  \E f \in [0..n -> S] : Runs(f, start, step, n)
<1>0. PICK able : able = {m \in 0..n : \E f \in [0..n -> S] : Runs(f, start, step, m)}
  OBVIOUS
<1>1. 0 \in able
  <2>1. PICK f : f = [i \in 0..n |-> start]
    OBVIOUS
  <2>2. f \in [0..n -> S] /\ f[0] = start
    BY <2>1
  <2>3. Runs(f, start, step, 0)
    BY <2>2 DEF Runs
  <2> QED BY <1>0, <2>2, <2>3
<1>2. ASSUME NEW m \in 0..(n - 1), m \in able PROVE m + 1 \in able
  <2>1. PICK f \in [0..n -> S] : Runs(f, start, step, m)
    BY <1>0, <1>2
  <2>2. PICK v : v = step[<<f[m], m + 1>>]
    OBVIOUS
  <2>3. m \in 0..n /\ m + 1 \in 1..n
    OBVIOUS
  <2>4. f[m] \in S
    BY <2>3
  <2>5. v \in S
    BY <2>2, <2>3, <2>4
  <2>6. PICK g : g = [f EXCEPT ![m + 1] = v]
    OBVIOUS
  <2>7. m + 1 \in 0..n
    OBVIOUS
  <2>8. g \in [0..n -> S] /\ g[m + 1] = v
    BY <2>5, <2>6, <2>7
  <2>9. \A i \in 0..m : g[i] = f[i]
    BY <2>6
  <2>10. g[0] = start
    BY <2>1, <2>9 DEF Runs
  <2>11. ASSUME NEW i \in 1..(m + 1) PROVE g[i] = step[<<g[i - 1], i>>]
    <3>1. i - 1 \in 0..m
      OBVIOUS
    <3>2. g[i - 1] = f[i - 1]
      BY <2>9, <3>1
    <3>3. CASE i = m + 1
      <4>1. i - 1 = m
        BY <3>3
      <4> QED BY <2>2, <2>8, <3>2, <3>3, <4>1
    <3>4. CASE i \in 1..m
      <4>1. f[i] = step[<<f[i - 1], i>>]
        BY <2>1, <3>4 DEF Runs
      <4> QED BY <2>9, <3>2, <3>4, <4>1
    <3> QED BY <3>3, <3>4
  <2>12. Runs(g, start, step, m + 1)
    BY <2>10, <2>11 DEF Runs
  <2> QED BY <1>0, <2>7, <2>8, <2>12
<1>3. 0..n \subseteq able
  BY <1>1, <1>2, UpTo
<1>4. n \in able
  BY <1>3
<1> QED BY <1>0, <1>4 DEF Runs

LEMMA MaxIs ==
  ASSUME NEW n \in Nat, NEW s \in SUBSET (1..n), s # {}
  PROVE  Max(s) \in s /\ \A l \in s : l <= Max(s)
<1>1. PICK T : T = {n - l : l \in s}
  OBVIOUS
<1>2. T # {} /\ T \subseteq Nat
  <2>1. ASSUME NEW t \in T PROVE t \in Nat
    <3>1. PICK l \in s : t = n - l
      BY <1>1, Zenon
    <3> QED BY <3>1
  <2>2. PICK l \in s : TRUE
    OBVIOUS
  <2>3. n - l \in T
    BY <1>1
  <2> QED BY <2>1, <2>3
<1>3. PICK m \in T : \A l \in T : m <= l
  BY <1>2, LeastNumber
<1>4. PICK x \in s : m = n - x
  BY <1>1
<1>5. ASSUME NEW l \in s PROVE x >= l
  <2>1. n - l \in T
    BY <1>1
  <2>2. n - x <= n - l
    BY <1>3, <1>4, <2>1
  <2> QED BY <2>2
<1>6. \E y \in s : \A l \in s : y >= l
  BY <1>5
<1>7. Max(s) \in s /\ \A l \in s : Max(s) >= l
  BY <1>6, Zenon DEF Max
<1> QED BY <1>7

FoldsTo(h, start, step, n) ==
  \A s \in SUBSET (1..n) : h[s] = IF s = {} THEN start ELSE step[<<h[s \ {Max(s)}], Max(s)>>]

(* The function that MapThenFoldSet defines by recursion on the set of the  *)
(* indices that are left, the greatest of which is taken last, exists.     *)
LEMMA FoldRuns ==
  ASSUME NEW n \in Nat, NEW S, NEW start \in S, NEW step \in [S \X (1..n) -> S]
  PROVE  \E h \in [SUBSET (1..n) -> S] : FoldsTo(h, start, step, n)
<1>1. PICK sets : sets = SUBSET (1..n)
  OBVIOUS
<1>2. PICK maps : maps = [sets -> S]
  OBVIOUS
<1>3. PICK first : first = [s \in sets |-> start]
  OBVIOUS
<1>4. first \in maps
  BY <1>2, <1>3
<1>5. PICK next : next = [a \in maps \X (1..n) |->
                            [s \in sets |-> IF a[2] \in s THEN step[<<a[1][s \ {a[2]}], a[2]>>] ELSE a[1][s]]]
  OBVIOUS
<1>6. ASSUME NEW g \in maps, NEW i \in 1..n
      PROVE  /\ next[<<g, i>>] \in maps
             /\ \A s \in sets : next[<<g, i>>][s] = IF i \in s THEN step[<<g[s \ {i}], i>>] ELSE g[s]
  <2>1. PICK g2 : g2 = [s \in sets |-> IF i \in s THEN step[<<g[s \ {i}], i>>] ELSE g[s]]
    OBVIOUS
  <2>2. next[<<g, i>>] = g2
    BY <1>5, <2>1
  <2>3. ASSUME NEW s \in sets PROVE (IF i \in s THEN step[<<g[s \ {i}], i>>] ELSE g[s]) \in S
    <3>1. s \ {i} \in sets
      BY <1>1
    <3>2. g[s] \in S /\ g[s \ {i}] \in S
      BY <1>2, <3>1
    <3> QED BY <3>2
  <2>4. g2 \in maps
    BY <1>2, <2>1, <2>3
  <2> QED BY <2>1, <2>2, <2>4
<1>7. next \in [maps \X (1..n) -> maps]
  <2>1. ASSUME NEW a \in maps \X (1..n) PROVE next[a] \in maps
    <3>1. PICK g \in maps, i \in 1..n : a = <<g, i>>
      OBVIOUS
    <3> QED BY <1>6, <3>1
  <2>2. next = [a \in maps \X (1..n) |-> next[a]]
    BY <1>5
  <2> QED BY <2>1, <2>2
<1>8. PICK H \in [0..n -> maps] : H[0] = first /\ \A i \in 1..n : H[i] = next[<<H[i - 1], i>>]
  <2>1. \E H \in [0..n -> maps] : Runs(H, first, next, n)
    BY <1>4, <1>7, LoopRuns, Zenon
  <2> QED BY <2>1 DEF Runs
<1>9. ASSUME NEW i \in 1..n, NEW s \in sets
      PROVE  H[i][s] = IF i \in s THEN step[<<H[i - 1][s \ {i}], i>>] ELSE H[i - 1][s]
  <2>1. i - 1 \in 0..n
    OBVIOUS
  <2>2. PICK g : g = H[i - 1]
    OBVIOUS
  <2>3. g \in maps
    BY <2>1, <2>2
  <2>4. H[i] = next[<<g, i>>]
    BY <1>8, <2>2
  <2>5. \A z \in sets : next[<<g, i>>][z] = IF i \in z THEN step[<<g[z \ {i}], i>>] ELSE g[z]
    BY <1>6, <2>3
  <2> QED BY <2>2, <2>4, <2>5
(* From the greatest index of a set on nothing changes. *)
<1>10. ASSUME NEW m \in 0..n, NEW s \in SUBSET (1..m) PROVE H[n][s] = H[m][s]
  <2>1. PICK same : same = {j \in 0..(n - m) : H[m + j][s] = H[m][s]}
    OBVIOUS
  <2>2. 0 \in same
    BY <2>1
  <2>3. ASSUME NEW j \in 0..((n - m) - 1), j \in same PROVE j + 1 \in same
    <3>1. m + j + 1 \in 1..n /\ (m + j + 1) - 1 = m + j /\ m + j + 1 \notin s /\ j + 1 \in 0..(n - m)
      OBVIOUS
    <3>2. s \in sets
      BY <1>1
    <3>3. PICK i : i = m + j + 1
      OBVIOUS
    <3>4. H[i][s] = H[i - 1][s]
      <4>1. i \in 1..n /\ i \notin s
        BY <3>1, <3>3
      <4> QED BY <1>9, <3>2, <4>1, Zenon
    <3>5. i - 1 = m + j /\ i = m + (j + 1)
      BY <3>1, <3>3
    <3> QED BY <2>1, <2>3, <3>1, <3>4, <3>5
  <2>4. n - m \in Nat
    OBVIOUS
  <2>5. 0..(n - m) \subseteq same
    BY <2>2, <2>3, <2>4, UpTo, Zenon
  <2>7. n - m \in same
    BY <2>4, <2>5
  <2>6. m + (n - m) = n
    OBVIOUS
  <2> QED BY <2>1, <2>6, <2>7
<1>11. PICK h : h = H[n]
  OBVIOUS
<1>12. h \in [SUBSET (1..n) -> S]
  <2>1. n \in 0..n
    OBVIOUS
  <2> QED BY <1>1, <1>2, <1>11, <2>1
<1>13. ASSUME NEW s \in SUBSET (1..n)
       PROVE  h[s] = IF s = {} THEN start ELSE step[<<h[s \ {Max(s)}], Max(s)>>]
  <2>1. CASE s = {}
    <3>1. {} \in SUBSET (1..0) /\ 0 \in 0..n
      OBVIOUS
    <3>2. H[n][{}] = H[0][{}]
      BY <1>10, <3>1
    <3>3. {} \in sets
      BY <1>1
    <3> QED BY <1>3, <1>8, <1>11, <2>1, <3>2, <3>3
  <2>2. CASE s # {}
    <3>1. PICK x : x = Max(s)
      OBVIOUS
    <3>2. x \in s /\ \A l \in s : l <= x
      BY <2>2, <3>1, MaxIs
    <3>3. x \in 1..n /\ x \in 0..n /\ x - 1 \in 0..n
      BY <3>2
    <3>4. s \in SUBSET (1..x) /\ s \ {x} \in SUBSET (1..(x - 1))
      BY <3>2, <3>3
    <3>5. H[n][s] = H[x][s]
      BY <1>10, <3>3, <3>4
    <3>6. H[n][s \ {x}] = H[x - 1][s \ {x}]
      BY <1>10, <3>3, <3>4
    <3>7. H[x][s] = step[<<H[x - 1][s \ {x}], x>>]
      <4>1. x \in 1..n /\ x \in s /\ s \in sets
        BY <1>1, <3>2, <3>3
      <4> QED BY <1>9, <4>1, Zenon
    <3> QED BY <1>11, <2>2, <3>1, <3>5, <3>6, <3>7
  <2> QED BY <2>1, <2>2
<1> QED BY <1>12, <1>13 DEF FoldsTo

LEMMA MaxUpTo ==
  ASSUME NEW n \in Nat, NEW i \in 1..n
  PROVE  1..i \in SUBSET (1..n) /\ 1..i # {} /\ Max(1..i) = i /\ (1..i) \ {i} = 1..(i - 1)
<1>1. PICK s : s = 1..i
  OBVIOUS
<1>2. s \in SUBSET (1..n) /\ i \in s
  BY <1>1
<1>3. PICK x : x = Max(s)
  OBVIOUS
<1>4. x \in s /\ i <= x
  BY <1>2, <1>3, MaxIs
<1>5. x = i
  BY <1>1, <1>4
<1> QED
  BY <1>1, <1>2, <1>3, <1>5

-----------------------------------------------------------------------------
(* ReadBlock line by line. *)

Blocks(lines) ==
  [t0 : Seq(Int), addT0 : Seq(Seq(Int)), bkg : [1..4 -> Int], data : [1..4 -> Int], inBins : BOOLEAN,
   offset : {NoBlock.offset} \cup {ReadOffset(lines[i].n) : i \in DOMAIN lines},
   time : {NoBlock.time} \cup {lines[i].n : i \in DOMAIN lines}]

LEMMA OverwrittenIs ==
  ASSUME NEW range \in [1..4 -> Int], NEW n \in Seq(Int)
  PROVE  Overwritten(range, n) \in [1..4 -> Int]
<1>1. ASSUME NEW i \in 1..4 PROVE (IF i <= Len(n) THEN n[i] ELSE range[i]) \in Int
  <2>1. CASE i <= Len(n)
    <3>1. i \in 1..Len(n)
      BY <2>1
    <3> QED BY <2>1, <3>1
  <2>2. CASE ~(i <= Len(n))
    BY <2>2
  <2> QED BY <2>1, <2>2
<1> QED BY <1>1 DEF Overwritten

LEMMA ReadLineIs ==
  ASSUME NEW lines \in Seq(Lines), NEW b \in Blocks(lines), NEW i \in DOMAIN lines
  PROVE  ReadLine(b, lines[i]) \in Blocks(lines)
<1>1. PICK l : l = lines[i]
  OBVIOUS
<1>2. l \in Lines /\ ReadOffset(l.n) \in {ReadOffset(lines[j].n) : j \in DOMAIN lines}
      /\ l.n \in {lines[j].n : j \in DOMAIN lines}
  BY <1>1
<1>3. l.n \in Seq(Int) /\ l.word \in Words
  BY <1>2 DEF Lines
<1>4. Overwritten(b.bkg, l.n) \in [1..4 -> Int] /\ Overwritten(b.data, l.n) \in [1..4 -> Int]
  BY <1>3, OverwrittenIs DEF Blocks
<1>5. b.t0 \o l.n \in Seq(Int) /\ Append(b.addT0, l.n) \in Seq(Seq(Int))
  BY <1>3 DEF Blocks
<1>6. PICK offset, bkg, data, t0, addT0 :
        /\ offset = ReadOffset(l.n) /\ bkg = Overwritten(b.bkg, l.n) /\ data = Overwritten(b.data, l.n)
        /\ t0 = b.t0 \o l.n /\ addT0 = Append(b.addT0, l.n)
  OBVIOUS
<1>7. PICK offsets, times : /\ offsets = {NoBlock.offset} \cup {ReadOffset(lines[j].n) : j \in DOMAIN lines}
                            /\ times = {NoBlock.time} \cup {lines[j].n : j \in DOMAIN lines}
  OBVIOUS
<1>8. PICK blocks : blocks = [t0 : Seq(Int), addT0 : Seq(Seq(Int)), bkg : [1..4 -> Int], data : [1..4 -> Int],
                              inBins : BOOLEAN, offset : offsets, time : times]
  OBVIOUS
<1>9. b \in blocks /\ blocks = Blocks(lines)
  BY <1>7, <1>8 DEF Blocks
<1>10. /\ offset \in offsets /\ l.n \in times
       /\ bkg \in [1..4 -> Int] /\ data \in [1..4 -> Int] /\ t0 \in Seq(Int) /\ addT0 \in Seq(Seq(Int))
  BY <1>2, <1>4, <1>5, <1>6, <1>7
<1>11. ReadLine(b, l) =
         CASE l.word = "t0"         -> [b EXCEPT !.t0 = t0]
           [] l.word = "addt0"      -> [b EXCEPT !.addT0 = addT0]
           [] l.word = "background" -> [b EXCEPT !.bkg = bkg]
           [] l.word = "data"       -> [b EXCEPT !.data = data]
           [] l.word = "fit"        -> [b EXCEPT !.time = l.n]
           [] l.word = "fit fgb"    -> [b EXCEPT !.inBins = TRUE, !.offset = offset]
  BY <1>6 DEF ReadLine
<1>12. ReadLine(b, l) \in blocks
  <2>1. CASE l.word = "t0"
    BY <1>8, <1>9, <1>10, <1>11, <2>1
  <2>2. CASE l.word = "addt0"
    BY <1>8, <1>9, <1>10, <1>11, <2>2
  <2>3. CASE l.word = "background"
    BY <1>8, <1>9, <1>10, <1>11, <2>3
  <2>4. CASE l.word = "data"
    BY <1>8, <1>9, <1>10, <1>11, <2>4
  <2>5. CASE l.word = "fit"
    BY <1>8, <1>9, <1>10, <1>11, <2>5
  <2>6. CASE l.word = "fit fgb"
    BY <1>8, <1>9, <1>10, <1>11, <2>6
  <2> QED BY <1>3, <2>1, <2>2, <2>3, <2>4, <2>5, <2>6 DEF Words
<1> QED BY <1>1, <1>9, <1>12

LEMMA NoBlockIs ==
  ASSUME NEW lines PROVE NoBlock \in Blocks(lines)
<1>1. PICK offset, time : offset = NoBlock.offset /\ time = NoBlock.time
  OBVIOUS
<1>2. NoBlock.offset = <<None, None>> /\ NoBlock.time = <<Undefined, Undefined>>
  BY DEF NoBlock
<1>3. NoRange \in [1..4 -> Int]
  BY DEF NoRange, None
<1> QED BY <1>2, <1>3 DEF Blocks, NoBlock

(* What ReadBlock has read after each line. *)
ReadsOf(lines, f) ==
  /\ f \in [0..Len(lines) -> Blocks(lines)]
  /\ f[0] = NoBlock
  /\ \A i \in 1..Len(lines) : f[i] = ReadLine(f[i - 1], lines[i])
  /\ ReadBlock(lines) = f[Len(lines)]

LEMMA Reads ==
  ASSUME NEW lines \in Seq(Lines)
  PROVE  \E f : ReadsOf(lines, f)
<1>1. PICK n \in Nat : n = Len(lines) /\ DOMAIN lines = 1..n
  OBVIOUS
<1>2. PICK S : S = Blocks(lines)
  OBVIOUS
<1>3. NoBlock \in S
  BY <1>2, NoBlockIs
<1>4. PICK step : step = [a \in S \X (1..n) |-> ReadLine(a[1], lines[a[2]])]
  OBVIOUS
<1>5. \A b \in S, i \in 1..n : step[<<b, i>>] = ReadLine(b, lines[i])
  BY <1>4
<1>6. step \in [S \X (1..n) -> S]
  <2>1. ASSUME NEW a \in S \X (1..n) PROVE ReadLine(a[1], lines[a[2]]) \in S
    <3>1. a[1] \in Blocks(lines) /\ a[2] \in DOMAIN lines
      BY <1>1, <1>2
    <3> QED BY <1>2, <3>1, ReadLineIs
  <2> QED BY <1>4, <2>1
<1>7. PICK g \in [SUBSET (1..n) -> S] : FoldsTo(g, NoBlock, step, n)
  BY <1>3, <1>6, FoldRuns, Zenon
<1>8. \A s \in SUBSET (1..n) :
          g[s] = IF s = {} THEN NoBlock ELSE ReadLine(g[s \ {Max(s)}], lines[Max(s)])
  <2>1. ASSUME NEW s \in SUBSET (1..n), s # {}
        PROVE  step[<<g[s \ {Max(s)}], Max(s)>>] = ReadLine(g[s \ {Max(s)}], lines[Max(s)])
    <3>1. PICK x : x = Max(s)
      OBVIOUS
    <3>2. x \in 1..n
      BY <2>1, <3>1, MaxIs
    <3>3. g[s \ {x}] \in S
      OBVIOUS
    <3> QED BY <1>5, <3>1, <3>2, <3>3
  <2> QED BY <1>7, <2>1 DEF FoldsTo
<1>9. g = [s \in SUBSET (1..n) |-> IF s = {} THEN NoBlock
                                   ELSE ReadLine(g[s \ {Max(s)}], lines[Max(s)])]
  BY <1>8
<1>10. PICK h : h = CHOOSE z : z = [s \in SUBSET (1..n) |-> IF s = {} THEN NoBlock
                                   ELSE ReadLine(z[s \ {Max(s)}], lines[Max(s)])]
  OBVIOUS
<1>11. h = [s \in SUBSET (1..n) |-> IF s = {} THEN NoBlock
                                   ELSE ReadLine(h[s \ {Max(s)}], lines[Max(s)])]
  BY <1>9, <1>10, Zenon
<1>12. ReadBlock(lines) = h[1..n]
  BY <1>1, <1>10, Zenon DEF ReadBlock, FoldLeft, MapThenFoldSet
<1>13. PICK f : f = [i \in 0..n |-> h[1..i]]
  OBVIOUS
<1>14. f[0] = NoBlock
  BY <1>11, <1>13
<1>15. ASSUME NEW i \in 1..n PROVE f[i] = ReadLine(f[i - 1], lines[i])
  <2>1. 1..i \in SUBSET (1..n) /\ 1..i # {} /\ Max(1..i) = i /\ (1..i) \ {i} = 1..(i - 1)
    BY MaxUpTo
  <2>2. h[1..i] = ReadLine(h[1..(i - 1)], lines[i])
    BY <1>11, <2>1
  <2>3. i \in 0..n /\ i - 1 \in 0..n
    OBVIOUS
  <2> QED BY <1>13, <2>2, <2>3
<1>16. PICK good1 : good1 = {i \in 0..n : f[i] \in S}
  OBVIOUS
<1>17. ASSUME NEW i \in 0..(n - 1), i \in good1 PROVE i + 1 \in good1
  <2>1. i + 1 \in 1..n /\ i + 1 \in 0..n /\ (i + 1) - 1 = i
    OBVIOUS
  <2>2. f[i + 1] = ReadLine(f[i], lines[i + 1])
    BY <1>15, <2>1
  <2> QED BY <1>1, <1>2, <1>16, <1>17, <2>1, <2>2, ReadLineIs
<1>18. 0..n \subseteq good1
  <2>1. 0 \in good1
    BY <1>3, <1>14, <1>16
  <2> QED BY <1>17, <2>1, UpTo
<1>19. f \in [0..n -> S]
  BY <1>13, <1>16, <1>18
<1>20. n \in 0..n
  OBVIOUS
<1>21. ReadBlock(lines) = f[n]
  BY <1>12, <1>13, <1>20
<1>22. ReadsOf(lines, f)
  BY <1>1, <1>2, <1>14, <1>15, <1>19, <1>21 DEF ReadsOf
<1> QED BY <1>22

LEMMA ReadNothing ==
  ReadBlock(<<>>) = NoBlock
<1>1. <<>> \in Seq(Lines) /\ Len(<<>>) = 0
  OBVIOUS
<1>2. PICK f : ReadsOf(<<>>, f)
  BY <1>1, Reads, Zenon
<1> QED BY <1>1, <1>2 DEF ReadsOf

LEMMA ReadAppend ==
  ASSUME NEW lines \in Seq(Lines), NEW l \in Lines
  PROVE  ReadBlock(Append(lines, l)) = ReadLine(ReadBlock(lines), l)
<1>1. PICK more : more = Append(lines, l)
  OBVIOUS
<1>2. PICK n \in Nat : n = Len(lines)
  OBVIOUS
<1>3. more \in Seq(Lines) /\ Len(more) = n + 1 /\ more[n + 1] = l
  BY <1>1, <1>2
<1>4. \A i \in 1..n : more[i] = lines[i]
  BY <1>1, <1>2
<1>5. PICK f : ReadsOf(lines, f)
  BY Reads
<1>6. PICK g : ReadsOf(more, g)
  BY <1>3, Reads
<1>7. PICK same : same = {i \in 0..n : g[i] = f[i]}
  OBVIOUS
<1>8. 0 \in same
  BY <1>5, <1>6, <1>7 DEF ReadsOf
<1>9. ASSUME NEW i \in 0..(n - 1), i \in same PROVE i + 1 \in same
  <2>1. i + 1 \in 1..n /\ i + 1 \in 0..n /\ i + 1 \in 1..(n + 1) /\ (i + 1) - 1 = i
    OBVIOUS
  <2>2. PICK j : j = i + 1
    OBVIOUS
  <2>3. f[j] = ReadLine(f[j - 1], lines[j])
    BY <1>2, <1>5, <2>1, <2>2 DEF ReadsOf
  <2>4. g[j] = ReadLine(g[j - 1], more[j])
    BY <1>3, <1>6, <2>1, <2>2 DEF ReadsOf
  <2> QED BY <1>4, <1>7, <1>9, <2>1, <2>2, <2>3, <2>4
<1>10. 0..n \subseteq same
  BY <1>8, <1>9, UpTo
<1>11. n \in same
  BY <1>10
<1>12. n + 1 \in 1..(n + 1) /\ (n + 1) - 1 = n
  OBVIOUS
<1>13. g[n + 1] = ReadLine(g[n], l)
  BY <1>3, <1>6, <1>12 DEF ReadsOf
<1>14. ReadBlock(lines) = f[n] /\ ReadBlock(more) = g[n + 1]
  BY <1>2, <1>3, <1>5, <1>6 DEF ReadsOf
<1> QED BY <1>1, <1>7, <1>11, <1>13, <1>14

LEMMA ReadBlockIs ==
  ASSUME NEW lines \in Seq(Lines)
  PROVE  ReadBlock(lines) \in Blocks(lines)
<1>1. PICK f : ReadsOf(lines, f)
  BY Reads
<1>2. Len(lines) \in 0..Len(lines)
  OBVIOUS
<1> QED BY <1>1, <1>2 DEF ReadsOf

LEMMA ReadT0s ==
  ASSUME NEW lines \in Seq(Lines), NEW b \in Blocks(lines), NEW l \in Lines
  PROVE  /\ ReadLine(b, l).t0 = IF l.word = "t0" THEN b.t0 \o l.n ELSE b.t0
         /\ ReadLine(b, l).addT0 = IF l.word = "addt0" THEN Append(b.addT0, l.n) ELSE b.addT0
         /\ ReadLine(b, l).offset = IF l.word = "fit fgb" THEN ReadOffset(l.n) ELSE b.offset
         /\ ReadLine(b, l).time = IF l.word = "fit" THEN l.n ELSE b.time
<1>1. l.word \in Words
  BY DEF Lines
<1>2. PICK offset, bkg, data, t0, addT0 :
        /\ offset = ReadOffset(l.n) /\ bkg = Overwritten(b.bkg, l.n) /\ data = Overwritten(b.data, l.n)
        /\ t0 = b.t0 \o l.n /\ addT0 = Append(b.addT0, l.n)
  OBVIOUS
<1>3. ReadLine(b, l) =
         CASE l.word = "t0"         -> [b EXCEPT !.t0 = t0]
           [] l.word = "addt0"      -> [b EXCEPT !.addT0 = addT0]
           [] l.word = "background" -> [b EXCEPT !.bkg = bkg]
           [] l.word = "data"       -> [b EXCEPT !.data = data]
           [] l.word = "fit"        -> [b EXCEPT !.time = l.n]
           [] l.word = "fit fgb"    -> [b EXCEPT !.inBins = TRUE, !.offset = offset]
  BY <1>2 DEF ReadLine
<1>4. PICK bkgs, offsets, times :
        /\ bkgs = [1..4 -> Int]
        /\ offsets = {NoBlock.offset} \cup {ReadOffset(lines[j].n) : j \in DOMAIN lines}
        /\ times = {NoBlock.time} \cup {lines[j].n : j \in DOMAIN lines}
  OBVIOUS
<1>5. b \in [t0 : Seq(Int), addT0 : Seq(Seq(Int)), bkg : bkgs, data : bkgs, inBins : BOOLEAN,
              offset : offsets, time : times]
  BY <1>4 DEF Blocks
<1>6. PICK b2 : b2 = ReadLine(b, l)
  OBVIOUS
<1>7. /\ b2.t0 = IF l.word = "t0" THEN t0 ELSE b.t0
      /\ b2.addT0 = IF l.word = "addt0" THEN addT0 ELSE b.addT0
      /\ b2.offset = IF l.word = "fit fgb" THEN offset ELSE b.offset
      /\ b2.time = IF l.word = "fit" THEN l.n ELSE b.time
  <2>1. CASE l.word = "t0"
    BY <1>3, <1>5, <1>6, <2>1
  <2>2. CASE l.word = "addt0"
    BY <1>3, <1>5, <1>6, <2>2
  <2>3. CASE l.word = "background"
    BY <1>3, <1>5, <1>6, <2>3
  <2>4. CASE l.word = "data"
    BY <1>3, <1>5, <1>6, <2>4
  <2>5. CASE l.word = "fit"
    BY <1>3, <1>5, <1>6, <2>5
  <2>6. CASE l.word = "fit fgb"
    BY <1>3, <1>5, <1>6, <2>6
  <2> QED BY <1>1, <2>1, <2>2, <2>3, <2>4, <2>5, <2>6 DEF Words
<1> QED BY <1>2, <1>6, <1>7

LEMMA AppendToConcat ==
  ASSUME NEW S, NEW a \in Seq(S), NEW b \in Seq(S), NEW e \in S
  PROVE  Append(a \o b, e) = a \o Append(b, e)
<1>1. /\ Append(a \o b, e) \in Seq(S) /\ a \o Append(b, e) \in Seq(S)
      /\ Len(Append(a \o b, e)) = Len(a) + Len(b) + 1 /\ Len(a \o Append(b, e)) = Len(a) + Len(b) + 1
  OBVIOUS
<1>2. ASSUME NEW i \in 1..(Len(a) + Len(b) + 1)
      PROVE  Append(a \o b, e)[i] = (a \o Append(b, e))[i]
  OBVIOUS
<1>3. PICK u, v : u = Append(a \o b, e) /\ v = a \o Append(b, e)
  OBVIOUS
<1>4. u = v
  <2>1. \A i \in 1..Len(u) : u[i] = v[i]
    BY <1>1, <1>2, <1>3
  <2> QED BY <1>1, <1>3, <2>1, SeqEqual
<1> QED BY <1>3, <1>4

LEMMA ReadConcat ==
  ASSUME NEW s \in Seq(Lines), NEW t \in Seq(Lines)
  PROVE  /\ ReadBlock(s \o t).t0 = ReadBlock(s).t0 \o ReadBlock(t).t0
         /\ ReadBlock(s \o t).addT0 = ReadBlock(s).addT0 \o ReadBlock(t).addT0
<1>1. PICK n \in Nat : n = Len(t)
  OBVIOUS
<1> DEFINE Good(u) == /\ ReadBlock(s \o u).t0 = ReadBlock(s).t0 \o ReadBlock(u).t0
                      /\ ReadBlock(s \o u).addT0 = ReadBlock(s).addT0 \o ReadBlock(u).addT0
<1>2. PICK good2 : good2 = {m \in 0..n : Good(SubSeq(t, 1, m))}
  OBVIOUS
<1> HIDE DEF Good
<1>3. ReadBlock(s).t0 \in Seq(Int) /\ ReadBlock(s).addT0 \in Seq(Seq(Int))
  BY ReadBlockIs DEF Blocks
<1>4. 0 \in good2
  <2>1. SubSeq(t, 1, 0) = <<>> /\ s \o <<>> = s
    OBVIOUS
  <2>2. ReadBlock(<<>>).t0 = <<>> /\ ReadBlock(<<>>).addT0 = <<>>
    BY ReadNothing DEF NoBlock
  <2>3. Good(<<>>)
    <3>1. ReadBlock(s).t0 \o <<>> = ReadBlock(s).t0 /\ ReadBlock(s).addT0 \o <<>> = ReadBlock(s).addT0
      BY <1>3, ConcatEmptySeq
    <3> QED BY <2>1, <2>2, <3>1 DEF Good
  <2>4. 0 \in 0..n
    OBVIOUS
  <2> QED BY <1>2, <2>1, <2>3, <2>4, Zenon
<1>5. ASSUME NEW m \in 0..(n - 1), m \in good2 PROVE m + 1 \in good2
  <2>1. PICK u : u = SubSeq(t, 1, m)
    OBVIOUS
  <2>2. PICK l : l = t[m + 1]
    OBVIOUS
  <2>3. m + 1 \in 1..n /\ m + 1 \in 0..n
    OBVIOUS
  <2>4. u \in Seq(Lines) /\ l \in Lines
    BY <1>1, <2>1, <2>2, <2>3
  <2>5. SubSeq(t, 1, m + 1) = Append(u, l)
    BY <1>1, <2>1, <2>2, <2>3
  <2>6. PICK v : v = s \o u
    OBVIOUS
  <2>7. v \in Seq(Lines) /\ s \o Append(u, l) = Append(v, l)
    BY <2>4, <2>6
  <2>8. Good(u)
    BY <1>2, <1>5, <2>1
  <2>9. PICK rs, ru, rv : rs = ReadBlock(s) /\ ru = ReadBlock(u) /\ rv = ReadBlock(v)
    OBVIOUS
  <2>10. ru \in Blocks(u) /\ rv \in Blocks(v) /\ rs \in Blocks(s)
    BY <2>4, <2>7, <2>9, ReadBlockIs
  <2>11. ReadBlock(Append(u, l)) = ReadLine(ru, l) /\ ReadBlock(Append(v, l)) = ReadLine(rv, l)
    BY <2>4, <2>7, <2>9, ReadAppend
  <2>12. rv.t0 = rs.t0 \o ru.t0 /\ rv.addT0 = rs.addT0 \o ru.addT0
    BY <2>6, <2>8, <2>9 DEF Good
  <2>13. /\ ReadLine(ru, l).t0 = IF l.word = "t0" THEN ru.t0 \o l.n ELSE ru.t0
         /\ ReadLine(ru, l).addT0 = IF l.word = "addt0" THEN Append(ru.addT0, l.n) ELSE ru.addT0
    BY <2>4, <2>10, ReadT0s
  <2>14. /\ ReadLine(rv, l).t0 = IF l.word = "t0" THEN rv.t0 \o l.n ELSE rv.t0
         /\ ReadLine(rv, l).addT0 = IF l.word = "addt0" THEN Append(rv.addT0, l.n) ELSE rv.addT0
    BY <2>4, <2>7, <2>10, ReadT0s
  <2>15. rs.t0 \in Seq(Int) /\ ru.t0 \in Seq(Int) /\ rs.addT0 \in Seq(Seq(Int)) /\ ru.addT0 \in Seq(Seq(Int))
         /\ l.n \in Seq(Int)
    BY <2>4, <2>10 DEF Blocks, Lines
  <2>16. (rs.t0 \o ru.t0) \o l.n = rs.t0 \o (ru.t0 \o l.n)
    <3>1. PICK x, y, z, T : x = rs.t0 /\ y = ru.t0 /\ z = l.n /\ T = Int
      OBVIOUS
    <3>2. x \in Seq(T) /\ y \in Seq(T) /\ z \in Seq(T)
      BY <2>15, <3>1
    <3>3. (x \o y) \o z = x \o (y \o z)
      BY <3>2, ConcatAssociative, SMTT(30)
    <3> QED BY <3>1, <3>3
  <2>17. Append(rs.addT0 \o ru.addT0, l.n) = rs.addT0 \o Append(ru.addT0, l.n)
    <3>1. PICK x, y, z, T : x = rs.addT0 /\ y = ru.addT0 /\ z = l.n /\ T = Seq(Int)
      OBVIOUS
    <3>2. x \in Seq(T) /\ y \in Seq(T) /\ z \in T
      BY <2>15, <3>1
    <3>3. Append(x \o y, z) = x \o Append(y, z)
      BY <3>2, AppendToConcat, SMTT(30)
    <3> QED BY <3>1, <3>3
  <2>18. ReadLine(rv, l).t0 = rs.t0 \o ReadLine(ru, l).t0
    BY <2>12, <2>13, <2>14, <2>16
  <2>19. ReadLine(rv, l).addT0 = rs.addT0 \o ReadLine(ru, l).addT0
    BY <2>12, <2>13, <2>14, <2>17
  <2>20. Good(Append(u, l))
    BY <2>7, <2>9, <2>11, <2>18, <2>19 DEF Good
  <2> QED BY <1>2, <2>3, <2>5, <2>20
<1>6. 0..n \subseteq good2
  BY <1>4, <1>5, UpTo
<1>7. n \in good2 /\ SubSeq(t, 1, n) = t
  BY <1>1, <1>6
<1>8. Good(t)
  BY <1>2, <1>7
<1> QED BY <1>8 DEF Good

(* One line read alone. *)
LEMMA ReadOne ==
  ASSUME NEW l \in Lines
  PROVE  /\ ReadBlock(<<l>>) = ReadLine(NoBlock, l)
         /\ ReadBlock(<<l>>).t0 = IF l.word = "t0" THEN l.n ELSE <<>>
         /\ ReadBlock(<<l>>).addT0 = IF l.word = "addt0" THEN <<l.n>> ELSE <<>>
<1>1. <<>> \in Seq(Lines) /\ Append(<<>>, l) = <<l>>
  OBVIOUS
<1>2. ReadBlock(<<l>>) = ReadLine(NoBlock, l)
  BY <1>1, ReadAppend, ReadNothing
<1>3. NoBlock \in Blocks(<<>>)
  BY NoBlockIs
<1>4. NoBlock.t0 = <<>> /\ NoBlock.addT0 = <<>> /\ l.n \in Seq(Int)
  BY DEF NoBlock, Lines
<1>5. <<>> \o l.n = l.n /\ Append(<<>>, l.n) = <<l.n>>
  BY <1>4
<1> QED BY <1>1, <1>2, <1>3, <1>4, <1>5, ReadT0s

-----------------------------------------------------------------------------
(* What FlattenSeq has put together after each of the sequences. *)

Flattening(seqs, f, X) ==
  /\ f \in [0..Len(seqs) -> Seq(X)]
  /\ f[0] = <<>>
  /\ \A i \in 1..Len(seqs) : f[i] = f[i - 1] \o seqs[i]
  /\ FlattenSeq(seqs) = f[Len(seqs)]

LEMMA Flattens ==
  ASSUME NEW X, NEW seqs \in Seq(Seq(X))
  PROVE  \E f : Flattening(seqs, f, X)
<1>1. PICK n \in Nat : n = Len(seqs) /\ DOMAIN seqs = 1..n
  OBVIOUS
<1>2. PICK S : S = Seq(X)
  OBVIOUS
<1>3. <<>> \in S /\ \A i \in 1..n : seqs[i] \in S
  BY <1>1, <1>2
<1>4. \A a, b \in S : a \o b \in S
  BY <1>2
<1>5. PICK step : step = [a \in S \X (1..n) |-> a[1] \o seqs[a[2]]]
  OBVIOUS
<1>6. \A b \in S, i \in 1..n : step[<<b, i>>] = b \o seqs[i]
  BY <1>5
<1>7. step \in [S \X (1..n) -> S]
  BY <1>3, <1>4, <1>5
<1>8. PICK f \in [0..n -> S] : Runs(f, <<>>, step, n)
  BY <1>3, <1>7, LoopRuns, Zenon
<1>9. ASSUME NEW i \in 1..n PROVE f[i] = f[i - 1] \o seqs[i]
  <2>1. i - 1 \in 0..n
    OBVIOUS
  <2>2. PICK a : a = f[i - 1]
    OBVIOUS
  <2>3. a \in S
    BY <2>1, <2>2
  <2> QED BY <1>6, <1>8, <2>2, <2>3 DEF Runs
<1>10. f[0] = <<>>
  BY <1>8 DEF Runs
<1>11. FlattenSeq(seqs) = f[n]
  <2>1. CASE n = 0
    <3>1. seqs = <<>>
      BY <1>1, <2>1
    <3> QED BY <1>1, <1>10, <2>1, <3>1 DEF FlattenSeq
  <2>2. CASE n # 0
    <3>1. ASSUME NEW i \in 1..n PROVE f[i] = IF i = 1 THEN seqs[i] ELSE f[i - 1] \o seqs[i]
      <4>1. CASE i = 1
        <5>1. f[1] = <<>> \o seqs[1]
          BY <1>9, <1>10, <4>1
        <5>2. <<>> \o seqs[1] = seqs[1]
          BY <1>2, <1>3, <4>1, ConcatEmptySeq
        <5> QED BY <4>1, <5>1, <5>2
      <4>2. CASE i # 1
        BY <1>9, <4>2
      <4> QED BY <4>1, <4>2
    <3>2. PICK g : g = [i \in 1..n |-> f[i]]
      OBVIOUS
    <3>3. g = [i \in 1..n |-> IF i = 1 THEN seqs[i] ELSE g[i - 1] \o seqs[i]]
      <4>1. ASSUME NEW i \in 1..n
            PROVE  f[i] = IF i = 1 THEN seqs[i] ELSE g[i - 1] \o seqs[i]
        <5>1. CASE i = 1
          BY <3>1, <5>1
        <5>2. CASE i # 1
          <6>1. i - 1 \in 1..n
            BY <5>2
          <6> QED BY <3>1, <3>2, <5>2, <6>1
        <5> QED BY <5>1, <5>2
      <4> QED BY <3>2, <4>1
    <3>4. PICK h : h = CHOOSE z : z = [i \in 1..n |-> IF i = 1 THEN seqs[i] ELSE z[i - 1] \o seqs[i]]
      OBVIOUS
    <3>5. h = [i \in 1..n |-> IF i = 1 THEN seqs[i] ELSE h[i - 1] \o seqs[i]]
      BY <3>3, <3>4, Zenon
    <3>6. FlattenSeq(seqs) = h[n]
      BY <1>1, <2>2, <3>4, Zenon DEF FlattenSeq
    <3>7. PICK same : same = {m \in 0..n : m = 0 \/ h[m] = f[m]}
      OBVIOUS
    <3>8. ASSUME NEW m \in 0..(n - 1), m \in same PROVE m + 1 \in same
      <4>1. m + 1 \in 1..n /\ m + 1 \in 0..n /\ (m + 1) - 1 = m
        OBVIOUS
      <4>2. h[m + 1] = IF m + 1 = 1 THEN seqs[m + 1] ELSE h[m] \o seqs[m + 1]
        BY <3>5, <4>1
      <4>3. f[m + 1] = IF m + 1 = 1 THEN seqs[m + 1] ELSE f[m] \o seqs[m + 1]
        BY <3>1, <4>1
      <4>4. h[m + 1] = f[m + 1]
        <5>1. CASE m = 0
          BY <4>2, <4>3, <5>1
        <5>2. CASE m # 0
          <6>1. m + 1 # 1 /\ h[m] = f[m]
            BY <3>7, <3>8, <5>2
          <6> QED BY <4>2, <4>3, <6>1
        <5> QED BY <5>1, <5>2
      <4> QED BY <3>7, <4>1, <4>4
    <3>9. 0..n \subseteq same
      <4>1. 0 \in same
        BY <3>7
      <4> QED BY <3>8, <4>1, UpTo
    <3>10. h[n] = f[n]
      BY <2>2, <3>7, <3>9
    <3> QED BY <3>6, <3>10
  <2> QED BY <2>1, <2>2
<1>12. Flattening(seqs, f, X)
  BY <1>1, <1>2, <1>9, <1>10, <1>11 DEF Flattening
<1> QED BY <1>12

LEMMA FlattenIs ==
  ASSUME NEW X, NEW seqs \in Seq(Seq(X))
  PROVE  FlattenSeq(seqs) \in Seq(X)
<1>1. PICK f : Flattening(seqs, f, X)
  BY Flattens
<1>2. Len(seqs) \in 0..Len(seqs)
  OBVIOUS
<1> QED BY <1>1, <1>2 DEF Flattening

LEMMA FlattenHasAll ==
  ASSUME NEW X, NEW seqs \in Seq(Seq(X)), NEW i \in 1..Len(seqs), NEW e \in 1..Len(seqs[i])
  PROVE  \E j \in 1..Len(FlattenSeq(seqs)) : FlattenSeq(seqs)[j] = seqs[i][e]
<1>1. PICK f : Flattening(seqs, f, X)
  BY Flattens
<1>2. PICK n \in Nat : n = Len(seqs)
  OBVIOUS
<1>3. PICK x : x = seqs[i][e]
  OBVIOUS
<1>4. PICK has : has = {m \in 0..(n - i) : \E j \in 1..Len(f[i + m]) : f[i + m][j] = x}
  OBVIOUS
<1>5. i \in 1..n /\ n - i \in Nat /\ i + 0 = i /\ i + (n - i) = n /\ i \in 0..n /\ i - 1 \in 0..n
  BY <1>2
<1>6. \A k \in 0..n : f[k] \in Seq(X)
  BY <1>1, <1>2 DEF Flattening
<1>7. \A k \in 1..n : f[k] = f[k - 1] \o seqs[k] /\ seqs[k] \in Seq(X)
  <2>1. \A k \in 1..n : f[k] = f[k - 1] \o seqs[k]
    BY <1>1, <1>2 DEF Flattening
  <2>2. PICK T : T = Seq(X)
    OBVIOUS
  <2>3. \A k \in 1..n : seqs[k] \in T
    BY <1>2, <2>2
  <2> QED BY <2>1, <2>2, <2>3
<1>8. 0 \in has
  <2>1. PICK s, t : s = f[i - 1] /\ t = seqs[i]
    OBVIOUS
  <2>2. s \in Seq(X) /\ t \in Seq(X) /\ f[i] = s \o t /\ e \in 1..Len(t) /\ x = t[e]
    BY <1>3, <1>5, <1>6, <1>7, <2>1
  <2>3. Len(s) + e \in 1..Len(s \o t) /\ (s \o t)[Len(s) + e] = t[e]
    BY <2>2
  <2>4. \E j \in 1..Len(f[i]) : f[i][j] = x
    BY <2>2, <2>3
  <2>5. 0 \in 0..(n - i)
    BY <1>5
  <2> QED BY <1>4, <1>5, <2>4, <2>5
<1>9. ASSUME NEW m \in 0..((n - i) - 1), m \in has PROVE m + 1 \in has
  <2>1. PICK k \in 1..n : k = i + (m + 1) /\ k - 1 = i + m /\ k - 1 \in 0..n
    BY <1>5
  <2>2. PICK j \in 1..Len(f[k - 1]) : f[k - 1][j] = x
    BY <1>4, <1>9, <2>1
  <2>3. PICK s, t : s = f[k - 1] /\ t = seqs[k]
    OBVIOUS
  <2>4. s \in Seq(X) /\ t \in Seq(X) /\ f[k] = s \o t /\ j \in 1..Len(s) /\ s[j] = x
    BY <1>6, <1>7, <2>1, <2>2, <2>3
  <2>5. j \in 1..Len(s \o t) /\ (s \o t)[j] = x
    BY <2>4
  <2>6. m + 1 \in 0..(n - i)
    BY <1>5
  <2> QED BY <1>4, <2>1, <2>4, <2>5, <2>6
<1>10. 0..(n - i) \subseteq has
  BY <1>5, <1>8, <1>9, UpTo
<1>11. n - i \in has
  BY <1>5, <1>10
<1>12. \E j \in 1..Len(f[n]) : f[n][j] = x
  BY <1>4, <1>5, <1>11
<1>13. FlattenSeq(seqs) = f[n]
  BY <1>1, <1>2 DEF Flattening
<1> QED BY <1>3, <1>12, <1>13

-----------------------------------------------------------------------------
(* The lines that WriteRun writes. *)

(* The block of a file that has been accepted. *)
Block ==
  [t0 : Seq(Int), addT0 : Seq(Seq(Int)), bkg : [1..4 -> Int], data : [1..4 -> Int], inBins : BOOLEAN,
   offset : Int \X Int, time : Int \X Int]

LEMMA BlockIs ==
  ASSUME NEW b \in Block
  PROVE  b.t0 \in Seq(Int) /\ b.addT0 \in Seq(Seq(Int)) /\ Len(b.t0) \in Nat /\ Len(b.addT0) \in Nat
<1>1. PICK T, S : T = Seq(Int) /\ S = Seq(T)
  OBVIOUS
<1>2. b.t0 \in T /\ b.addT0 \in S
  BY <1>1 DEF Block
<1> QED BY <1>1, <1>2

LEMMA CountUp ==
  ASSUME NEW lines, NEW i \in Nat \ {0}
  PROVE  /\ AddT0LinesBefore(lines, 1) = 0
         /\ AddT0LinesBefore(lines, i) \in Nat
         /\ AddT0LinesBefore(lines, i + 1) =
              AddT0LinesBefore(lines, i) + (IF lines[i].word = "addt0" THEN 1 ELSE 0)
<1>1. PICK s : s = {j \in 1..(i - 1) : lines[j].word = "addt0"}
  OBVIOUS
<1>2. PICK t : t = {j \in 1..((i + 1) - 1) : lines[j].word = "addt0"}
  OBVIOUS
<1>3. IsFiniteSet(s) /\ Cardinality(s) \in Nat
  <2>1. IsFiniteSet(1..(i - 1))
    BY FS_Interval
  <2>2. IsFiniteSet(s)
    BY <1>1, <2>1, FS_Subset
  <2> QED BY <2>2, FS_CardinalityType
<1>4. t = IF lines[i].word = "addt0" THEN s \cup {i} ELSE s
  BY <1>1, <1>2
<1>5. i \notin s
  BY <1>1
<1>6. Cardinality(t) = Cardinality(s) + (IF lines[i].word = "addt0" THEN 1 ELSE 0)
  <2>1. CASE lines[i].word = "addt0"
    BY <1>3, <1>4, <1>5, <2>1, FS_AddElement
  <2>2. CASE lines[i].word # "addt0"
    BY <1>3, <1>4, <2>2
  <2> QED BY <2>1, <2>2
<1>7. {j \in 1..(1 - 1) : lines[j].word = "addt0"} = {}
  OBVIOUS
<1>8. AddT0LinesBefore(lines, 1) = 0
  BY <1>7, FS_EmptySet DEF AddT0LinesBefore
<1> QED BY <1>1, <1>2, <1>3, <1>6, <1>8 DEF AddT0LinesBefore

LEMMA CountGrows ==
  ASSUME NEW lines, NEW n \in Nat, NEW i \in 1..(n + 1)
  PROVE  /\ AddT0LinesBefore(lines, i) \in Nat /\ AddT0LinesBefore(lines, n + 1) \in Nat
         /\ AddT0LinesBefore(lines, i) <= AddT0LinesBefore(lines, n + 1)
<1>1. PICK more : more = {m \in 0..(n + 1 - i) : AddT0LinesBefore(lines, i) <= AddT0LinesBefore(lines, i + m)}
  OBVIOUS
<1>2. \A j \in Nat \ {0} : AddT0LinesBefore(lines, j) \in Nat
  BY CountUp
<1>3. 0 \in more
  <2>1. i + 0 = i /\ AddT0LinesBefore(lines, i) \in Nat /\ 0 \in 0..(n + 1 - i)
    BY <1>2
  <2> QED BY <1>1, <2>1
<1>4. ASSUME NEW m \in 0..((n + 1 - i) - 1), m \in more PROVE m + 1 \in more
  <2>1. PICK j \in Nat \ {0} : j = i + m
    OBVIOUS
  <2>2. i + (m + 1) = j + 1 /\ m + 1 \in 0..(n + 1 - i)
    BY <2>1
  <2>3. AddT0LinesBefore(lines, j + 1) =
          AddT0LinesBefore(lines, j) + (IF lines[j].word = "addt0" THEN 1 ELSE 0)
    BY CountUp
  <2>4. AddT0LinesBefore(lines, i) <= AddT0LinesBefore(lines, j)
    BY <1>1, <1>4, <2>1
  <2>5. AddT0LinesBefore(lines, i) <= AddT0LinesBefore(lines, j + 1)
    <3>1. PICK a, b, c : /\ a = AddT0LinesBefore(lines, i) /\ b = AddT0LinesBefore(lines, j)
                         /\ c = AddT0LinesBefore(lines, j + 1)
      OBVIOUS
    <3>2. a \in Nat /\ b \in Nat /\ a <= b /\ c = b + (IF lines[j].word = "addt0" THEN 1 ELSE 0)
      BY <1>2, <2>3, <2>4, <3>1
    <3> QED BY <3>1, <3>2
  <2> QED BY <1>1, <2>2, <2>5
<1>5. n + 1 - i \in Nat /\ i + (n + 1 - i) = n + 1
  OBVIOUS
<1>6. 0..(n + 1 - i) \subseteq more
  BY <1>3, <1>4, <1>5, UpTo
<1>7. n + 1 - i \in more
  BY <1>5, <1>6
<1> QED BY <1>1, <1>2, <1>5, <1>7

(* There are as many addt0's in a block as it has lines for. *)
LEMMA AddT0sCounted ==
  ASSUME NEW lines \in Seq(Lines)
  PROVE  Len(ReadBlock(lines).addT0) = AddT0LinesBefore(lines, Len(lines) + 1)
<1>1. PICK f : ReadsOf(lines, f)
  BY Reads
<1>2. PICK n \in Nat : n = Len(lines)
  OBVIOUS
<1>3. PICK counted : counted = {m \in 0..n : Len(f[m].addT0) = AddT0LinesBefore(lines, m + 1)}
  OBVIOUS
<1>4. 0 \in counted
  <2>1. Len(f[0].addT0) = 0
    BY <1>1 DEF ReadsOf, NoBlock
  <2>2. AddT0LinesBefore(lines, 1) = 0
    BY CountUp
  <2> QED BY <1>3, <2>1, <2>2
<1>5. ASSUME NEW m \in 0..(n - 1), m \in counted PROVE m + 1 \in counted
  <2>1. PICK i \in 1..n : i = m + 1
    OBVIOUS
  <2>2. i - 1 = m /\ i \in 0..n /\ m \in 0..n
    BY <2>1
  <2>3. f[i] = ReadLine(f[m], lines[i]) /\ f[m] \in Blocks(lines)
    BY <1>1, <1>2, <2>2 DEF ReadsOf
  <2>4. lines[i] \in Lines
    BY <1>2
  <2>5. f[i].addT0 = IF lines[i].word = "addt0" THEN Append(f[m].addT0, lines[i].n) ELSE f[m].addT0
    BY <2>3, <2>4, ReadT0s, ZenonT(30)
  <2>6. f[m].addT0 \in Seq(Seq(Int)) /\ lines[i].n \in Seq(Int)
    BY <2>3, <2>4 DEF Blocks, Lines
  <2>7. Len(f[i].addT0) = Len(f[m].addT0) + (IF lines[i].word = "addt0" THEN 1 ELSE 0)
    <3>1. PICK a, z : a = f[m].addT0 /\ z = lines[i].n
      OBVIOUS
    <3>2. Len(Append(a, z)) = Len(a) + 1 /\ Len(a) \in Nat
      BY <2>6, <3>1
    <3>3. CASE lines[i].word = "addt0"
      <4>1. f[i].addT0 = Append(a, z)
        BY <2>5, <3>1, <3>3
      <4> QED BY <3>1, <3>2, <3>3, <4>1
    <3>4. CASE lines[i].word # "addt0"
      <4>1. f[i].addT0 = a
        BY <2>5, <3>1, <3>4
      <4> QED BY <3>1, <3>2, <3>4, <4>1
    <3> QED BY <3>3, <3>4
  <2>8. AddT0LinesBefore(lines, i + 1) =
          AddT0LinesBefore(lines, i) + (IF lines[i].word = "addt0" THEN 1 ELSE 0)
    <3>1. i \in Nat \ {0}
      OBVIOUS
    <3> QED BY <3>1, CountUp
  <2> QED BY <1>3, <1>5, <2>1, <2>2, <2>7, <2>8
<1>6. 0..n \subseteq counted
  BY <1>4, <1>5, UpTo
<1>7. n \in counted
  BY <1>6
<1> QED BY <1>1, <1>2, <1>3, <1>7 DEF ReadsOf

LEMMA WriteRangeIs ==
  ASSUME NEW word \in Words, NEW range \in [1..4 -> Int]
  PROVE  WriteRange(word, range) \in Lines
<1>1. PICK seqs : seqs = [i \in 1..4 |-> IfPositive(range[i])]
  OBVIOUS
<1>2. ASSUME NEW i \in 1..4 PROVE IfPositive(range[i]) \in Seq(Int)
  BY DEF IfPositive
<1>3. seqs \in Seq(Seq(Int))
  BY <1>1, <1>2, IsASeq
<1>4. FlattenSeq(seqs) \in Seq(Int)
  BY <1>3, FlattenIs
<1> QED BY <1>1, <1>4 DEF WriteRange, Line, Lines

LEMMA WriteFitIs ==
  ASSUME NEW b \in Block
  PROVE  WriteFit(b) \in Lines /\ WriteFit(b).word \in {"fit", "fit fgb"}
<1>1. b.offset[1] \in Int /\ b.offset[2] \in Int /\ b.time[1] \in Int /\ b.time[2] \in Int
      /\ b.time \in Seq(Int)
  <2>1. PICK offset, time : offset = b.offset /\ time = b.time
    OBVIOUS
  <2>2. offset \in Int \X Int /\ time \in Int \X Int
    BY <2>1 DEF Block
  <2>3. time = <<time[1], time[2]>> /\ time[1] \in Int /\ time[2] \in Int
    BY <2>2
  <2>4. <<time[1], time[2]>> \in Seq(Int)
    BY <2>3
  <2> QED BY <2>1, <2>2, <2>3, <2>4
<1>2. [i \in 1..2 |-> IF b.offset[i] > 0 THEN b.offset[i] ELSE None] \in Seq(Int)
  BY <1>1 DEF None
<1>3. CASE b.inBins
  BY <1>2, <1>3 DEF WriteFit, Line, Lines, Words
<1>4. CASE ~b.inBins
  <2>1. <<>> \in Seq(Int) /\ <<b.time[1]>> \in Seq(Int)
    BY <1>1
  <2> QED BY <1>1, <1>4, <2>1 DEF WriteFit, Line, Lines, Words
<1> QED BY <1>3, <1>4

LEMMA ReadOther ==
  ASSUME NEW l \in Lines, l.word \notin {"t0", "addt0"}
  PROVE  ReadBlock(<<l>>).t0 = <<>> /\ ReadBlock(<<l>>).addT0 = <<>> /\ <<l>> \in Seq(Lines)
<1>1. /\ ReadBlock(<<l>>).t0 = IF l.word = "t0" THEN l.n ELSE <<>>
      /\ ReadBlock(<<l>>).addT0 = IF l.word = "addt0" THEN <<l.n>> ELSE <<>>
  BY ReadOne
<1>2. l.word # "t0" /\ l.word # "addt0"
  OBVIOUS
<1> QED BY <1>1, <1>2

(* The addt0 lines that are missing are read as those of the block. *)
LEMMA MissingAddT0s ==
  ASSUME NEW addT0 \in Seq(Seq(Int)), NEW from \in 0..Len(addT0), NEW w,
         w = FlattenSeq([k \in 1..(Len(addT0) - from) |-> WriteAddT0(addT0[from + k])])
  PROVE  /\ w \in Seq(Lines)
         /\ ReadBlock(w).t0 = <<>>
         /\ (\A k \in 1..Len(addT0) : addT0[k] # <<>>) =>
              /\ Len(ReadBlock(w).addT0) = Len(addT0) - from
              /\ \A k \in 1..(Len(addT0) - from) : ReadBlock(w).addT0[k] = addT0[from + k]
<1>1. PICK n \in Nat : n = Len(addT0) - from
  <2>1. Len(addT0) \in Nat /\ from \in Nat /\ from <= Len(addT0)
    OBVIOUS
  <2>2. Len(addT0) - from \in Nat
    BY <2>1
  <2> QED BY <2>2
<1>2. PICK seqs : seqs = [k \in 1..n |-> WriteAddT0(addT0[from + k])]
  OBVIOUS
<1>3. ASSUME NEW k \in 1..n
      PROVE  addT0[from + k] \in Seq(Int) /\ Line("addt0", addT0[from + k]) \in Lines
             /\ WriteAddT0(addT0[from + k]) \in Seq(Lines)
  <2>1. from + k \in 1..Len(addT0)
    BY <1>1
  <2>2. PICK bins0 : bins0 = addT0[from + k]
    OBVIOUS
  <2>3. bins0 \in Seq(Int)
    BY <2>1, <2>2
  <2>4. Line("addt0", bins0) \in Lines
    BY <2>3 DEF Line, Lines, Words
  <2>5. <<Line("addt0", bins0)>> \in Seq(Lines) /\ <<>> \in Seq(Lines)
    BY <2>4
  <2> QED BY <2>2, <2>3, <2>4, <2>5 DEF WriteAddT0
<1>4. seqs \in Seq(Seq(Lines)) /\ Len(seqs) = n
  <2>1. PICK T : T = Seq(Lines)
    OBVIOUS
  <2>2. \A k \in 1..n : WriteAddT0(addT0[from + k]) \in T
    BY <1>3, <2>1
  <2>3. seqs \in [1..n -> T]
    BY <1>2, <2>2
  <2>4. seqs \in Seq(T) /\ Len(seqs) = n
    BY <2>3
  <2> QED BY <2>1, <2>4
<1>5. PICK f : Flattening(seqs, f, Lines)
  BY <1>4, Flattens
<1>6. w = f[n] /\ n \in 0..n /\ f \in [0..n -> Seq(Lines)] /\ f[0] = <<>>
      /\ \A i \in 1..n : f[i] = f[i - 1] \o seqs[i]
  <2>1. w = FlattenSeq(seqs)
    BY <1>1, <1>2
  <2>2. Len(seqs) = n
    BY <1>4
  <2>3. n \in 0..n
    OBVIOUS
  <2>4. FlattenSeq(seqs) = f[n] /\ f \in [0..n -> Seq(Lines)] /\ f[0] = <<>>
        /\ \A i \in 1..n : f[i] = f[i - 1] \o seqs[i]
    BY <1>5, <2>2, Zenon DEF Flattening
  <2> QED BY <2>1, <2>3, <2>4, Zenon
<1>7. PICK all : all <=> \A k \in 1..Len(addT0) : addT0[k] # <<>>
  OBVIOUS
<1> DEFINE Good(m) == /\ ReadBlock(f[m]).t0 = <<>>
                      /\ all => /\ Len(ReadBlock(f[m]).addT0) = m
                                /\ \A k \in 1..m : ReadBlock(f[m]).addT0[k] = addT0[from + k]
<1>8. PICK good3 : good3 = {m \in 0..n : Good(m)}
  OBVIOUS
<1>9. 0 \in good3
  <2>1. ReadBlock(f[0]).t0 = <<>> /\ ReadBlock(f[0]).addT0 = <<>>
    BY <1>6, ReadNothing DEF NoBlock
  <2>2. Good(0)
    BY <2>1
  <2>3. 0 \in 0..n
    OBVIOUS
  <2> HIDE DEF Good
  <2> QED BY <1>8, <2>2, <2>3
<1>10. ASSUME NEW m \in 0..(n - 1), m \in good3 PROVE m + 1 \in good3
  <2>1. PICK i \in 1..n : i = m + 1
    OBVIOUS
  <2>2. i - 1 = m /\ i \in 0..n /\ m \in 0..n
    BY <2>1
  <2>3. PICK before1, now, l : before1 = ReadBlock(f[m]) /\ now = ReadBlock(f[i]) /\ l = Line("addt0", addT0[from + i])
    OBVIOUS
  <2>4. f[m] \in Seq(Lines) /\ seqs[i] \in Seq(Lines) /\ f[i] = f[m] \o seqs[i]
    <3>1. f[m] \in Seq(Lines) /\ f[i] = f[m] \o seqs[i]
      BY <1>6, <2>2
    <3>2. seqs[i] \in Seq(Lines)
      BY <1>2, <1>3
    <3> QED BY <3>1, <3>2
  <2>5. /\ now.t0 = before1.t0 \o ReadBlock(seqs[i]).t0
        /\ now.addT0 = before1.addT0 \o ReadBlock(seqs[i]).addT0
    <3>1. PICK s, t : s = f[m] /\ t = seqs[i]
      OBVIOUS
    <3>2. s \in Seq(Lines) /\ t \in Seq(Lines) /\ f[i] = s \o t
      BY <2>4, <3>1, Zenon
    <3>3. /\ ReadBlock(s \o t).t0 = ReadBlock(s).t0 \o ReadBlock(t).t0
          /\ ReadBlock(s \o t).addT0 = ReadBlock(s).addT0 \o ReadBlock(t).addT0
      BY <3>2, ReadConcat, Zenon
    <3> QED BY <2>3, <3>1, <3>2, <3>3, Zenon
  <2>6. Good(m)
    BY <1>8, <1>10
  <2>7. l \in Lines /\ l.word = "addt0" /\ l.n = addT0[from + i]
    BY <1>3, <2>3 DEF Line
  <2>8. seqs[i] = IF addT0[from + i] = <<>> THEN <<>> ELSE <<l>>
    BY <1>2, <2>3 DEF WriteAddT0
  <2>9. ReadBlock(seqs[i]).t0 = <<>>
    <3>1. ReadBlock(<<>>).t0 = <<>>
      BY ReadNothing DEF NoBlock
    <3>2. ReadBlock(<<l>>).t0 = IF l.word = "t0" THEN l.n ELSE <<>>
      BY <2>7, ReadOne
    <3>3. ReadBlock(<<l>>).t0 = <<>>
      BY <2>7, <3>2
    <3> QED BY <2>8, <3>1, <3>3
  <2>10. now.t0 = <<>>
    BY <2>3, <2>5, <2>6, <2>9
  <2>11. before1.addT0 \in Seq(Seq(Int))
    BY <2>3, <2>4, ReadBlockIs DEF Blocks
  <2>12. ASSUME all
         PROVE  Len(now.addT0) = i /\ \A k \in 1..i : now.addT0[k] = addT0[from + k]
    <3>1. from + i \in 1..Len(addT0)
      BY <1>1
    <3>2. ReadBlock(seqs[i]).addT0 = <<addT0[from + i]>>
      BY <1>7, <2>7, <2>8, <2>12, <3>1, ReadOne
    <3>3. PICK a, x : a = before1.addT0 /\ x = addT0[from + i]
      OBVIOUS
    <3>4. a \in Seq(Seq(Int)) /\ x \in Seq(Int) /\ Len(a) = m /\ \A k \in 1..m : a[k] = addT0[from + k]
      BY <1>3, <2>3, <2>6, <2>11, <2>12, <3>3
    <3>5. now.addT0 = a \o <<x>>
      BY <2>5, <3>2, <3>3
    <3>6. Len(a \o <<x>>) = m + 1 /\ (a \o <<x>>)[m + 1] = x /\ \A k \in 1..m : (a \o <<x>>)[k] = a[k]
      <4>1. PICK T : T = Seq(Int)
        OBVIOUS
      <4>2. a \in Seq(T) /\ x \in T /\ Len(a) = m
        BY <3>4, <4>1
      <4> QED BY <4>2
    <3>7. ASSUME NEW k \in 1..i PROVE now.addT0[k] = addT0[from + k]
      <4>1. CASE k \in 1..m
        BY <3>4, <3>5, <3>6, <4>1
      <4>2. CASE k = i
        BY <2>1, <3>3, <3>5, <3>6, <4>2
      <4> QED BY <2>1, <4>1, <4>2
    <3> QED BY <2>1, <3>5, <3>6, <3>7
  <2>13. Good(i)
    BY <2>3, <2>10, <2>12
  <2> HIDE DEF Good
  <2> QED BY <1>8, <2>1, <2>2, <2>13
<1>11. 0..n \subseteq good3
  BY <1>9, <1>10, UpTo
<1>12. Good(n)
  BY <1>6, <1>8, <1>11
<1> QED BY <1>1, <1>6, <1>7, <1>12

(* A block that WriteRun can write for these lines. *)
Writable(lines, b) == b \in Block /\ AddT0LinesBefore(lines, Len(lines) + 1) <= Len(b.addT0)

(* An addt0 line is followed in the count by itself. *)
LEMMA CountLine ==
  ASSUME NEW lines \in Seq(Lines), NEW b, Writable(lines, b), NEW i \in 1..Len(lines)
  PROVE  /\ AddT0LinesBefore(lines, i) \in 0..Len(b.addT0)
         /\ lines[i].word = "addt0" => AddT0LinesBefore(lines, i) + 1 \in 1..Len(b.addT0)
<1>1. PICK n \in Nat : n = Len(lines)
  OBVIOUS
<1>2. b.addT0 \in Seq(Seq(Int))
  BY DEF Writable, Block
<1>3. PICK l \in Nat : l = Len(b.addT0)
  BY <1>2
<1>4. i \in 1..(n + 1) /\ i + 1 \in 1..(n + 1) /\ i \in Nat \ {0}
  BY <1>1
<1>5. PICK a, c, z : /\ a = AddT0LinesBefore(lines, i) /\ c = AddT0LinesBefore(lines, i + 1)
                     /\ z = AddT0LinesBefore(lines, n + 1)
  OBVIOUS
<1>6. a \in Nat /\ c \in Nat /\ z \in Nat /\ a <= z /\ c <= z
  BY <1>4, <1>5, CountGrows
<1>7. c = a + (IF lines[i].word = "addt0" THEN 1 ELSE 0)
  BY <1>4, <1>5, CountUp
<1>8. z <= l
  BY <1>1, <1>3, <1>5 DEF Writable
<1>9. a \in 0..l
  BY <1>6, <1>8
<1>10. ASSUME lines[i].word = "addt0" PROVE a + 1 \in 1..l
  BY <1>6, <1>7, <1>8, <1>10
<1> QED BY <1>3, <1>5, <1>9, <1>10

NoEmpty(seqs) == \A k \in 1..Len(seqs) : seqs[k] # <<>>

(* What is read of the lines that are written for a line: they are all     *)
(* that the reader of the next session sees of it.                         *)
LEMMA MissingLines ==
  ASSUME NEW lines \in Seq(Lines), NEW b, Writable(lines, b), NEW i \in 1..Len(lines), NEW isis \in BOOLEAN,
         NEW w, w = WriteMissing(lines, i, b, isis), NEW from, from = AddT0LinesBefore(lines, i)
  PROVE  /\ w \in Seq(Lines)
         /\ ReadBlock(w).t0 = IF ~Has(lines, "t0") /\ ~isis THEN b.t0 ELSE <<>>
         /\ isis => ReadBlock(w).addT0 = <<>>
         /\ ~isis /\ NoEmpty(b.addT0) =>
              /\ Len(ReadBlock(w).addT0) = Len(b.addT0) - from
              /\ \A k \in 1..(Len(b.addT0) - from) : ReadBlock(w).addT0[k] = b.addT0[from + k]
<1>1. PICK w1, w2, w3, w4 :
        /\ w1 = IF ~Has(lines, "t0") /\ b.t0 # <<>> /\ ~isis THEN <<Line("t0", b.t0)>> ELSE <<>>
        /\ w2 = IF isis THEN <<>>
                ELSE FlattenSeq([k \in 1..(Len(b.addT0) - from) |-> WriteAddT0(b.addT0[from + k])])
        /\ w3 = IF ~Has(lines, "background") /\ b.bkg[1] >= 0 THEN <<WriteRange("background", b.bkg)>> ELSE <<>>
        /\ w4 = IF ~Has(lines, "data") /\ b.data[1] >= 0 THEN <<WriteRange("data", b.data)>> ELSE <<>>
  OBVIOUS
<1>2. w = ((w1 \o w2) \o w3) \o w4
  BY <1>1, Zenon DEF WriteMissing
<1>3. b.t0 \in Seq(Int) /\ b.addT0 \in Seq(Seq(Int)) /\ b.bkg \in [1..4 -> Int] /\ b.data \in [1..4 -> Int]
  BY DEF Writable, Block
<1>4. <<>> \in Seq(Lines) /\ ReadBlock(<<>>).t0 = <<>> /\ ReadBlock(<<>>).addT0 = <<>>
  BY ReadNothing DEF NoBlock
<1>5. /\ w1 \in Seq(Lines)
      /\ ReadBlock(w1).t0 = IF ~Has(lines, "t0") /\ ~isis THEN b.t0 ELSE <<>>
      /\ ReadBlock(w1).addT0 = <<>>
  <2>1. PICK l : l = Line("t0", b.t0)
    OBVIOUS
  <2>2. l \in Lines /\ l.word = "t0" /\ l.n = b.t0
    BY <1>3, <2>1 DEF Line, Lines, Words
  <2>3. ReadBlock(<<l>>).t0 = b.t0 /\ ReadBlock(<<l>>).addT0 = <<>> /\ <<l>> \in Seq(Lines)
    <3>1. /\ ReadBlock(<<l>>).t0 = IF l.word = "t0" THEN l.n ELSE <<>>
          /\ ReadBlock(<<l>>).addT0 = IF l.word = "addt0" THEN <<l.n>> ELSE <<>>
      BY <2>2, ReadOne
    <3>2. <<l>> \in Seq(Lines)
      BY <2>2
    <3> QED BY <2>2, <3>1, <3>2
  <2>4. CASE ~Has(lines, "t0") /\ b.t0 # <<>> /\ ~isis
    BY <1>1, <2>1, <2>3, <2>4
  <2>5. CASE ~(~Has(lines, "t0") /\ b.t0 # <<>> /\ ~isis)
    BY <1>1, <1>4, <2>5
  <2> QED BY <2>4, <2>5
<1>6. /\ w2 \in Seq(Lines) /\ ReadBlock(w2).t0 = <<>>
      /\ isis => ReadBlock(w2).addT0 = <<>>
      /\ ~isis /\ NoEmpty(b.addT0) =>
           /\ Len(ReadBlock(w2).addT0) = Len(b.addT0) - from
           /\ \A k \in 1..(Len(b.addT0) - from) : ReadBlock(w2).addT0[k] = b.addT0[from + k]
  <2>1. CASE isis
    BY <1>1, <1>4, <2>1
  <2>2. CASE ~isis
    <3>1. PICK a : a = b.addT0
      OBVIOUS
    <3>2. from \in 0..Len(a) /\ a \in Seq(Seq(Int))
      BY <1>3, <3>1, CountLine
    <3>3. w2 = FlattenSeq([k \in 1..(Len(a) - from) |-> WriteAddT0(a[from + k])])
      BY <1>1, <2>2, <3>1
    <3>4. /\ w2 \in Seq(Lines) /\ ReadBlock(w2).t0 = <<>>
          /\ (\A k \in 1..Len(a) : a[k] # <<>>) =>
              /\ Len(ReadBlock(w2).addT0) = Len(a) - from
              /\ \A k \in 1..(Len(a) - from) : ReadBlock(w2).addT0[k] = a[from + k]
      BY <3>2, <3>3, MissingAddT0s, ZenonT(30)
    <3> QED BY <2>2, <3>1, <3>4 DEF NoEmpty
  <2> QED BY <2>1, <2>2
<1>7. ASSUME NEW word \in {"background", "data"}, NEW range \in [1..4 -> Int]
      PROVE  /\ <<WriteRange(word, range)>> \in Seq(Lines)
             /\ ReadBlock(<<WriteRange(word, range)>>).t0 = <<>>
             /\ ReadBlock(<<WriteRange(word, range)>>).addT0 = <<>>
  <2>1. PICK l : l = WriteRange(word, range)
    OBVIOUS
  <2>2. l \in Lines
    BY <2>1, WriteRangeIs DEF Words
  <2>3. l.word \notin {"t0", "addt0"}
    BY <2>1 DEF WriteRange, Line
  <2> QED BY <2>1, <2>2, <2>3, ReadOther
<1>8. w3 \in Seq(Lines) /\ ReadBlock(w3).t0 = <<>> /\ ReadBlock(w3).addT0 = <<>>
  BY <1>1, <1>3, <1>4, <1>7
<1>9. w4 \in Seq(Lines) /\ ReadBlock(w4).t0 = <<>> /\ ReadBlock(w4).addT0 = <<>>
  BY <1>1, <1>3, <1>4, <1>7
(* The four of them together. *)
<1>10. ASSUME NEW s \in Seq(Lines), NEW t \in Seq(Lines), ReadBlock(t).t0 = <<>>, ReadBlock(t).addT0 = <<>>
       PROVE  /\ s \o t \in Seq(Lines)
              /\ ReadBlock(s \o t).t0 = ReadBlock(s).t0 /\ ReadBlock(s \o t).addT0 = ReadBlock(s).addT0
  <2>1. PICK x, y : x = ReadBlock(s).t0 /\ y = ReadBlock(s).addT0
    OBVIOUS
  <2>2. x \in Seq(Int) /\ y \in Seq(Seq(Int))
    BY <2>1, ReadBlockIs DEF Blocks
  <2>3. x \o <<>> = x /\ y \o <<>> = y
    BY <2>2, ConcatEmptySeq
  <2>4. s \o t \in Seq(Lines)
    OBVIOUS
  <2>5. /\ ReadBlock(s \o t).t0 = ReadBlock(s).t0 \o ReadBlock(t).t0
        /\ ReadBlock(s \o t).addT0 = ReadBlock(s).addT0 \o ReadBlock(t).addT0
    BY ReadConcat
  <2> QED BY <1>10, <2>1, <2>3, <2>4, <2>5
<1>11. /\ w1 \o w2 \in Seq(Lines)
       /\ ReadBlock(w1 \o w2).t0 = ReadBlock(w1).t0
       /\ ReadBlock(w1 \o w2).addT0 = ReadBlock(w2).addT0
  <2>1. PICK x, y : x = ReadBlock(w1).t0 /\ y = ReadBlock(w2).addT0
    OBVIOUS
  <2>2. x \in Seq(Int) /\ y \in Seq(Seq(Int))
    BY <1>5, <1>6, <2>1, ReadBlockIs DEF Blocks
  <2>3. x \o <<>> = x /\ <<>> \o y = y
    BY <2>2, ConcatEmptySeq
  <2>4. w1 \o w2 \in Seq(Lines)
    BY <1>5, <1>6
  <2>5. /\ ReadBlock(w1 \o w2).t0 = ReadBlock(w1).t0 \o ReadBlock(w2).t0
        /\ ReadBlock(w1 \o w2).addT0 = ReadBlock(w1).addT0 \o ReadBlock(w2).addT0
    BY <1>5, <1>6, ReadConcat
  <2> QED BY <1>5, <1>6, <2>1, <2>3, <2>4, <2>5
<1>12. PICK u : u = (w1 \o w2) \o w3
  OBVIOUS
<1>13. u \in Seq(Lines) /\ ReadBlock(u).t0 = ReadBlock(w1).t0 /\ ReadBlock(u).addT0 = ReadBlock(w2).addT0
  BY <1>8, <1>10, <1>11, <1>12
<1>14. w \in Seq(Lines) /\ ReadBlock(w).t0 = ReadBlock(w1).t0 /\ ReadBlock(w).addT0 = ReadBlock(w2).addT0
  <2>1. w = u \o w4
    BY <1>2, <1>12
  <2>2. /\ u \o w4 \in Seq(Lines)
        /\ ReadBlock(u \o w4).t0 = ReadBlock(u).t0 /\ ReadBlock(u \o w4).addT0 = ReadBlock(u).addT0
    BY <1>9, <1>10, <1>13
  <2> QED BY <1>13, <2>1, <2>2, Zenon
<1> QED BY <1>5, <1>6, <1>14

FitWords == {"fit", "fit fgb"}

LEMMA WrittenLine ==
  ASSUME NEW lines \in Seq(Lines), NEW b, Writable(lines, b), NEW i \in 1..Len(lines), NEW isis \in BOOLEAN,
         NEW w, w = WriteLine(lines, i, b, isis), NEW from, from = AddT0LinesBefore(lines, i)
  PROVE  /\ w \in Seq(Lines)
         /\ ReadBlock(w).t0 = IF \/ lines[i].word = "t0"
                                 \/ lines[i].word \in FitWords /\ ~Has(lines, "t0") /\ ~isis
                              THEN b.t0 ELSE <<>>
         /\ lines[i].word = "addt0" => ReadBlock(w).addT0 = <<b.addT0[from + 1]>>
         /\ lines[i].word \notin FitWords \cup {"addt0"} => ReadBlock(w).addT0 = <<>>
         /\ lines[i].word \in FitWords /\ isis => ReadBlock(w).addT0 = <<>>
         /\ lines[i].word \in FitWords /\ ~isis /\ NoEmpty(b.addT0) =>
              /\ Len(ReadBlock(w).addT0) = Len(b.addT0) - from
              /\ \A k \in 1..(Len(b.addT0) - from) : ReadBlock(w).addT0[k] = b.addT0[from + k]
<1>1. lines[i].word \in Words
  <2>1. lines[i] \in Lines
    OBVIOUS
  <2> QED BY <2>1 DEF Lines
<1>2. b \in Block /\ b.t0 \in Seq(Int) /\ b.addT0 \in Seq(Seq(Int))
      /\ b.bkg \in [1..4 -> Int] /\ b.data \in [1..4 -> Int]
  BY DEF Writable, Block
<1>3. CASE lines[i].word = "t0"
  <2>1. PICK l : l = Line("t0", b.t0)
    OBVIOUS
  <2>2. l \in Lines /\ l.word = "t0" /\ l.n = b.t0 /\ w = <<l>>
    BY <1>2, <1>3, <2>1 DEF Line, Lines, Words, WriteLine
  <2>3. /\ ReadBlock(<<l>>).t0 = IF l.word = "t0" THEN l.n ELSE <<>>
        /\ ReadBlock(<<l>>).addT0 = IF l.word = "addt0" THEN <<l.n>> ELSE <<>>
    BY <2>2, ReadOne
  <2>4. <<l>> \in Seq(Lines)
    BY <2>2
  <2> QED BY <1>3, <2>2, <2>3, <2>4 DEF FitWords
<1>4. CASE lines[i].word = "addt0"
  <2>1. PICK l : l = Line("addt0", b.addT0[from + 1])
    OBVIOUS
  <2>2. from + 1 \in 1..Len(b.addT0)
    BY <1>4, CountLine
  <2>3. PICK a : a = b.addT0
    OBVIOUS
  <2>4. a[from + 1] \in Seq(Int)
    BY <1>2, <2>2, <2>3
  <2>5. l \in Lines /\ l.word = "addt0" /\ l.n = b.addT0[from + 1]
    BY <2>1, <2>3, <2>4 DEF Line, Lines, Words
  <2>6. w = <<l>>
    BY <1>4, <2>1 DEF WriteLine
  <2>7. /\ ReadBlock(<<l>>).t0 = IF l.word = "t0" THEN l.n ELSE <<>>
        /\ ReadBlock(<<l>>).addT0 = IF l.word = "addt0" THEN <<l.n>> ELSE <<>>
    BY <2>5, ReadOne
  <2>8. <<l>> \in Seq(Lines)
    BY <2>5
  <2> QED BY <1>4, <2>5, <2>6, <2>7, <2>8 DEF FitWords
<1>5. CASE lines[i].word \in {"background", "data"}
  <2>1. PICK word, range : /\ word = lines[i].word
                           /\ range = IF word = "background" THEN b.bkg ELSE b.data
    OBVIOUS
  <2>2. word \in {"background", "data"} /\ word \in Words /\ range \in [1..4 -> Int]
    BY <1>1, <1>2, <1>5, <2>1
  <2>3. PICK l : l = WriteRange(word, range)
    OBVIOUS
  <2>4. w = <<l>>
    BY <1>5, <2>1, <2>3 DEF WriteLine
  <2>5. l \in Lines /\ l.word \notin {"t0", "addt0"}
    <3>1. l \in Lines
      BY <2>2, <2>3, WriteRangeIs
    <3>2. l.word = word
      BY <2>3 DEF WriteRange, Line
    <3> QED BY <2>2, <3>1, <3>2
  <2>6. ReadBlock(<<l>>).t0 = <<>> /\ ReadBlock(<<l>>).addT0 = <<>> /\ <<l>> \in Seq(Lines)
    BY <2>5, ReadOther
  <2> QED BY <1>5, <2>4, <2>6 DEF FitWords
<1>6. CASE lines[i].word \in FitWords
  <2>1. PICK m, l : m = WriteMissing(lines, i, b, isis) /\ l = WriteFit(b)
    OBVIOUS
  <2>2. w = m \o <<l>>
    BY <1>6, <2>1 DEF WriteLine, FitWords
  <2>3. l \in Lines /\ l.word \notin {"t0", "addt0"}
    BY <1>2, <2>1, WriteFitIs
  <2>4. ReadBlock(<<l>>).t0 = <<>> /\ ReadBlock(<<l>>).addT0 = <<>> /\ <<l>> \in Seq(Lines)
    BY <2>3, ReadOther
  <2>5. /\ m \in Seq(Lines)
        /\ ReadBlock(m).t0 = IF ~Has(lines, "t0") /\ ~isis THEN b.t0 ELSE <<>>
        /\ isis => ReadBlock(m).addT0 = <<>>
        /\ ~isis /\ NoEmpty(b.addT0) =>
              /\ Len(ReadBlock(m).addT0) = Len(b.addT0) - from
              /\ \A k \in 1..(Len(b.addT0) - from) : ReadBlock(m).addT0[k] = b.addT0[from + k]
    BY <2>1, MissingLines
  <2>6. PICK x, y : x = ReadBlock(m).t0 /\ y = ReadBlock(m).addT0
    OBVIOUS
  <2>7. x \in Seq(Int) /\ y \in Seq(Seq(Int))
    BY <2>5, <2>6, ReadBlockIs DEF Blocks
  <2>8. x \o <<>> = x /\ y \o <<>> = y
    BY <2>7, ConcatEmptySeq
  <2>9. /\ ReadBlock(m \o <<l>>).t0 = ReadBlock(m).t0 \o ReadBlock(<<l>>).t0
        /\ ReadBlock(m \o <<l>>).addT0 = ReadBlock(m).addT0 \o ReadBlock(<<l>>).addT0
    BY <2>4, <2>5, ReadConcat
  <2>10. ReadBlock(w).t0 = x /\ ReadBlock(w).addT0 = y
    BY <2>2, <2>4, <2>6, <2>8, <2>9
  <2>11. w \in Seq(Lines)
    BY <2>2, <2>4, <2>5
  <2>12. lines[i].word # "t0" /\ lines[i].word # "addt0"
    BY <1>6 DEF FitWords
  <2> QED BY <1>6, <2>5, <2>6, <2>10, <2>11, <2>12
<1> QED BY <1>1, <1>3, <1>4, <1>5, <1>6 DEF Words, FitWords

Begins(s, t) == Len(t) <= Len(s) /\ \A i \in 1..Len(t) : s[i] = t[i]

LEMMA BeginsLonger ==
  ASSUME NEW X, NEW s \in Seq(X), NEW t \in Seq(X), NEW u \in Seq(X), Begins(s, t)
  PROVE  Begins(s \o u, t)
<1>1. Len(s \o u) = Len(s) + Len(u) /\ \A i \in 1..Len(s) : (s \o u)[i] = s[i]
  OBVIOUS
<1>2. PICK ls, lt, lu \in Nat : ls = Len(s) /\ lt = Len(t) /\ lu = Len(u)
  OBVIOUS
<1>3. lt <= ls /\ \A i \in 1..lt : s[i] = t[i]
  BY <1>2 DEF Begins
<1>4. ASSUME NEW i \in 1..lt PROVE (s \o u)[i] = t[i]
  <2>1. i \in 1..ls
    BY <1>3
  <2> QED BY <1>1, <1>2, <1>3, <2>1
<1>5. lt <= Len(s \o u)
  BY <1>1, <1>2, <1>3
<1> QED BY <1>2, <1>4, <1>5 DEF Begins

(* The file after each of the lines of the file before. *)
Writing(lines, b, isis, f) ==
  /\ f \in [0..Len(lines) -> Seq(Lines)] /\ f[0] = <<>>
  /\ \A i \in 1..Len(lines) :
       /\ WriteLine(lines, i, b, isis) \in Seq(Lines)
       /\ f[i] = f[i - 1] \o WriteLine(lines, i, b, isis)
  /\ WriteRun(lines, b, isis) = f[Len(lines)]

LEMMA Writes ==
  ASSUME NEW lines \in Seq(Lines), NEW b, Writable(lines, b), NEW isis \in BOOLEAN
  PROVE  \E f : Writing(lines, b, isis, f)
<1>1. PICK n \in Nat : n = Len(lines) /\ DOMAIN lines = 1..n
  OBVIOUS
<1>2. PICK seqs : seqs = [i \in DOMAIN lines |-> WriteLine(lines, i, b, isis)]
  OBVIOUS
<1>3. ASSUME NEW i \in 1..n PROVE WriteLine(lines, i, b, isis) \in Seq(Lines)
  BY <1>1, WrittenLine
<1>4. seqs \in Seq(Seq(Lines)) /\ Len(seqs) = n
  <2>1. PICK T : T = Seq(Lines)
    OBVIOUS
  <2>2. seqs \in [1..n -> T]
    BY <1>1, <1>2, <1>3, <2>1
  <2>3. seqs \in Seq(T) /\ Len(seqs) = n
    BY <2>2
  <2> QED BY <2>1, <2>3
<1>5. PICK f : Flattening(seqs, f, Lines)
  BY <1>4, Flattens
<1>6. f \in [0..n -> Seq(Lines)] /\ f[0] = <<>> /\ FlattenSeq(seqs) = f[n]
      /\ \A i \in 1..n : f[i] = f[i - 1] \o seqs[i]
  BY <1>4, <1>5, Zenon DEF Flattening
<1>7. WriteRun(lines, b, isis) = f[n]
  BY <1>2, <1>6 DEF WriteRun
<1>8. \A i \in 1..n : f[i] = f[i - 1] \o WriteLine(lines, i, b, isis)
  BY <1>1, <1>2, <1>6
<1>9. Writing(lines, b, isis, f)
  BY <1>1, <1>3, <1>6, <1>7, <1>8, Zenon DEF Writing
<1> QED BY <1>9

(* The t0's of the block are the first that the next session reads, if it  *)
(* reads any; and it does if there has been a line for them.               *)
LEMMA WrittenT0s ==
  ASSUME NEW lines \in Seq(Lines), NEW b, Writable(lines, b), NEW isis \in BOOLEAN,
         NEW w, w = WriteRun(lines, b, isis)
  PROVE  /\ w \in Seq(Lines)
         /\ ReadBlock(w).t0 = <<>> \/ Begins(ReadBlock(w).t0, b.t0)
         /\ Has(lines, "t0") => Begins(ReadBlock(w).t0, b.t0)
         /\ b.t0 = <<>> => ReadBlock(w).t0 = <<>>
<1>1. PICK n \in Nat : n = Len(lines) /\ DOMAIN lines = 1..n
  OBVIOUS
<1>2. PICK f : Writing(lines, b, isis, f)
  BY Writes
<1>3. PICK t : t = b.t0
  OBVIOUS
<1>4. t \in Seq(Int)
  BY <1>3 DEF Writable, Block
<1> DEFINE Good(m) == /\ ReadBlock(f[m]).t0 = <<>> \/ Begins(ReadBlock(f[m]).t0, t)
                      /\ (\E j \in 1..m : lines[j].word = "t0") => Begins(ReadBlock(f[m]).t0, t)
                      /\ t = <<>> => ReadBlock(f[m]).t0 = <<>>
<1>5. PICK good4 : good4 = {m \in 0..n : Good(m)}
  OBVIOUS
<1>6. 0 \in good4
  <2>1. ReadBlock(f[0]).t0 = <<>>
    BY <1>2, ReadNothing DEF Writing, NoBlock
  <2>2. Good(0)
    BY <2>1
  <2>3. 0 \in 0..n
    OBVIOUS
  <2> HIDE DEF Good
  <2> QED BY <1>5, <2>2, <2>3
<1>7. ASSUME NEW m \in 0..(n - 1), m \in good4 PROVE m + 1 \in good4
  <2>1. PICK i \in 1..n : i = m + 1
    OBVIOUS
  <2>2. i - 1 = m /\ i \in 0..n /\ m \in 0..n
    BY <2>1
  <2>3. PICK w1 : w1 = WriteLine(lines, i, b, isis)
    OBVIOUS
  <2>4. f[m] \in Seq(Lines) /\ w1 \in Seq(Lines) /\ f[i] = f[m] \o w1
    BY <1>1, <1>2, <2>2, <2>3 DEF Writing
  <2>5. PICK r, s, u : r = ReadBlock(f[m]).t0 /\ s = ReadBlock(f[i]).t0 /\ u = ReadBlock(w1).t0
    OBVIOUS
  <2>6. s = r \o u
    BY <2>4, <2>5, ReadConcat
  <2>7. r \in Seq(Int) /\ u \in Seq(Int)
    BY <2>4, <2>5, ReadBlockIs DEF Blocks
  <2>8. (u = t \/ u = <<>>) /\ (lines[i].word = "t0" => u = t)
    BY <1>1, <1>3, <2>3, <2>5, WrittenLine
  <2>9. Good(m)
    BY <1>5, <1>7
  <2>10. Begins(t, t)
    BY <1>4 DEF Begins
  <2>11. r \o <<>> = r /\ <<>> \o u = u
    BY <2>7, ConcatEmptySeq
  <2>12. Begins(r, t) => Begins(s, t)
    BY <1>4, <2>6, <2>7, BeginsLonger
  <2>13. r = <<>> => s = u
    BY <2>6, <2>11
  <2>14. r = <<>> \/ Begins(r, t)
    BY <2>5, <2>9
  <2>15. s = <<>> \/ Begins(s, t)
    BY <2>8, <2>10, <2>12, <2>13, <2>14
  <2>16. ASSUME NEW j \in 1..i, lines[j].word = "t0" PROVE Begins(s, t)
    <3>1. CASE j \in 1..m
      BY <2>5, <2>9, <2>12, <2>16, <3>1
    <3>2. CASE j = i
      BY <2>8, <2>10, <2>12, <2>13, <2>14, <2>16, <3>2
    <3> QED BY <2>1, <3>1, <3>2
  <2>17. t = <<>> => s = <<>>
    BY <2>5, <2>8, <2>9, <2>13
  <2>18. Good(i)
    BY <2>5, <2>15, <2>16, <2>17
  <2> HIDE DEF Good
  <2> QED BY <1>5, <2>1, <2>2, <2>18
<1>8. 0..n \subseteq good4
  BY <1>6, <1>7, UpTo
<1>9. Good(n)
  BY <1>5, <1>8
<1>10. w = f[n] /\ n \in 0..n /\ w \in Seq(Lines)
  <2>1. n \in 0..n
    OBVIOUS
  <2>2. w = f[n] /\ f \in [0..n -> Seq(Lines)]
    BY <1>1, <1>2, Zenon DEF Writing
  <2> QED BY <2>1, <2>2
<1>11. Has(lines, "t0") => \E j \in 1..n : lines[j].word = "t0"
  BY <1>1 DEF Has
<1> QED BY <1>3, <1>9, <1>10, <1>11

(* The addt0's of the block are the first that the next session reads; if  *)
(* there has been a line for one, it reads one; if there has been a place  *)
(* for all, it reads all.                                                  *)
LEMMA WrittenAddT0s ==
  ASSUME NEW lines \in Seq(Lines), NEW b, Writable(lines, b), NEW isis \in BOOLEAN, NoEmpty(b.addT0),
         NEW a, a = ReadBlock(WriteRun(lines, b, isis)).addT0
  PROVE  /\ a \in Seq(Seq(Int))
         /\ \A k \in 1..Len(b.addT0) : k <= Len(a) => a[k] = b.addT0[k]
         /\ AddT0LinesBefore(lines, Len(lines) + 1) > 0 => a # <<>>
         /\ (\E j \in 1..Len(lines) : lines[j].word \in FitWords) /\ ~isis => Len(a) >= Len(b.addT0)
<1>1. PICK n \in Nat : n = Len(lines) /\ DOMAIN lines = 1..n
  OBVIOUS
<1>2. PICK f : Writing(lines, b, isis, f)
  BY Writes
<1>3. PICK t, T : t = b.addT0 /\ T = Seq(Int)
  OBVIOUS
<1>4. t \in Seq(T)
  BY <1>3 DEF Writable, Block
<1>5. PICK K \in Nat : K = Len(t)
  BY <1>4
<1> DEFINE Good(m) == LET r == ReadBlock(f[m]).addT0
                          c == AddT0LinesBefore(lines, m + 1)
                      IN  /\ Len(r) >= c /\ (Len(r) = c \/ Len(r) >= K)
                          /\ \A k \in 1..K : k <= Len(r) => r[k] = t[k]
                          /\ (\E j \in 1..m : lines[j].word \in FitWords) /\ ~isis => Len(r) >= K
<1>6. PICK good5 : good5 = {m \in 0..n : Good(m)}
  OBVIOUS
<1>7. 0 \in good5
  <2>1. ReadBlock(f[0]).addT0 = <<>>
    BY <1>2, ReadNothing DEF Writing, NoBlock
  <2>2. AddT0LinesBefore(lines, 0 + 1) = 0
    BY CountUp
  <2>3. Len(<<>>) = 0
    OBVIOUS
  <2>4. Good(0)
    BY <2>1, <2>2, <2>3
  <2>5. 0 \in 0..n
    OBVIOUS
  <2> HIDE DEF Good
  <2> QED BY <1>6, <2>4, <2>5
<1>8. ASSUME NEW m \in 0..(n - 1), m \in good5 PROVE m + 1 \in good5
  <2>1. PICK i \in 1..n : i = m + 1
    OBVIOUS
  <2>2. i - 1 = m /\ i \in 0..n /\ m \in 0..n
    BY <2>1
  <2>3. PICK w1 : w1 = WriteLine(lines, i, b, isis)
    OBVIOUS
  <2>4. f[m] \in Seq(Lines) /\ w1 \in Seq(Lines) /\ f[i] = f[m] \o w1
    BY <1>1, <1>2, <2>2, <2>3 DEF Writing
  <2>5. PICK r, s, u : r = ReadBlock(f[m]).addT0 /\ s = ReadBlock(f[i]).addT0 /\ u = ReadBlock(w1).addT0
    OBVIOUS
  <2>6. s = r \o u
    BY <2>4, <2>5, ReadConcat, ZenonT(30)
  <2>7. r \in Seq(T) /\ u \in Seq(T)
    BY <1>3, <2>4, <2>5, ReadBlockIs DEF Blocks
  <2>8. PICK c, c2 : c = AddT0LinesBefore(lines, i) /\ c2 = AddT0LinesBefore(lines, i + 1)
    OBVIOUS
  <2>9. c \in 0..K /\ c2 = c + (IF lines[i].word = "addt0" THEN 1 ELSE 0)
    <3>1. i \in Nat \ {0}
      OBVIOUS
    <3>2. c \in 0..K
      BY <1>1, <1>3, <1>5, <2>8, CountLine
    <3> QED BY <2>8, <3>1, <3>2, CountUp
  <2>10. PICK lr, lu \in Nat : lr = Len(r) /\ lu = Len(u)
    BY <2>7
  <2>11. /\ lr >= c /\ (lr = c \/ lr >= K) /\ \A k \in 1..K : k <= lr => r[k] = t[k]
         /\ (\E j \in 1..m : lines[j].word \in FitWords) /\ ~isis => lr >= K
    <3>1. Good(m)
      BY <1>6, <1>8
    <3> QED BY <2>1, <2>5, <2>8, <2>10, <3>1
  <2>12. Len(s) = lr + lu /\ (\A k \in 1..lr : s[k] = r[k]) /\ (\A k \in 1..lu : s[lr + k] = u[k])
    BY <2>6, <2>7, <2>10
  <2>13. \/ lines[i].word = "addt0" /\ u = <<t[c + 1]>>
         \/ lines[i].word # "addt0" /\ u = <<>>
         \/ lines[i].word # "addt0" /\ Len(u) = K - c /\ \A k \in 1..(K - c) : u[k] = t[c + k]
    <3>1. /\ lines[i].word = "addt0" => u = <<t[c + 1]>>
          /\ lines[i].word \notin FitWords \cup {"addt0"} => u = <<>>
          /\ lines[i].word \in FitWords /\ isis => u = <<>>
          /\ lines[i].word \in FitWords /\ ~isis => Len(u) = K - c /\ \A k \in 1..(K - c) : u[k] = t[c + k]
      BY <1>1, <1>3, <1>5, <2>3, <2>5, <2>8, WrittenLine, SMTT(30)
    <3> QED BY <3>1 DEF FitWords
  <2>14. ASSUME NEW k \in 1..K, k <= Len(s) PROVE s[k] = t[k]
    <3>1. CASE k <= lr
      BY <2>11, <2>12, <3>1
    <3>2. CASE ~(k <= lr)
      <4>1. lr = c
        BY <2>11, <3>2
      <4>2. k - lr \in 1..lu /\ lr + (k - lr) = k
        BY <2>12, <2>14, <3>2
      <4>3. s[k] = u[k - lr]
        BY <2>12, <4>2
      <4>4. CASE u = <<t[c + 1]>>
        <5>1. lu = 1
          BY <2>10, <4>4
        <5>2. k = c + 1 /\ k - lr = 1
          BY <4>1, <4>2, <5>1
        <5> QED BY <4>3, <4>4, <5>2
      <4>5. CASE u = <<>>
        <5>1. lu = 0
          BY <2>10, <4>5
        <5> QED BY <4>2, <5>1
      <4>6. CASE Len(u) = K - c /\ \A l \in 1..(K - c) : u[l] = t[c + l]
        <5>1. k - lr \in 1..(K - c) /\ c + (k - lr) = k
          BY <2>9, <2>10, <4>1, <4>2, <4>6
        <5> QED BY <4>3, <4>6, <5>1
      <4> QED BY <2>13, <4>4, <4>5, <4>6
    <3> QED BY <3>1, <3>2
  <2>15. Len(s) >= c2 /\ (Len(s) = c2 \/ Len(s) >= K)
    <3>1. CASE lines[i].word = "addt0" /\ u = <<t[c + 1]>>
      <4>1. lu = 1
        BY <2>10, <3>1
      <4> QED BY <2>9, <2>11, <2>12, <3>1, <4>1
    <3>2. CASE lines[i].word # "addt0" /\ u = <<>>
      <4>1. lu = 0
        BY <2>10, <3>2
      <4> QED BY <2>9, <2>11, <2>12, <3>2, <4>1
    <3>3. CASE lines[i].word # "addt0" /\ Len(u) = K - c
      BY <2>9, <2>10, <2>11, <2>12, <3>3
    <3> QED BY <2>13, <3>1, <3>2, <3>3
  <2>16. (\E j \in 1..i : lines[j].word \in FitWords) /\ ~isis => Len(s) >= K
    <3>1. CASE lines[i].word \in FitWords /\ ~isis
      <4>1. Len(u) = K - c
        BY <1>1, <1>3, <1>5, <2>3, <2>5, <2>8, <3>1, WrittenLine
      <4> QED BY <2>9, <2>10, <2>11, <2>12, <4>1
    <3>2. CASE lines[i].word \notin FitWords
      <4>1. \A j \in 1..i : j \in 1..m \/ j = i
        BY <2>1
      <4>2. (\E j \in 1..i : lines[j].word \in FitWords) => \E j \in 1..m : lines[j].word \in FitWords
        BY <3>2, <4>1
      <4> QED BY <2>10, <2>11, <2>12, <4>2
    <3> QED BY <3>1, <3>2
  <2>17. Good(i)
    BY <2>5, <2>8, <2>14, <2>15, <2>16
  <2> HIDE DEF Good
  <2> QED BY <1>6, <2>1, <2>2, <2>17
<1>9. 0..n \subseteq good5
  BY <1>7, <1>8, UpTo
<1>10. n \in 0..n
  OBVIOUS
<1>11. Good(n)
  BY <1>6, <1>9, <1>10
<1>12. WriteRun(lines, b, isis) = f[n] /\ f[n] \in Seq(Lines)
  <2>1. WriteRun(lines, b, isis) = f[n] /\ f \in [0..n -> Seq(Lines)]
    BY <1>1, <1>2, Zenon DEF Writing
  <2> QED BY <1>10, <2>1
<1>13. a = ReadBlock(f[n]).addT0
  BY <1>12
<1>14. a \in Seq(T)
  BY <1>3, <1>12, <1>13, ReadBlockIs DEF Blocks
<1>15. AddT0LinesBefore(lines, n + 1) > 0 => a # <<>>
  <2>1. AddT0LinesBefore(lines, n + 1) \in Nat
    <3>1. n + 1 \in Nat \ {0}
      OBVIOUS
    <3> QED BY <3>1, CountUp
  <2>2. Len(a) >= AddT0LinesBefore(lines, n + 1)
    BY <1>11, <1>13
  <2>3. Len(<<>>) = 0
    OBVIOUS
  <2> QED BY <2>1, <2>2, <2>3
<1>16. \A k \in 1..Len(t) : k <= Len(a) => a[k] = t[k]
  BY <1>5, <1>11, <1>13
<1>17. (\E j \in 1..n : lines[j].word \in FitWords) /\ ~isis => Len(a) >= Len(t)
  BY <1>5, <1>11, <1>13
<1> QED BY <1>1, <1>3, <1>14, <1>15, <1>16, <1>17

(* If there has been no line for an addt0, and no place or nothing to       *)
(* write, the next session reads none.                                     *)
LEMMA NoAddT0sWritten ==
  ASSUME NEW lines \in Seq(Lines), NEW b, Writable(lines, b), NEW isis \in BOOLEAN,
         AddT0LinesBefore(lines, Len(lines) + 1) = 0,
         isis \/ (\A j \in 1..Len(lines) : lines[j].word \notin FitWords) \/ b.addT0 = <<>>
  PROVE  ReadBlock(WriteRun(lines, b, isis)).addT0 = <<>>
<1>1. PICK n \in Nat : n = Len(lines) /\ DOMAIN lines = 1..n
  OBVIOUS
<1>2. PICK f : Writing(lines, b, isis, f)
  BY Writes
<1>3. /\ f \in [0..n -> Seq(Lines)] /\ f[0] = <<>> /\ WriteRun(lines, b, isis) = f[n]
      /\ \A i \in 1..n : f[i] = f[i - 1] \o WriteLine(lines, i, b, isis)
      /\ \A i \in 1..n : WriteLine(lines, i, b, isis) \in Seq(Lines)
  BY <1>1, <1>2, Zenon DEF Writing
<1>4. PICK S : S = {m \in 0..n : ReadBlock(f[m]).addT0 = <<>>}
  OBVIOUS
<1>5. 0 \in S
  <2>1. ReadBlock(f[0]).addT0 = <<>>
    BY <1>3, ReadNothing DEF NoBlock
  <2> QED BY <1>4, <2>1
<1>6. ASSUME NEW m \in 0..(n - 1), m \in S PROVE m + 1 \in S
  <2>1. PICK i \in 1..n : i = m + 1
    OBVIOUS
  <2>2. i - 1 = m /\ i \in 0..n /\ m \in 0..n /\ i \in Nat \ {0} /\ i \in 1..(n + 1)
    BY <2>1
  <2>3. PICK w1 : w1 = WriteLine(lines, i, b, isis)
    OBVIOUS
  <2>4. f[m] \in Seq(Lines) /\ w1 \in Seq(Lines) /\ f[i] = f[m] \o w1
    BY <1>3, <2>2, <2>3
  <2>5. PICK c : c = AddT0LinesBefore(lines, i)
    OBVIOUS
  <2>6. c = 0 /\ lines[i].word # "addt0"
    <3>1. c \in Nat /\ c <= 0
      BY <1>1, <2>2, <2>5, CountGrows
    <3>2. i + 1 \in 1..(n + 1)
      OBVIOUS
    <3>3. AddT0LinesBefore(lines, i + 1) \in Nat /\ AddT0LinesBefore(lines, i + 1) <= 0
      BY <1>1, <3>2, CountGrows
    <3>4. AddT0LinesBefore(lines, i + 1) = c + (IF lines[i].word = "addt0" THEN 1 ELSE 0)
      BY <2>2, <2>5, CountUp
    <3> QED BY <3>1, <3>3, <3>4
  <2>7. PICK u : u = ReadBlock(w1).addT0
    OBVIOUS
  <2>8. u = <<>>
    <3>1. i \in 1..Len(lines)
      BY <1>1
    <3>0. /\ lines[i].word \notin FitWords \cup {"addt0"} => u = <<>>
          /\ lines[i].word \in FitWords /\ isis => u = <<>>
          /\ lines[i].word \in FitWords /\ ~isis /\ NoEmpty(b.addT0) => Len(u) = Len(b.addT0) - c
      BY <2>3, <2>5, <2>7, <3>1, WrittenLine
    <3>2. CASE lines[i].word \notin FitWords \cup {"addt0"}
      BY <3>0, <3>2
    <3>3. CASE lines[i].word \in FitWords /\ isis
      BY <3>0, <3>3
    <3>4. CASE lines[i].word \in FitWords /\ ~isis
      <4>1. b.addT0 = <<>>
        BY <3>1, <3>4
      <4>2. Len(b.addT0) = 0 /\ NoEmpty(b.addT0)
        BY <4>1 DEF NoEmpty
      <4>3. Len(u) = 0
        BY <2>6, <3>0, <3>4, <4>2
      <4>4. u \in Seq(Seq(Int))
        BY <2>4, <2>7, ReadBlockIs DEF Blocks
      <4> QED BY <4>3, <4>4, EmptySeq
    <3> QED BY <2>6, <3>2, <3>3, <3>4
  <2>9. ReadBlock(f[i]).addT0 = ReadBlock(f[m]).addT0 \o u
    BY <2>4, <2>7, ReadConcat, ZenonT(30)
  <2>10. ReadBlock(f[m]).addT0 = <<>> /\ <<>> \o <<>> = <<>>
    BY <1>4, <1>6
  <2> QED BY <1>4, <2>1, <2>2, <2>8, <2>9, <2>10
<1>7. n \in S
  <2>1. 0..n \subseteq S
    BY <1>5, <1>6, UpTo
  <2> QED BY <2>1
<1> QED BY <1>3, <1>4, <1>7

-----------------------------------------------------------------------------
(* What is known of the block of a file that has been accepted.            *)

Accepted(l) ==
  /\ l.word \in {"t0", "addt0"} => l.n # <<>> /\ \A i \in DOMAIN l.n : l.n[i] >= 0
  /\ l.word \in FitWords => Len(l.n) = 2

Known(b) ==
  /\ \A d \in 1..Len(b.t0) : b.t0[d] >= 0
  /\ NoEmpty(b.addT0)
  /\ \A k \in 1..Len(b.addT0) : \A d \in 1..Len(b.addT0[k]) : b.addT0[k][d] >= 0

LEMMA LegalAccepted ==
  ASSUME NEW l, LegalLine(l) \/ LegalGlobalLine(l), l \in Lines
  PROVE  Accepted(l)
<1>1. l.word = "data" \/ LegalLine(l)
  BY DEF LegalGlobalLine
<1>2. CASE l.word = "data"
  BY <1>2 DEF Accepted, FitWords
<1>3. CASE LegalLine(l)
  BY <1>3 DEF Accepted, LegalLine, FitWords, Lines, Words
<1> QED BY <1>1, <1>2, <1>3

LEMMA PairOfTwo ==
  ASSUME NEW n \in Seq(Int), Len(n) = 2
  PROVE  n \in Int \X Int /\ ReadOffset(n) \in Int \X Int
<1>1. n = <<n[1], n[2]>> /\ n[1] \in Int /\ n[2] \in Int
  <2>1. PICK a, b : a = n[1] /\ b = n[2]
    OBVIOUS
  <2>2. a \in Int /\ b \in Int
    BY <2>1
  <2>3. PICK m : m = <<a, b>>
    OBVIOUS
  <2>4. m \in Seq(Int) /\ Len(m) = 2 /\ m[1] = a /\ m[2] = b
    BY <2>2, <2>3
  <2>5. \A i \in 1..Len(n) : n[i] = m[i]
    BY <2>1, <2>4
  <2>6. n = m
    BY <2>4, <2>5, SeqEqual
  <2> QED BY <2>1, <2>2, <2>3, <2>6
<1> QED BY <1>1 DEF ReadOffset

LEMMA AcceptedBlock ==
  ASSUME NEW lines \in Seq(Lines), \A i \in DOMAIN lines : Accepted(lines[i])
  PROVE  ReadBlock(lines) \in Block /\ Known(ReadBlock(lines))
<1>1. PICK n \in Nat : n = Len(lines) /\ DOMAIN lines = 1..n
  OBVIOUS
<1>2. PICK f : ReadsOf(lines, f)
  BY Reads
<1> DEFINE Good(b) == b.offset \in Int \X Int /\ b.time \in Int \X Int /\ Known(b)
<1>3. PICK good6 : good6 = {m \in 0..n : Good(f[m])}
  OBVIOUS
<1>4. 0 \in good6
  <2>1. f[0] = NoBlock
    BY <1>2 DEF ReadsOf
  <2>2. Good(NoBlock)
    BY DEF NoBlock, Known, NoEmpty, None, Undefined
  <2>3. 0 \in 0..n
    OBVIOUS
  <2> HIDE DEF Good
  <2> QED BY <1>3, <2>1, <2>2, <2>3
<1>5. ASSUME NEW m \in 0..(n - 1), m \in good6 PROVE m + 1 \in good6
  <2>1. PICK i \in 1..n : i = m + 1
    OBVIOUS
  <2>2. i - 1 = m /\ i \in 0..n /\ m \in 0..n
    BY <2>1
  <2>3. PICK b, c, l : b = f[m] /\ c = f[i] /\ l = lines[i]
    OBVIOUS
  <2>4. b \in Blocks(lines) /\ l \in Lines /\ c = ReadLine(b, l) /\ Accepted(l)
    BY <1>1, <1>2, <2>2, <2>3 DEF ReadsOf
  <2>5. /\ c.t0 = IF l.word = "t0" THEN b.t0 \o l.n ELSE b.t0
        /\ c.addT0 = IF l.word = "addt0" THEN Append(b.addT0, l.n) ELSE b.addT0
        /\ c.offset = IF l.word = "fit fgb" THEN ReadOffset(l.n) ELSE b.offset
        /\ c.time = IF l.word = "fit" THEN l.n ELSE b.time
    BY <2>4, ReadT0s
  <2>6. b.t0 \in Seq(Int) /\ b.addT0 \in Seq(Seq(Int)) /\ l.n \in Seq(Int)
    BY <2>4 DEF Blocks, Lines
  <2>7. Good(b)
    BY <1>3, <1>5, <2>3
  <2>8. c.offset \in Int \X Int /\ c.time \in Int \X Int
    <3>1. l.word \in FitWords => l.n \in Int \X Int /\ ReadOffset(l.n) \in Int \X Int
      BY <2>4, <2>6, PairOfTwo DEF Accepted
    <3> QED BY <2>5, <2>7, <3>1 DEF FitWords
  <2>9. \A d \in 1..Len(c.t0) : c.t0[d] >= 0
    <3>1. CASE l.word = "t0"
      <4>1. PICK x, y : x = b.t0 /\ y = l.n
        OBVIOUS
      <4>2. /\ x \in Seq(Int) /\ y \in Seq(Int) /\ \A d \in 1..Len(x) : x[d] >= 0
            /\ \A d \in 1..Len(y) : y[d] >= 0
        BY <2>4, <2>6, <2>7, <3>1, <4>1 DEF Known, Accepted
      <4>3. \A d \in 1..Len(x \o y) : (x \o y)[d] >= 0
        BY <4>2
      <4> QED BY <2>5, <3>1, <4>1, <4>3
    <3>2. CASE l.word # "t0"
      BY <2>5, <2>7, <3>2 DEF Known
    <3> QED BY <3>1, <3>2
  <2>10. NoEmpty(c.addT0) /\ \A k \in 1..Len(c.addT0) : \A d \in 1..Len(c.addT0[k]) : c.addT0[k][d] >= 0
    <3>1. CASE l.word = "addt0"
      <4>1. PICK x, y, T : x = b.addT0 /\ y = l.n /\ T = Seq(Int)
        OBVIOUS
      <4>2. /\ x \in Seq(T) /\ y \in T /\ y # <<>>
            /\ \A k \in 1..Len(x) : x[k] # <<>> /\ \A d \in 1..Len(x[k]) : x[k][d] >= 0
            /\ \A d \in 1..Len(y) : y[d] >= 0
        BY <2>4, <2>6, <2>7, <3>1, <4>1, SMTT(30) DEF Known, NoEmpty, Accepted
      <4>3. Len(Append(x, y)) = Len(x) + 1 /\ Append(x, y)[Len(x) + 1] = y
            /\ \A k \in 1..Len(x) : Append(x, y)[k] = x[k]
        BY <4>2
      <4>4. ASSUME NEW k \in 1..(Len(x) + 1)
            PROVE  Append(x, y)[k] # <<>> /\ \A d \in 1..Len(Append(x, y)[k]) : Append(x, y)[k][d] >= 0
        <5>1. CASE k = Len(x) + 1
          BY <4>2, <4>3, <5>1
        <5>2. CASE k \in 1..Len(x)
          BY <4>2, <4>3, <5>2
        <5>3. Len(x) \in Nat
          BY <4>2
        <5> QED BY <5>1, <5>2, <5>3
      <4>5. c.addT0 = Append(x, y)
        BY <2>5, <3>1, <4>1
      <4> QED BY <4>3, <4>4, <4>5 DEF NoEmpty
    <3>2. CASE l.word # "addt0"
      BY <2>5, <2>7, <3>2 DEF Known
    <3> QED BY <3>1, <3>2
  <2>11. Good(c)
    BY <2>8, <2>9, <2>10 DEF Known
  <2> HIDE DEF Good
  <2> QED BY <1>3, <2>1, <2>2, <2>3, <2>11
<1>6. 0..n \subseteq good6
  BY <1>4, <1>5, UpTo
<1>7. n \in good6
  BY <1>6
<1>8. PICK b : b = ReadBlock(lines)
  OBVIOUS
<1>9. Good(b)
  BY <1>1, <1>2, <1>3, <1>7, <1>8 DEF ReadsOf
<1>10. b \in Block
  <2>1. PICK offsets, times :
        /\ offsets = {NoBlock.offset} \cup {ReadOffset(lines[i].n) : i \in DOMAIN lines}
        /\ times = {NoBlock.time} \cup {lines[i].n : i \in DOMAIN lines}
    OBVIOUS
  <2>2. b \in [t0 : Seq(Int), addT0 : Seq(Seq(Int)), bkg : [1..4 -> Int], data : [1..4 -> Int], inBins : BOOLEAN,
               offset : offsets, time : times]
    BY <1>8, <2>1, ReadBlockIs DEF Blocks
  <2>3. b.offset \in Int \X Int /\ b.time \in Int \X Int
    BY <1>9
  <2>4. PICK pairs, ranges : pairs = Int \X Int /\ ranges = [1..4 -> Int]
    OBVIOUS
  <2>5. b \in [t0 : Seq(Int), addT0 : Seq(Seq(Int)), bkg : ranges, data : ranges, inBins : BOOLEAN,
               offset : pairs, time : pairs]
    BY <2>2, <2>3, <2>4
  <2> QED BY <2>4, <2>5 DEF Block
<1> QED BY <1>8, <1>9, <1>10

LEMMA HasT0 ==
  ASSUME NEW lines \in Seq(Lines), ReadBlock(lines).t0 # <<>>
  PROVE  Has(lines, "t0")
<1>1. PICK n \in Nat : n = Len(lines) /\ DOMAIN lines = 1..n
  OBVIOUS
<1>2. PICK f : ReadsOf(lines, f)
  BY Reads
<1>3. SUFFICES ASSUME \A i \in 1..n : lines[i].word # "t0" PROVE FALSE
  BY <1>1 DEF Has
<1>4. PICK good7 : good7 = {m \in 0..n : f[m].t0 = <<>>}
  OBVIOUS
<1>5. 0 \in good7
  BY <1>2, <1>4 DEF ReadsOf, NoBlock
<1>6. ASSUME NEW m \in 0..(n - 1), m \in good7 PROVE m + 1 \in good7
  <2>1. PICK i \in 1..n : i = m + 1
    OBVIOUS
  <2>2. i - 1 = m /\ i \in 0..n /\ m \in 0..n
    BY <2>1
  <2>3. f[m] \in Blocks(lines) /\ lines[i] \in Lines /\ f[i] = ReadLine(f[m], lines[i])
    BY <1>1, <1>2, <2>2 DEF ReadsOf
  <2>4. f[i].t0 = f[m].t0
    BY <1>3, <2>3, ReadT0s, ZenonT(30)
  <2> QED BY <1>4, <1>6, <2>1, <2>2, <2>4
<1>7. 0..n \subseteq good7
  BY <1>5, <1>6, UpTo
<1>8. n \in good7
  BY <1>7
<1> QED BY <1>1, <1>2, <1>4, <1>8 DEF ReadsOf

(* The GLOBAL block keeps its t0 lines. *)
LEMMA WrittenGlobal ==
  ASSUME NEW lines \in Seq(Lines), NEW b \in Block, NEW w, w = WriteGlobal(lines, b)
  PROVE  w \in Seq(Lines) /\ ReadBlock(w).t0 = ReadBlock(lines).t0
<1>1. PICK n \in Nat : n = Len(lines) /\ DOMAIN lines = 1..n
  OBVIOUS
<1>2. ASSUME NEW i \in 1..n
      PROVE  /\ lines[i] \in Lines /\ w[i] \in Lines
             /\ \/ w[i] = lines[i]
                \/ lines[i].word # "t0" /\ w[i].word # "t0"
  <2>1. lines[i] \in Lines
    BY <1>1
  <2>2. CASE lines[i].word = "data"
    <3>1. w[i] = WriteRange("data", b.data)
      BY <1>1, <2>2 DEF WriteGlobal
    <3>2. b.data \in [1..4 -> Int] /\ "data" \in Words
      BY DEF Block, Words
    <3>3. w[i] \in Lines
      BY <3>1, <3>2, WriteRangeIs
    <3>4. w[i].word = "data"
      BY <3>1 DEF WriteRange, Line
    <3> QED BY <2>1, <2>2, <3>3, <3>4
  <2>3. CASE lines[i].word \in {"fit", "fit fgb"}
    <3>1. w[i] = WriteFit(b)
      BY <1>1, <2>3 DEF WriteGlobal
    <3>2. w[i] \in Lines /\ w[i].word # "t0"
      BY <3>1, WriteFitIs
    <3> QED BY <2>1, <2>3, <3>2
  <2>4. CASE lines[i].word \notin {"data", "fit", "fit fgb"}
    <3>1. w[i] = lines[i]
      BY <1>1, <2>4 DEF WriteGlobal
    <3> QED BY <2>1, <3>1
  <2> QED BY <2>2, <2>3, <2>4
<1>3. w \in Seq(Lines) /\ Len(w) = n
  <2>1. DOMAIN w = 1..n /\ w = [i \in 1..n |-> w[i]]
    BY <1>1 DEF WriteGlobal
  <2>2. w \in [1..n -> Lines]
    BY <1>2, <2>1
  <2> QED BY <2>2
<1>4. PICK f : ReadsOf(lines, f)
  BY Reads
<1>5. PICK g : ReadsOf(w, g)
  BY <1>3, Reads
<1>6. PICK same : same = {m \in 0..n : g[m].t0 = f[m].t0}
  OBVIOUS
<1>7. 0 \in same
  BY <1>4, <1>5, <1>6 DEF ReadsOf
<1>8. ASSUME NEW m \in 0..(n - 1), m \in same PROVE m + 1 \in same
  <2>1. PICK i \in 1..n : i = m + 1
    OBVIOUS
  <2>2. i - 1 = m /\ i \in 0..n /\ m \in 0..n
    BY <2>1
  <2>3. f[m] \in Blocks(lines) /\ f[i] = ReadLine(f[m], lines[i])
    BY <1>1, <1>4, <2>2 DEF ReadsOf
  <2>4. g[m] \in Blocks(w) /\ g[i] = ReadLine(g[m], w[i])
    BY <1>3, <1>5, <2>2 DEF ReadsOf
  <2>5. f[i].t0 = IF lines[i].word = "t0" THEN f[m].t0 \o lines[i].n ELSE f[m].t0
    <3>1. PICK a, l : a = f[m] /\ l = lines[i]
      OBVIOUS
    <3>2. a \in Blocks(lines) /\ l \in Lines
      BY <1>2, <2>3, <3>1
    <3>3. ReadLine(a, l).t0 = IF l.word = "t0" THEN a.t0 \o l.n ELSE a.t0
      BY <3>2, ReadT0s
    <3> QED BY <2>3, <3>1, <3>3
  <2>6. g[i].t0 = IF w[i].word = "t0" THEN g[m].t0 \o w[i].n ELSE g[m].t0
    <3>1. PICK a, l : a = g[m] /\ l = w[i]
      OBVIOUS
    <3>2. a \in Blocks(w) /\ l \in Lines
      BY <1>2, <2>4, <3>1
    <3>3. ReadLine(a, l).t0 = IF l.word = "t0" THEN a.t0 \o l.n ELSE a.t0
      BY <1>3, <3>2, ReadT0s
    <3> QED BY <2>4, <3>1, <3>3
  <2>7. g[m].t0 = f[m].t0
    BY <1>6, <1>8
  <2>8. g[i].t0 = f[i].t0
    BY <1>2, <2>5, <2>6, <2>7
  <2> QED BY <1>6, <2>1, <2>2, <2>8
<1>9. 0..n \subseteq same
  BY <1>7, <1>8, UpTo
<1>10. n \in same
  BY <1>9
<1> QED BY <1>1, <1>3, <1>4, <1>5, <1>6, <1>10 DEF ReadsOf

-----------------------------------------------------------------------------
(* What GetProperT0 sets in a block.                                       *)

LEMMA GetAtIs ==
  ASSUME NEW s \in Seq(Int), NEW i
  PROVE  /\ GetAt(s, i) \in Int
         /\ i \in 1..Len(s) => GetAt(s, i) = s[i]
         /\ i \notin 1..Len(s) => GetAt(s, i) = None
<1>1. DOMAIN s = 1..Len(s) /\ \A j \in 1..Len(s) : s[j] \in Int
  OBVIOUS
<1>2. None \in Int
  BY DEF None
<1> QED BY <1>1, <1>2 DEF GetAt

LEMMA SetAtIs ==
  ASSUME NEW s \in Seq(Int), NEW i \in Nat \ {0}, NEW v \in Int, NEW t, t = SetAt(s, i, v)
  PROVE  /\ t \in Seq(Int) /\ Len(t) = (IF i <= Len(s) THEN Len(s) ELSE i) /\ t[i] = v
         /\ \A j \in 1..Len(s) : j # i => t[j] = s[j]
<1>1. PICK n \in Nat : n = Len(s) /\ DOMAIN s = 1..n
  OBVIOUS
<1>2. CASE i \in 1..n
  <2>1. t = [s EXCEPT ![i] = v]
    BY <1>1, <1>2 DEF SetAt
  <2>2. t \in Seq(Int) /\ Len(t) = n /\ t[i] = v /\ \A j \in 1..n : j # i => t[j] = s[j]
    BY <1>1, <1>2, <2>1
  <2> QED BY <1>1, <1>2, <2>2
<1>3. CASE i \notin 1..n
  <2>1. i > n
    BY <1>3
  <2>2. PICK more : more = [j \in 1..(i - n) |-> IF j = i - n THEN v ELSE 0]
    OBVIOUS
  <2>3. t = s \o more
    BY <1>1, <1>3, <2>2 DEF SetAt
  <2>4. i - n \in Nat /\ more \in Seq(Int) /\ Len(more) = i - n /\ more[i - n] = v
    BY <2>1, <2>2
  <2>5. t \in Seq(Int) /\ Len(t) = i /\ \A j \in 1..n : t[j] = s[j]
    BY <1>1, <2>3, <2>4
  <2>6. t[i] = v
    <3>1. i \in 1..(n + Len(more)) /\ i > n
      BY <2>1, <2>4
    <3>2. (s \o more)[i] = more[i - n]
      BY <1>1, <2>4, <3>1
    <3> QED BY <2>3, <2>4, <3>2
  <2> QED BY <1>1, <2>1, <2>5, <2>6
<1> QED BY <1>2, <1>3

(* An addt0 is kept, up to the one that has been set. *)
KeepsAddT0s(b, c, k, d) ==
  \A k2 \in 1..Len(b.addT0) : \A d2 \in 1..Len(b.addT0[k2]) :
    /\ d2 <= Len(c.addT0[k2])
    /\ k2 # k \/ d2 # d => c.addT0[k2][d2] = b.addT0[k2][d2]

LEMMA SetAddT0Is ==
  ASSUME NEW b \in Block, NEW k \in Nat \ {0}, NEW d \in Nat \ {0}, NEW v \in Int,
         NEW c, c = SetAddT0(b, k, d, v)
  PROVE  /\ c \in Block /\ c.t0 = b.t0
         /\ Len(c.addT0) = IF k <= Len(b.addT0) THEN Len(b.addT0) ELSE k
         /\ d <= Len(c.addT0[k]) /\ c.addT0[k][d] = v
         /\ KeepsAddT0s(b, c, k, d)
<1>1. PICK a, T : a = b.addT0 /\ T = Seq(Int)
  OBVIOUS
<1>2. a \in Seq(T)
  BY <1>1 DEF Block
<1>3. PICK n \in Nat : n = Len(a)
  BY <1>2
<1>4. PICK more : more = [j \in 1..(k - n) |-> <<>>]
  OBVIOUS
<1>5. <<>> \in T
  BY <1>1
<1>6. PICK grown : grown = a \o more
  OBVIOUS
<1>7. PICK g \in Nat : g = IF k <= n THEN n ELSE k
  OBVIOUS
<1>8. grown \in Seq(T) /\ Len(grown) = g /\ k \in 1..g /\ n <= g /\ \A j \in 1..n : grown[j] = a[j]
  <2>1. CASE k <= n
    <3>1. more = <<>>
      BY <1>4, <2>1
    <3>2. grown = a
      BY <1>2, <1>6, <3>1, ConcatEmptySeq
    <3> QED BY <1>2, <1>3, <1>7, <2>1, <3>2
  <2>2. CASE k > n
    <3>1. k - n \in Nat
      BY <2>2
    <3>2. more \in Seq(T) /\ Len(more) = k - n
      BY <1>4, <1>5, <3>1
    <3>3. grown \in Seq(T) /\ Len(grown) = n + (k - n) /\ \A j \in 1..n : grown[j] = a[j]
      BY <1>2, <1>3, <1>6, <3>2
    <3> QED BY <1>7, <2>2, <3>3
  <2> QED BY <2>1, <2>2
<1>9. PICK x, y : x = grown[k] /\ y = SetAt(x, d, v)
  OBVIOUS
<1>10. x \in Seq(Int)
  BY <1>1, <1>8, <1>9
<1>11. /\ y \in Seq(Int) /\ Len(y) = (IF d <= Len(x) THEN Len(x) ELSE d) /\ y[d] = v
       /\ \A j \in 1..Len(x) : j # d => y[j] = x[j]
  BY <1>9, <1>10, SetAtIs, SMTT(30)
<1>12. PICK z : z = [grown EXCEPT ![k] = y]
  OBVIOUS
<1>13. z \in Seq(T) /\ Len(z) = g /\ z[k] = y /\ \A j \in 1..g : j # k => z[j] = grown[j]
  BY <1>1, <1>8, <1>11, <1>12
<1>14. c = [b EXCEPT !.addT0 = z]
  BY <1>1, <1>3, <1>4, <1>6, <1>9, <1>12 DEF SetAddT0
<1>15. c \in Block /\ c.t0 = b.t0 /\ c.addT0 = z
  <2>1. PICK pairs, ranges : pairs = Int \X Int /\ ranges = [1..4 -> Int]
    OBVIOUS
  <2>2. PICK rest : rest = Seq(T)
    OBVIOUS
  <2>3. Block = [t0 : T, addT0 : rest, bkg : ranges, data : ranges, inBins : BOOLEAN,
                 offset : pairs, time : pairs]
    BY <1>1, <2>1, <2>2 DEF Block
  <2>4. z \in rest
    BY <1>13, <2>2
  <2> QED BY <1>14, <2>3, <2>4
<1>16. Len(x) \in Nat /\ d <= Len(y)
  BY <1>10, <1>11
<1>17. ASSUME NEW k2 \in 1..n, NEW d2 \in 1..Len(a[k2])
       PROVE  d2 <= Len(z[k2]) /\ (k2 # k \/ d2 # d => z[k2][d2] = a[k2][d2])
  <2>0. k2 \in 1..g /\ grown[k2] = a[k2] /\ Len(a[k2]) \in Nat
    <3>1. a[k2] \in T
      BY <1>2, <1>3
    <3> QED BY <1>1, <1>8, <3>1, SMTT(30)
  <2>1. CASE k2 = k
    <3>1. a[k2] = x /\ z[k2] = y
      BY <1>9, <1>13, <2>0, <2>1
    <3>2. d2 \in 1..Len(x)
      BY <3>1
    <3> QED BY <1>11, <1>16, <2>1, <3>1, <3>2
  <2>2. CASE k2 # k
    BY <1>13, <2>0, <2>2
  <2> QED BY <2>1, <2>2
<1>18. KeepsAddT0s(b, c, k, d)
  BY <1>1, <1>3, <1>15, <1>17 DEF KeepsAddT0s
<1> QED BY <1>1, <1>3, <1>7, <1>11, <1>13, <1>15, <1>16, <1>18

LEMMA SetupIs ==
  ASSUME setup \in Setups
  PROVE  /\ setup.single \in BOOLEAN /\ setup.isis \in BOOLEAN
         /\ setup.detectors \in Nat \ {0} /\ setup.addRuns \in Nat /\ setup.packing \in Nat \ {0}
         /\ Detectors = 1..setup.detectors
         /\ \A side \in Sides : side \in Detectors
         /\ \A r \in 0..setup.addRuns : \A d \in Detectors : FromData(r, d) \in 0..Size
<1>1. /\ setup.single \in BOOLEAN /\ setup.isis \in BOOLEAN
      /\ setup.detectors \in Nat \ {0} /\ setup.addRuns \in Nat /\ setup.packing \in Nat \ {0}
      /\ (setup.single \/ setup.detectors % 2 = 0)
      /\ \A r \in 0..setup.addRuns : \A d \in 1..setup.detectors :
         setup.header[r][d] \in 0..Size /\ setup.peak[r][d] \in 0..Size
  BY SetupsAssumption
<1>2. \A side \in Sides : side \in Detectors
  <2>1. PICK n \in Nat \ {0} : n = setup.detectors
    BY <1>1
  <2>2. CASE setup.single
    BY <2>1, <2>2 DEF Sides, Detectors
  <2>3. CASE ~setup.single
    <3>1. n % 2 = 0
      BY <1>1, <2>1, <2>3
    <3>2. n >= 2
      BY <3>1
    <3> QED BY <2>1, <2>3, <3>2 DEF Sides, Detectors
  <2> QED BY <2>2, <2>3
<1>3. ASSUME NEW r \in 0..setup.addRuns, NEW d \in Detectors PROVE FromData(r, d) \in 0..Size
  BY <1>1 DEF FromData, Detectors
<1> QED BY <1>1, <1>2, <1>3 DEF Detectors

LEMMA T0Is ==
  ASSUME setup \in Setups, run.t0 \in Seq(Int), global.t0 \in Seq(Int), NEW d \in Detectors
  PROVE  FromMsr(d) \in Int /\ T0(d) \in Int
<1>1. GetAt(run.t0, d) \in Int /\ GetAt(global.t0, d) \in Int
      /\ (GetAt(run.t0, d) # None => run.t0[d] \in Int)
  <2>1. GetAt(run.t0, d) # None => d \in 1..Len(run.t0)
    BY GetAtIs
  <2> QED BY <2>1, GetAtIs
<1>2. FromData(0, d) \in Int
  <2>1. 0 \in 0..setup.addRuns
    BY SetupIs
  <2> QED BY <2>1, SetupIs, BinsAssumption
<1> QED BY <1>1, <1>2 DEF FromMsr, T0

LEMMA WithT0IsBlock ==
  ASSUME NEW b \in Block, NEW d \in Nat \ {0}, NEW v \in Int, NEW c, c = [b EXCEPT !.t0 = SetAt(@, d, v)]
  PROVE  c \in Block /\ c.t0 = SetAt(b.t0, d, v) /\ c.addT0 = b.addT0
<1>1. PICK t : t = SetAt(b.t0, d, v)
  OBVIOUS
<1>2. b.t0 \in Seq(Int)
  BY DEF Block
<1>3. t \in Seq(Int)
  BY <1>1, <1>2, SetAtIs
<1>4. c = [b EXCEPT !.t0 = t]
  BY <1>1
<1>5. PICK pairs, ranges, rest, first : /\ pairs = Int \X Int /\ ranges = [1..4 -> Int]
                                        /\ rest = Seq(Seq(Int)) /\ first = Seq(Int)
  OBVIOUS
<1>6. Block = [t0 : first, addT0 : rest, bkg : ranges, data : ranges, inBins : BOOLEAN,
               offset : pairs, time : pairs]
  BY <1>5 DEF Block
<1>7. t \in first
  BY <1>3, <1>5
<1> QED BY <1>1, <1>4, <1>6, <1>7

(* The block after each detector. *)
SettingT0s(n, f) ==
  /\ f \in [0..n -> Block] /\ f[0] = run
  /\ \A d \in 1..n : f[d] = IF FromMsr(d) # None THEN f[d - 1] ELSE [f[d - 1] EXCEPT !.t0 = SetAt(@, d, T0(d))]
  /\ WithT0s(run) = f[n]

LEMMA SetsT0s ==
  ASSUME setup \in Setups, run \in Block, global \in Block
  PROVE  \E f : SettingT0s(setup.detectors, f)
<1>1. PICK n \in Nat \ {0} : n = setup.detectors /\ Detectors = 1..n
  BY SetupIs
<1> DEFINE Step(b, d) == IF FromMsr(d) # None THEN b ELSE [b EXCEPT !.t0 = SetAt(@, d, T0(d))]
<1>3. ASSUME NEW b \in Block, NEW d \in 1..n PROVE Step(b, d) \in Block
  <2>1. T0(d) \in Int
    <3>1. run.t0 \in Seq(Int) /\ global.t0 \in Seq(Int)
      BY DEF Block
    <3> QED BY <1>1, <3>1, T0Is
  <2>2. [b EXCEPT !.t0 = SetAt(@, d, T0(d))] \in Block
    BY <2>1, WithT0IsBlock
  <2> QED BY <2>2
<1> DEFINE seq == [d \in Detectors |-> d]
<1>5. DOMAIN seq = 1..n /\ \A d \in 1..n : seq[d] = d
  BY <1>1
<1> HIDE DEF Step, seq
<1>6. PICK step : step = [a \in Block \X (1..n) |-> Step(a[1], a[2])]
  OBVIOUS
<1>7. \A b \in Block, d \in 1..n : step[<<b, d>>] = Step(b, d)
  BY <1>6
<1>8. step \in [Block \X (1..n) -> Block]
  BY <1>3, <1>6
<1>9. PICK g \in [SUBSET (1..n) -> Block] : FoldsTo(g, run, step, n)
  BY <1>8, FoldRuns, Zenon
<1>10. \A s \in SUBSET (1..n) : g[s] = IF s = {} THEN run ELSE Step(g[s \ {Max(s)}], seq[Max(s)])
  <2>1. ASSUME NEW s \in SUBSET (1..n), s # {}
        PROVE  step[<<g[s \ {Max(s)}], Max(s)>>] = Step(g[s \ {Max(s)}], seq[Max(s)])
    <3>1. PICK x : x = Max(s)
      OBVIOUS
    <3>2. x \in 1..n
      BY <2>1, <3>1, MaxIs
    <3>3. g[s \ {x}] \in Block
      OBVIOUS
    <3> QED BY <1>5, <1>7, <3>1, <3>2, <3>3
  <2> QED BY <1>9, <2>1 DEF FoldsTo
<1>11. g = [s \in SUBSET DOMAIN seq |-> IF s = {} THEN run ELSE Step(g[s \ {Max(s)}], seq[Max(s)])]
  BY <1>5, <1>10
<1>12. PICK h : h = CHOOSE z : z = [s \in SUBSET DOMAIN seq |-> IF s = {} THEN run
                                                         ELSE Step(z[s \ {Max(s)}], seq[Max(s)])]
  OBVIOUS
<1>13. h = [s \in SUBSET DOMAIN seq |-> IF s = {} THEN run ELSE Step(h[s \ {Max(s)}], seq[Max(s)])]
  BY <1>11, <1>12, Zenon
<1>14. WithT0s(run) = h[DOMAIN seq]
  BY <1>12, Zenon DEF WithT0s, FoldLeft, MapThenFoldSet, Step, seq
<1>15. PICK f : f = [i \in 0..n |-> h[1..i]]
  OBVIOUS
<1>16. f[0] = run
  BY <1>13, <1>15
<1>17. ASSUME NEW i \in 1..n PROVE f[i] = Step(f[i - 1], i)
  <2>1. 1..i \in SUBSET (1..n) /\ 1..i # {} /\ Max(1..i) = i /\ (1..i) \ {i} = 1..(i - 1)
    BY MaxUpTo
  <2>2. h[1..i] = Step(h[1..(i - 1)], i)
    <3>1. PICK t : t = 1..i
      OBVIOUS
    <3>2. t \in SUBSET DOMAIN seq /\ t # {} /\ Max(t) = i /\ t \ {i} = 1..(i - 1) /\ seq[i] = i
      BY <1>5, <2>1, <3>1
    <3>3. h[t] = IF t = {} THEN run ELSE Step(h[t \ {Max(t)}], seq[Max(t)])
      BY <1>13, <3>2
    <3> QED BY <3>1, <3>2, <3>3
  <2>3. i \in 0..n /\ i - 1 \in 0..n
    OBVIOUS
  <2> QED BY <1>15, <2>2, <2>3
<1>18. PICK good8 : good8 = {i \in 0..n : f[i] \in Block}
  OBVIOUS
<1>19. ASSUME NEW i \in 0..(n - 1), i \in good8 PROVE i + 1 \in good8
  <2>1. i + 1 \in 1..n /\ i + 1 \in 0..n /\ (i + 1) - 1 = i
    OBVIOUS
  <2>2. f[i + 1] = Step(f[i], i + 1)
    BY <1>17, <2>1
  <2> QED BY <1>3, <1>18, <1>19, <2>1, <2>2
<1>20. 0..n \subseteq good8
  <2>1. 0 \in good8
    BY <1>16, <1>18
  <2> QED BY <1>19, <2>1, UpTo
<1>21. f \in [0..n -> Block]
  BY <1>15, <1>18, <1>20
<1>22. WithT0s(run) = f[n]
  BY <1>5, <1>14, <1>15
<1>23. SettingT0s(n, f)
  BY <1>16, <1>17, <1>21, <1>22 DEF SettingT0s, Step
<1> QED BY <1>1, <1>23

LEMMA AddRunDetectorsAre ==
  ASSUME setup \in Setups
  PROVE  /\ AddRunDetectors \in Seq([k : 1..setup.addRuns, d : Detectors])
         /\ \A k \in 1..setup.addRuns, d \in Detectors :
              \E i \in 1..Len(AddRunDetectors) : AddRunDetectors[i] = [k |-> k, d |-> d]
<1>1. PICK n \in Nat \ {0}, r \in Nat : n = setup.detectors /\ r = setup.addRuns /\ Detectors = 1..n
  BY SetupIs
<1>2. PICK X : X = [k : 1..r, d : 1..n]
  OBVIOUS
<1>3. PICK seqs : seqs = [k \in 1..r |-> [d \in 1..n |-> [k |-> k, d |-> d]]]
  OBVIOUS
<1>4. ASSUME NEW k \in 1..r PROVE seqs[k] \in Seq(X) /\ Len(seqs[k]) = n /\ \A d \in 1..n : seqs[k][d] = [k |-> k, d |-> d]
  <2>1. \A d \in 1..n : [k |-> k, d |-> d] \in X
    BY <1>2
  <2>2. PICK t : t = [d \in 1..n |-> [k |-> k, d |-> d]]
    OBVIOUS
  <2>3. t \in [1..n -> X]
    BY <2>1, <2>2
  <2>4. t \in Seq(X) /\ Len(t) = n
    BY <2>3
  <2> QED BY <1>3, <2>2, <2>4
<1>5. seqs \in Seq(Seq(X)) /\ Len(seqs) = r
  <2>1. PICK T : T = Seq(X)
    OBVIOUS
  <2>2. seqs \in [1..r -> T]
    BY <1>3, <1>4, <2>1
  <2>3. seqs \in Seq(T) /\ Len(seqs) = r
    BY <2>2
  <2> QED BY <2>1, <2>3
<1>6. AddRunDetectors = FlattenSeq(seqs)
  BY <1>1, <1>3 DEF AddRunDetectors
<1>7. FlattenSeq(seqs) \in Seq(X)
  BY <1>5, FlattenIs
<1>8. ASSUME NEW k \in 1..r, NEW d \in 1..n
      PROVE  \E i \in 1..Len(FlattenSeq(seqs)) : FlattenSeq(seqs)[i] = [k |-> k, d |-> d]
  <2>1. k \in 1..Len(seqs) /\ d \in 1..Len(seqs[k]) /\ seqs[k][d] = [k |-> k, d |-> d]
    BY <1>4, <1>5
  <2>2. \E i \in 1..Len(FlattenSeq(seqs)) : FlattenSeq(seqs)[i] = seqs[k][d]
    BY <1>5, <2>1, FlattenHasAll, ZenonT(30)
  <2> QED BY <2>1, <2>2
<1> QED BY <1>1, <1>2, <1>6, <1>7, <1>8

(* The block after each detector of each addrun. *)
SettingAddT0s(b, n, f) ==
  /\ f \in [0..n -> Block] /\ f[0] = b
  /\ \A i \in 1..n :
       f[i] = IF AddT0FromMsr(b, AddRunDetectors[i].k, AddRunDetectors[i].d) # None THEN f[i - 1]
              ELSE SetAddT0(f[i - 1], AddRunDetectors[i].k, AddRunDetectors[i].d,
                            FromData(AddRunDetectors[i].k, AddRunDetectors[i].d))
  /\ WithAddT0s(b) = f[n]

LEMMA SetsAddT0s ==
  ASSUME setup \in Setups, NEW base \in Block
  PROVE  \E f : SettingAddT0s(base, Len(AddRunDetectors), f)
<1>1. AddRunDetectors \in Seq([k : 1..setup.addRuns, d : Detectors])
  BY AddRunDetectorsAre
<1>2. PICK n \in Nat : n = Len(AddRunDetectors) /\ DOMAIN AddRunDetectors = 1..n
  BY <1>1
<1> DEFINE Step(b, a) == IF AddT0FromMsr(base, a.k, a.d) # None THEN b
                           ELSE SetAddT0(b, a.k, a.d, FromData(a.k, a.d))
           seq == AddRunDetectors
<1>3. ASSUME NEW b \in Block, NEW i \in 1..n PROVE Step(b, seq[i]) \in Block
  <2>1. PICK k, d : k = seq[i].k /\ d = seq[i].d
    OBVIOUS
  <2>2. k \in 1..setup.addRuns /\ d \in Detectors
    <3>1. PICK X : X = [k : 1..setup.addRuns, d : Detectors]
      OBVIOUS
    <3>2. seq[i] \in X
      <4>1. PICK t : t = AddRunDetectors
        OBVIOUS
      <4>2. t \in Seq(X) /\ n = Len(t)
        BY <1>1, <1>2, <3>1, <4>1
      <4>3. t[i] \in X
        BY <4>2
      <4> QED BY <4>1, <4>3
    <3> QED BY <2>1, <3>1, <3>2
  <2>3. k \in Nat \ {0} /\ d \in Nat \ {0} /\ FromData(k, d) \in Int
    <3>1. setup.addRuns \in Nat /\ setup.detectors \in Nat \ {0} /\ Detectors = 1..setup.detectors
      BY SetupIs
    <3>2. k \in 0..setup.addRuns
      BY <2>2, <3>1
    <3>3. FromData(k, d) \in 0..Size
      BY <2>2, <3>2, SetupIs
    <3> QED BY <2>2, <3>1, <3>3, BinsAssumption
  <2>4. SetAddT0(b, k, d, FromData(k, d)) \in Block
    BY <2>3, SetAddT0Is
  <2> QED BY <2>1, <2>4
<1>5. DOMAIN seq = 1..n
  BY <1>2
<1> HIDE DEF Step, seq
<1>6. PICK step : step = [a \in Block \X (1..n) |-> Step(a[1], seq[a[2]])]
  OBVIOUS
<1>7. \A b \in Block, i \in 1..n : step[<<b, i>>] = Step(b, seq[i])
  BY <1>6
<1>8. step \in [Block \X (1..n) -> Block]
  BY <1>3, <1>6
<1>9. PICK g \in [SUBSET (1..n) -> Block] : FoldsTo(g, base, step, n)
  BY <1>8, FoldRuns, Zenon
<1>10. \A s \in SUBSET (1..n) : g[s] = IF s = {} THEN base ELSE Step(g[s \ {Max(s)}], seq[Max(s)])
  <2>1. ASSUME NEW s \in SUBSET (1..n), s # {}
        PROVE  step[<<g[s \ {Max(s)}], Max(s)>>] = Step(g[s \ {Max(s)}], seq[Max(s)])
    <3>1. PICK x : x = Max(s)
      OBVIOUS
    <3>2. x \in 1..n
      BY <2>1, <3>1, MaxIs
    <3>3. g[s \ {x}] \in Block
      OBVIOUS
    <3> QED BY <1>5, <1>7, <3>1, <3>2, <3>3
  <2> QED BY <1>9, <2>1 DEF FoldsTo
<1>11. g = [s \in SUBSET DOMAIN seq |-> IF s = {} THEN base ELSE Step(g[s \ {Max(s)}], seq[Max(s)])]
  BY <1>5, <1>10
<1>12. PICK h : h = CHOOSE z : z = [s \in SUBSET DOMAIN seq |-> IF s = {} THEN base
                                                         ELSE Step(z[s \ {Max(s)}], seq[Max(s)])]
  OBVIOUS
<1>13. h = [s \in SUBSET DOMAIN seq |-> IF s = {} THEN base ELSE Step(h[s \ {Max(s)}], seq[Max(s)])]
  BY <1>11, <1>12, Zenon
<1>14. WithAddT0s(base) = h[DOMAIN seq]
  BY <1>12, Zenon DEF WithAddT0s, FoldLeft, MapThenFoldSet, Step, seq
<1>15. PICK f : f = [i \in 0..n |-> h[1..i]]
  OBVIOUS
<1>16. f[0] = base
  BY <1>13, <1>15
<1>17. ASSUME NEW i \in 1..n PROVE f[i] = Step(f[i - 1], seq[i])
  <2>1. 1..i \in SUBSET (1..n) /\ 1..i # {} /\ Max(1..i) = i /\ (1..i) \ {i} = 1..(i - 1)
    BY MaxUpTo
  <2>2. h[1..i] = Step(h[1..(i - 1)], seq[i])
    <3>1. PICK t : t = 1..i
      OBVIOUS
    <3>2. t \in SUBSET DOMAIN seq /\ t # {} /\ Max(t) = i /\ t \ {i} = 1..(i - 1)
      BY <1>5, <2>1, <3>1
    <3>3. h[t] = IF t = {} THEN base ELSE Step(h[t \ {Max(t)}], seq[Max(t)])
      BY <1>13, <3>2
    <3> QED BY <3>1, <3>2, <3>3
  <2>3. i \in 0..n /\ i - 1 \in 0..n
    OBVIOUS
  <2> QED BY <1>15, <2>2, <2>3
<1>18. PICK good8 : good8 = {i \in 0..n : f[i] \in Block}
  OBVIOUS
<1>19. ASSUME NEW i \in 0..(n - 1), i \in good8 PROVE i + 1 \in good8
  <2>1. i + 1 \in 1..n /\ i + 1 \in 0..n /\ (i + 1) - 1 = i
    OBVIOUS
  <2>2. f[i + 1] = Step(f[i], seq[i + 1])
    BY <1>17, <2>1
  <2> QED BY <1>3, <1>18, <1>19, <2>1, <2>2
<1>20. 0..n \subseteq good8
  <2>1. 0 \in good8
    BY <1>16, <1>18
  <2> QED BY <1>19, <2>1, UpTo
<1>21. f \in [0..n -> Block]
  BY <1>15, <1>18, <1>20
<1>22. WithAddT0s(base) = f[n]
  BY <1>5, <1>14, <1>15
<1>23. SettingAddT0s(base, n, f)
  BY <1>16, <1>17, <1>21, <1>22 DEF SettingAddT0s, Step, seq
<1> QED BY <1>2, <1>23

(* What GetProperT0 does with the t0's of the run: none is set if all are  *)
(* given; all are set if none is.                                          *)
LEMMA T0sSet ==
  ASSUME setup \in Setups, run \in Block, global \in Block
  PROVE  /\ WithT0s(run) \in Block /\ WithT0s(run).addT0 = run.addT0
         /\ (\A d \in Detectors : FromMsr(d) # None) => WithT0s(run).t0 = run.t0
         /\ (\A d \in Detectors : FromMsr(d) = None) /\ run.t0 = <<>> =>
              /\ Len(WithT0s(run).t0) = setup.detectors
              /\ \A d \in Detectors : WithT0s(run).t0[d] = T0(d)
<1>1. PICK n \in Nat \ {0} : n = setup.detectors /\ Detectors = 1..n
  BY SetupIs
<1>2. PICK f : SettingT0s(n, f)
  BY <1>1, SetsT0s
<1> DEFINE Good(m) == /\ f[m].addT0 = run.addT0
                      /\ (\A d \in 1..n : FromMsr(d) # None) => f[m].t0 = run.t0
                      /\ (\A d \in 1..n : FromMsr(d) = None) /\ run.t0 = <<>> =>
                           Len(f[m].t0) = m /\ \A d \in 1..m : f[m].t0[d] = T0(d)
<1>3. PICK good9 : good9 = {m \in 0..n : Good(m)}
  OBVIOUS
<1>4. 0 \in good9
  <2>1. f[0] = run
    BY <1>2 DEF SettingT0s
  <2>2. Len(<<>>) = 0 /\ 0 \in 0..n /\ 1..0 = {}
    OBVIOUS
  <2>3. Good(0)
    BY <2>1, <2>2
  <2> HIDE DEF Good
  <2> QED BY <1>3, <2>2, <2>3
<1>5. ASSUME NEW m \in 0..(n - 1), m \in good9 PROVE m + 1 \in good9
  <2>1. PICK d \in 1..n : d = m + 1
    OBVIOUS
  <2>2. d - 1 = m /\ d \in 0..n /\ m \in 0..n /\ d \in Nat \ {0}
    BY <2>1
  <2>3. PICK b, c : b = f[m] /\ c = f[d]
    OBVIOUS
  <2>4. b \in Block /\ c = IF FromMsr(d) # None THEN b ELSE [b EXCEPT !.t0 = SetAt(@, d, T0(d))]
    BY <1>2, <2>2, <2>3 DEF SettingT0s
  <2>5. T0(d) \in Int /\ b.t0 \in Seq(Int)
    <3>1. run.t0 \in Seq(Int) /\ global.t0 \in Seq(Int) /\ b.t0 \in Seq(Int)
      BY <2>4 DEF Block
    <3> QED BY <1>1, <3>1, T0Is
  <2>6. Good(m)
    BY <1>3, <1>5
  <2>7. CASE FromMsr(d) # None
    <3>1. c = b
      BY <2>4, <2>7
    <3>2. Good(d)
      BY <2>3, <2>6, <2>7, <3>1
    <3> HIDE DEF Good
    <3> QED BY <1>3, <2>1, <2>2, <3>2
  <2>8. CASE FromMsr(d) = None
    <3>1. c = [b EXCEPT !.t0 = SetAt(@, d, T0(d))]
      BY <2>4, <2>8
    <3>2. c.t0 = SetAt(b.t0, d, T0(d)) /\ c.addT0 = b.addT0
      BY <2>2, <2>4, <2>5, <3>1, WithT0IsBlock
    <3>3. PICK s, t, v : s = b.t0 /\ t = c.t0 /\ v = T0(d)
      OBVIOUS
    <3>4. /\ Len(t) = (IF d <= Len(s) THEN Len(s) ELSE d) /\ t[d] = v
          /\ \A j \in 1..Len(s) : j # d => t[j] = s[j]
      BY <2>2, <2>5, <3>2, <3>3, SetAtIs, SMTT(30)
    <3>5. ASSUME \A e \in 1..n : FromMsr(e) = None, run.t0 = <<>>
          PROVE  Len(t) = d /\ \A e \in 1..d : t[e] = T0(e)
      <4>1. Len(s) = m /\ \A e \in 1..m : s[e] = T0(e)
        BY <2>3, <2>6, <3>3, <3>5
      <4>2. Len(t) = d
        BY <2>1, <3>4, <4>1
      <4>3. ASSUME NEW e \in 1..d PROVE t[e] = T0(e)
        <5>1. CASE e = d
          BY <3>3, <3>4, <5>1
        <5>2. CASE e \in 1..m
          <6>1. e # d
            BY <2>1, <5>2
          <6> QED BY <3>4, <4>1, <5>2, <6>1
        <5> QED BY <2>1, <5>1, <5>2
      <4> QED BY <4>2, <4>3
    <3>6. Good(d)
      BY <2>3, <2>6, <2>8, <3>2, <3>3, <3>5
    <3> HIDE DEF Good
    <3> QED BY <1>3, <2>1, <2>2, <3>6
  <2> QED BY <2>7, <2>8
<1>6. 0..n \subseteq good9
  BY <1>4, <1>5, UpTo
<1>7. n \in 0..n
  OBVIOUS
<1>8. Good(n)
  BY <1>3, <1>6, <1>7
<1>9. WithT0s(run) = f[n] /\ f[n] \in Block
  BY <1>2, <1>7 DEF SettingT0s
<1> QED BY <1>1, <1>8, <1>9

(* What is there stays; and if nothing is left to the GLOBAL block, what is *)
(* set is what is used.                                                    *)
LEMMA T0sStored ==
  ASSUME setup \in Setups, run \in Block, global \in Block, \A d \in 1..Len(run.t0) : run.t0[d] >= 0,
         NEW c, c = WithT0s(run)
  PROVE  /\ Len(c.t0) >= Len(run.t0) /\ \A d \in 1..Len(run.t0) : c.t0[d] = run.t0[d]
         /\ (\A d \in Detectors : FromMsr(d) = None \/ d \in 1..Len(run.t0)) =>
              \A d \in Detectors : d \in 1..Len(c.t0) => c.t0[d] = T0(d)
<1>1. PICK n \in Nat \ {0} : n = setup.detectors /\ Detectors = 1..n
  BY SetupIs
<1>2. PICK f : SettingT0s(n, f)
  BY <1>1, SetsT0s
<1>3. PICK a, l : a = run.t0 /\ l = Len(a) /\ a \in Seq(Int) /\ l \in Nat
  BY BlockIs
<1>4. ASSUME NEW d \in 1..l PROVE FromMsr(d) = a[d] /\ FromMsr(d) # None /\ T0(d) = a[d]
  <2>1. a[d] \in Int /\ a[d] >= 0 /\ GetAt(a, d) = a[d]
    BY <1>3, GetAtIs
  <2>2. a[d] # None
    BY <2>1 DEF None
  <2> QED BY <1>3, <2>1, <2>2 DEF FromMsr, T0
<1> DEFINE Only == \A d \in 1..n : FromMsr(d) = None \/ d \in 1..l
<1> DEFINE Good(m) == /\ Len(f[m].t0) >= l /\ \A d \in 1..l : f[m].t0[d] = a[d]
                      /\ Only => /\ Len(f[m].t0) = IF m <= l THEN l ELSE m
                                 /\ \A d \in 1..m : f[m].t0[d] = T0(d)
<1>5. PICK S : S = {m \in 0..n : Good(m)}
  OBVIOUS
<1>6. 0 \in S
  <2>1. f[0] = run
    BY <1>2 DEF SettingT0s
  <2>2. 0 \in 0..n /\ 1..0 = {} /\ 0 <= l
    BY <1>3
  <2>3. Good(0)
    BY <1>3, <2>1, <2>2
  <2> HIDE DEF Good
  <2> QED BY <1>5, <2>2, <2>3
<1>7. ASSUME NEW m \in 0..(n - 1), m \in S PROVE m + 1 \in S
  <2>1. PICK d \in 1..n : d = m + 1
    OBVIOUS
  <2>2. d - 1 = m /\ d \in 0..n /\ m \in 0..n /\ d \in Nat \ {0} /\ \A e \in 1..d : e = d \/ e \in 1..m
    BY <2>1
  <2>3. PICK b, y : b = f[m] /\ y = f[d]
    OBVIOUS
  <2>4. b \in Block /\ y = IF FromMsr(d) # None THEN b ELSE [b EXCEPT !.t0 = SetAt(@, d, T0(d))]
    BY <1>2, <2>2, <2>3 DEF SettingT0s
  <2>5. T0(d) \in Int /\ b.t0 \in Seq(Int) /\ Len(b.t0) \in Nat
    <3>1. run.t0 \in Seq(Int) /\ global.t0 \in Seq(Int) /\ b.t0 \in Seq(Int)
      BY <2>4 DEF Block
    <3> QED BY <1>1, <3>1, T0Is
  <2>6. /\ Len(b.t0) >= l /\ \A e \in 1..l : b.t0[e] = a[e]
        /\ Only => /\ Len(b.t0) = IF m <= l THEN l ELSE m
                   /\ \A e \in 1..m : b.t0[e] = T0(e)
    BY <1>5, <1>7, <2>3
  <2>7. CASE FromMsr(d) # None
    <3>1. y = b
      BY <2>4, <2>7
    <3>2. ASSUME Only PROVE Len(y.t0) = (IF d <= l THEN l ELSE d) /\ \A e \in 1..d : y.t0[e] = T0(e)
      <4>1. d \in 1..l
        BY <2>7, <3>2
      <4>2. y.t0[d] = T0(d)
        BY <1>4, <2>6, <3>1, <4>1
      <4>3. Len(y.t0) = l
        BY <1>3, <2>1, <2>6, <3>1, <3>2, <4>1
      <4>4. \A e \in 1..m : y.t0[e] = T0(e)
        BY <2>6, <3>1, <3>2
      <4> QED BY <2>2, <4>1, <4>2, <4>3, <4>4
    <3>3. Good(d)
      BY <2>3, <2>6, <3>1, <3>2
    <3> HIDE DEF Good
    <3> QED BY <1>5, <2>1, <2>2, <3>3
  <2>8. CASE FromMsr(d) = None
    <3>1. y = [b EXCEPT !.t0 = SetAt(@, d, T0(d))]
      BY <2>4, <2>8
    <3>2. y.t0 = SetAt(b.t0, d, T0(d))
      BY <2>2, <2>4, <2>5, <3>1, WithT0IsBlock
    <3>3. PICK s, t, v : s = b.t0 /\ t = y.t0 /\ v = T0(d)
      OBVIOUS
    <3>4. /\ Len(t) = (IF d <= Len(s) THEN Len(s) ELSE d) /\ t[d] = v
          /\ \A j \in 1..Len(s) : j # d => t[j] = s[j]
      BY <2>2, <2>5, <3>2, <3>3, SetAtIs
    <3>5. d \notin 1..l
      BY <1>4, <2>8
    <3>6. d > l
      BY <1>3, <3>5
    <3>7. Len(t) >= l /\ \A e \in 1..l : t[e] = a[e]
      <4>1. Len(s) >= l /\ Len(s) \in Nat /\ \A e \in 1..l : s[e] = a[e]
        BY <2>5, <2>6, <3>3
      <4>2. \A e \in 1..l : e \in 1..Len(s) /\ e # d
        BY <1>3, <3>6, <4>1
      <4>3. \A e \in 1..l : t[e] = a[e]
        BY <3>4, <4>1, <4>2
      <4> QED BY <1>3, <3>4, <3>6, <4>1, <4>3
    <3>8. ASSUME Only PROVE Len(t) = (IF d <= l THEN l ELSE d) /\ \A e \in 1..d : t[e] = T0(e)
      <4>1. Len(s) = m /\ \A e \in 1..m : s[e] = T0(e)
        <5>1. m >= l
          BY <1>3, <2>1, <3>6
        <5> QED BY <1>3, <2>6, <3>3, <3>8, <5>1
      <4>2. Len(t) = d
        BY <2>1, <3>4, <4>1
      <4>3. \A e \in 1..m : e \in 1..Len(s) /\ e # d
        BY <2>1, <4>1
      <4>4. \A e \in 1..m : t[e] = T0(e)
        BY <3>4, <4>1, <4>3
      <4> QED BY <1>3, <2>2, <3>3, <3>4, <3>6, <4>2, <4>4
    <3>9. Good(d)
      BY <2>3, <3>3, <3>7, <3>8
    <3> HIDE DEF Good
    <3> QED BY <1>5, <2>1, <2>2, <3>9
  <2> QED BY <2>7, <2>8
<1>8. n \in S
  <2>1. 0..n \subseteq S
    BY <1>6, <1>7, UpTo
  <2> QED BY <2>1
<1>9. WithT0s(run) = f[n] /\ Good(n)
  BY <1>2, <1>5, <1>8 DEF SettingT0s
<1>10. Only => \A d \in 1..n : d \in 1..Len(c.t0) => c.t0[d] = T0(d)
  BY <1>9
<1> QED BY <1>1, <1>3, <1>9, <1>10

(* The t0's of a block are those that are meant, or there are none and the *)
(* user has not written any.                                               *)
T0sMeant(b) ==
  \/ b.t0 = <<>> /\ UsersRun.t0 = <<>>
  \/ Len(b.t0) >= setup.detectors /\ \A d \in Detectors : b.t0[d] = MeantT0(0, d)

AddT0sMeant(b) ==
  /\ b.addT0 = <<>> => UsersRun.addT0 = <<>>
  /\ \A k \in 1..setup.addRuns : k <= Len(b.addT0) =>
       Len(b.addT0[k]) >= setup.detectors /\ \A d \in Detectors : b.addT0[k][d] = MeantT0(k, d)

(* The user's blocks are well-formed, and the GLOBAL block is still theirs. *)
FromUser ==
  /\ setup \in Setups /\ Complete
  /\ UsersRun.t0 \in Seq(Int) /\ UsersGlobal.t0 \in Seq(Int) /\ UsersRun.addT0 \in Seq(Seq(Int))
  /\ Known(UsersRun) /\ Known(UsersGlobal)

LEMMA MeantT0s ==
  ASSUME FromUser, run \in Block, global \in Block, Known(run), T0sMeant(run), global.t0 = UsersGlobal.t0
  PROVE  (\A d \in Detectors : T0(d) = MeantT0(0, d)) /\ T0sMeant(WithT0s(run))
<1>1. PICK n \in Nat \ {0} : n = setup.detectors /\ Detectors = 1..n
  BY SetupIs DEF FromUser
<1>2. PICK r, g, u : r = run.t0 /\ g = global.t0 /\ u = UsersRun.t0
  OBVIOUS
<1>3. r \in Seq(Int) /\ g \in Seq(Int) /\ u \in Seq(Int)
  BY <1>2 DEF Block, FromUser
<1>4. /\ WithT0s(run) \in Block
      /\ (\A d \in 1..n : FromMsr(d) # None) => WithT0s(run).t0 = r
      /\ (\A d \in 1..n : FromMsr(d) = None) /\ r = <<>> =>
              /\ Len(WithT0s(run).t0) = n
              /\ \A d \in 1..n : WithT0s(run).t0[d] = T0(d)
  BY <1>1, <1>2, T0sSet DEF FromUser
<1>5. ASSUME NEW d \in 1..n
      PROVE  /\ FromMsr(d) = IF GetAt(r, d) # None THEN r[d] ELSE GetAt(g, d)
             /\ T0(d) = IF FromMsr(d) # None THEN FromMsr(d) ELSE FromData(0, d)
             /\ MeantT0(0, d) = IF GetAt(u, d) # None THEN GetAt(u, d)
                                ELSE IF GetAt(g, d) # None THEN GetAt(g, d) ELSE FromData(0, d)
  BY <1>2 DEF FromMsr, T0, MeantT0
<1>6. CASE Len(r) >= n /\ \A d \in 1..n : r[d] = MeantT0(0, d)
  <2>1. ASSUME NEW d \in 1..n PROVE GetAt(r, d) = r[d] /\ r[d] # None
    <3>1. d \in 1..Len(r)
      BY <1>3, <1>6
    <3>2. r[d] >= 0
      BY <1>2, <3>1 DEF Known
    <3>3. r[d] \in Int
      BY <1>3, <3>1
    <3>4. GetAt(r, d) = r[d]
      BY <1>3, <3>1, GetAtIs
    <3>5. r[d] # None
      BY <3>2, <3>3 DEF None
    <3> QED BY <3>4, <3>5
  <2>2. \A d \in 1..n : FromMsr(d) # None /\ T0(d) = MeantT0(0, d)
    BY <1>5, <1>6, <2>1
  <2>3. WithT0s(run).t0 = r
    BY <1>4, <2>2
  <2> QED BY <1>1, <1>6, <2>2, <2>3 DEF T0sMeant
<1>7. CASE r = <<>> /\ u = <<>>
  <2>1. ASSUME NEW d \in 1..n PROVE GetAt(r, d) = None /\ GetAt(u, d) = None
    <3>1. d \notin 1..Len(r) /\ d \notin 1..Len(u)
      BY <1>7
    <3> QED BY <1>3, <3>1, GetAtIs
  <2>2. Len(g) \in {0, n}
    BY <1>1, <1>2, <1>7 DEF FromUser, Complete
  <2>3. CASE Len(g) = n
    <3>1. ASSUME NEW d \in 1..n PROVE GetAt(g, d) # None
      <4>1. d \in 1..Len(g)
        BY <2>3
      <4>2. g[d] >= 0
        BY <1>2, <4>1 DEF FromUser, Known
      <4>3. g[d] \in Int
        BY <1>3, <4>1
      <4> QED BY <1>3, <4>1, <4>2, <4>3, GetAtIs DEF None
    <3>2. \A d \in 1..n : FromMsr(d) # None /\ T0(d) = MeantT0(0, d)
      BY <1>5, <2>1, <3>1
    <3>3. WithT0s(run).t0 = r
      BY <1>4, <3>2
    <3> QED BY <1>1, <1>2, <1>7, <3>2, <3>3 DEF T0sMeant
  <2>4. CASE Len(g) = 0
    <3>1. ASSUME NEW d \in 1..n PROVE GetAt(g, d) = None
      <4>1. d \notin 1..Len(g)
        BY <2>4
      <4> QED BY <1>3, <4>1, GetAtIs
    <3>2. \A d \in 1..n : FromMsr(d) = None /\ T0(d) = MeantT0(0, d)
      BY <1>5, <2>1, <3>1
    <3>3. Len(WithT0s(run).t0) = n /\ \A d \in 1..n : WithT0s(run).t0[d] = T0(d)
      BY <1>4, <1>7, <3>2
    <3> QED BY <1>1, <3>2, <3>3 DEF T0sMeant
  <2> QED BY <2>2, <2>3, <2>4
<1> QED BY <1>1, <1>2, <1>6, <1>7 DEF T0sMeant

(* What is meant for an addrun is what is in the file, if anything is.     *)
LEMMA MeantAddT0s ==
  ASSUME FromUser, NEW b \in Block, NoEmpty(b.addT0), AddT0sMatch(setup.addRuns, b),
         \A k \in 1..Len(b.addT0) : \A d \in 1..Len(b.addT0[k]) : b.addT0[k][d] >= 0,
         T0sMeant(b), AddT0sMeant(b), NEW k \in 1..setup.addRuns, NEW d \in Detectors
  PROVE  /\ AddT0Of(b, k, d) = MeantT0(k, d)
         /\ AddT0FromMsr(b, k, d) # None => k \in 1..Len(b.addT0)
         /\ AddT0FromMsr(b, k, d) = None => FromData(k, d) = MeantT0(k, d)
<1>1. PICK n \in Nat \ {0}, r \in Nat : n = setup.detectors /\ Detectors = 1..n /\ r = setup.addRuns
  BY SetupIs DEF FromUser
<1>2. PICK a, u : a = b.addT0 /\ u = UsersRun.addT0
  OBVIOUS
<1>3. a \in Seq(Seq(Int)) /\ u \in Seq(Seq(Int))
  BY <1>2 DEF Block, FromUser
<1>4. /\ DOMAIN a = 1..Len(a) /\ Len(a) \in Nat /\ DOMAIN u = 1..Len(u)
      /\ \A j \in 1..Len(a) : a[j] \in Seq(Int)
  BY <1>3
<1>5. k \in 1..r /\ d \in 1..n
  BY <1>1
<1>6. u = <<>> => MeantT0(k, d) = FromData(k, d)
  BY <1>2, <1>3, <1>4, <1>5 DEF MeantT0, GetAddT0
<1>7. GetAddT0(b, k, d) = IF k \in 1..Len(a) THEN GetAt(a[k], d) ELSE None
  BY <1>2, <1>4 DEF GetAddT0
<1>8. ASSUME k \in 1..Len(a)
      PROVE  GetAddT0(b, k, d) = MeantT0(k, d) /\ GetAddT0(b, k, d) # None
  <2>1. Len(a[k]) >= n /\ a[k][d] = MeantT0(k, d)
    BY <1>1, <1>2, <1>5, <1>8 DEF AddT0sMeant
  <2>2. PICK t : t = a[k] /\ t \in Seq(Int)
    BY <1>4, <1>8
  <2>3. d \in 1..Len(t)
    BY <1>5, <2>1, <2>2
  <2>4. t[d] >= 0 /\ t[d] \in Int
    BY <1>2, <1>8, <2>2, <2>3
  <2>5. GetAt(t, d) = t[d]
    BY <2>2, <2>3, GetAtIs
  <2>6. t[d] # None
    BY <2>4 DEF None
  <2> QED BY <1>7, <1>8, <2>1, <2>2, <2>5, <2>6
<1>9. ASSUME k \notin 1..Len(a) PROVE u = <<>>
  <2>1. Len(a) \in {0, r}
    BY <1>1, <1>2, <1>5 DEF AddT0sMatch
  <2>2. Len(a) = 0
    BY <1>5, <1>9, <2>1
  <2>3. a = <<>>
    BY <1>3, <2>2
  <2> QED BY <1>2, <2>3 DEF AddT0sMeant
<1>10. ASSUME d > Len(b.t0) PROVE u = <<>>
  <2>1. b.t0 \in Seq(Int)
    BY DEF Block
  <2>2. ~(Len(b.t0) >= n)
    BY <1>5, <1>10, <2>1
  <2>3. UsersRun.t0 = <<>>
    BY <1>1, <2>2 DEF T0sMeant
  <2> QED BY <1>2, <2>3 DEF FromUser, Complete
<1>11. CASE setup.single /\ d > Len(b.t0)
  <2>1. AddT0FromMsr(b, k, d) = None
    BY <1>11 DEF AddT0FromMsr
  <2>2. MeantT0(k, d) = FromData(k, d)
    BY <1>6, <1>10, <1>11
  <2> QED BY <2>1, <2>2 DEF AddT0Of
<1>12. CASE ~(setup.single /\ d > Len(b.t0))
  <2>1. AddT0FromMsr(b, k, d) = GetAddT0(b, k, d)
    BY <1>12 DEF AddT0FromMsr
  <2>2. CASE k \in 1..Len(a)
    BY <1>2, <1>8, <2>1, <2>2 DEF AddT0Of
  <2>3. CASE k \notin 1..Len(a)
    BY <1>6, <1>7, <1>9, <2>1, <2>3 DEF AddT0Of
  <2> QED BY <2>2, <2>3
<1> QED BY <1>11, <1>12

Stored(b, k, d, v) == k \in 1..Len(b.addT0) /\ d \in 1..Len(b.addT0[k]) /\ b.addT0[k][d] = v

(* What has been stored stays, but for what is stored in its place. *)
KeepsStored(b, c, k, d, v) ==
  \A k2, d2, v2 : Stored(b, k2, d2, v2) /\ (k2 = k /\ d2 = d => v2 = v) => Stored(c, k2, d2, v2)

LEMMA SetStored ==
  ASSUME NEW b \in Block, NEW k \in Nat \ {0}, NEW d \in Nat \ {0}, NEW v \in Int,
         NEW c, c = SetAddT0(b, k, d, v)
  PROVE  Stored(c, k, d, v) /\ KeepsStored(b, c, k, d, v)
<1>1. /\ c \in Block /\ c.t0 = b.t0
      /\ Len(c.addT0) = IF k <= Len(b.addT0) THEN Len(b.addT0) ELSE k
      /\ d <= Len(c.addT0[k]) /\ c.addT0[k][d] = v /\ KeepsAddT0s(b, c, k, d)
  BY SetAddT0Is
<1>2. PICK a, e : a = b.addT0 /\ e = c.addT0 /\ a \in Seq(Seq(Int)) /\ e \in Seq(Seq(Int))
  BY <1>1 DEF Block
<1>3. k \in 1..Len(e) /\ Len(a) \in Nat /\ Len(a) <= Len(e) /\ \A j \in 1..Len(e) : e[j] \in Seq(Int)
  <2>1. PICK T : T = Seq(Int) /\ a \in Seq(T) /\ e \in Seq(T)
    BY <1>2
  <2>2. Len(a) \in Nat /\ Len(e) \in Nat /\ \A j \in 1..Len(e) : e[j] \in T
    BY <2>1
  <2>3. Len(e) = IF k <= Len(a) THEN Len(a) ELSE k
    BY <1>1, <1>2
  <2> QED BY <2>1, <2>2, <2>3
<1>4. d \in 1..Len(e[k])
  BY <1>1, <1>2, <1>3
<1>5. Stored(c, k, d, v)
  BY <1>1, <1>2, <1>3, <1>4 DEF Stored
<1>6. ASSUME NEW k2, NEW d2, NEW v2, Stored(b, k2, d2, v2), k2 = k /\ d2 = d => v2 = v
      PROVE  Stored(c, k2, d2, v2)
  <2>1. k2 \in 1..Len(a) /\ d2 \in 1..Len(a[k2]) /\ a[k2][d2] = v2
    BY <1>2, <1>6 DEF Stored
  <2>2. d2 <= Len(e[k2]) /\ (k2 # k \/ d2 # d => e[k2][d2] = a[k2][d2])
    BY <1>1, <1>2, <2>1 DEF KeepsAddT0s
  <2>3. k2 \in 1..Len(e)
    BY <1>3, <2>1
  <2>4. d2 \in Int /\ 1 <= d2
    <3>1. a[k2] \in Seq(Int)
      BY <1>2, <2>1
    <3> QED BY <2>1, <3>1
  <2>5. d2 \in 1..Len(e[k2])
    <3>1. Len(e[k2]) \in Nat
      BY <1>3, <2>3
    <3> QED BY <2>2, <2>4, <3>1
  <2>6. e[k2][d2] = v2
    BY <1>1, <1>2, <1>6, <2>1, <2>2
  <2> QED BY <1>2, <2>3, <2>5, <2>6 DEF Stored
<1> QED BY <1>5, <1>6 DEF KeepsStored

(* Whatever is set, no addt0 is lost. *)
LEMMA AddT0sLonger ==
  ASSUME setup \in Setups, NEW b \in Block, NEW c, c = WithAddT0s(b)
  PROVE  c \in Block /\ c.t0 = b.t0 /\ Len(c.addT0) >= Len(b.addT0)
<1>1. PICK seq : seq = AddRunDetectors
  OBVIOUS
<1>2. PICK X : X = [k : 1..setup.addRuns, d : Detectors]
  OBVIOUS
<1>3. seq \in Seq(X)
  BY <1>1, <1>2, AddRunDetectorsAre
<1>4. PICK n \in Nat : n = Len(seq) /\ \A i \in 1..n : seq[i] \in X
  BY <1>3
<1>5. PICK f : SettingAddT0s(b, n, f)
  BY <1>1, <1>4, SetsAddT0s
<1> DEFINE Good(m) == f[m].t0 = b.t0 /\ Len(f[m].addT0) >= Len(b.addT0)
<1>6. PICK good10 : good10 = {m \in 0..n : Good(m)}
  OBVIOUS
<1>7. Len(b.addT0) \in Nat
  BY DEF Block
<1>8. 0 \in good10
  <2>1. f[0] = b
    BY <1>5 DEF SettingAddT0s
  <2>2. Good(0) /\ 0 \in 0..n
    BY <1>7, <2>1
  <2> HIDE DEF Good
  <2> QED BY <1>6, <2>2
<1>9. ASSUME NEW m \in 0..(n - 1), m \in good10 PROVE m + 1 \in good10
  <2>1. PICK i \in 1..n : i = m + 1
    OBVIOUS
  <2>2. i - 1 = m /\ i \in 0..n /\ m \in 0..n
    BY <2>1
  <2>3. PICK x, y, k, d : x = f[m] /\ y = f[i] /\ k = seq[i].k /\ d = seq[i].d
    OBVIOUS
  <2>4. x \in Block /\ y = IF AddT0FromMsr(b, k, d) # None THEN x ELSE SetAddT0(x, k, d, FromData(k, d))
    BY <1>1, <1>5, <2>2, <2>3 DEF SettingAddT0s
  <2>5. k \in Nat \ {0} /\ d \in Nat \ {0} /\ FromData(k, d) \in Int
    <3>1. k \in 1..setup.addRuns /\ d \in Detectors
      BY <1>2, <1>4, <2>3
    <3>2. setup.addRuns \in Nat /\ setup.detectors \in Nat \ {0} /\ Detectors = 1..setup.detectors
      BY SetupIs
    <3>3. k \in 0..setup.addRuns
      BY <3>1, <3>2
    <3>4. FromData(k, d) \in 0..Size
      BY <3>1, <3>3, SetupIs
    <3> QED BY <3>1, <3>2, <3>4, BinsAssumption
  <2>6. Good(m)
    BY <1>6, <1>9
  <2>7. Len(x.addT0) \in Nat
    BY <2>4 DEF Block
  <2>8. y.t0 = x.t0 /\ Len(y.addT0) >= Len(x.addT0)
    <3>1. CASE AddT0FromMsr(b, k, d) # None
      BY <2>4, <2>7, <3>1
    <3>2. CASE AddT0FromMsr(b, k, d) = None
      <4>1. y = SetAddT0(x, k, d, FromData(k, d))
        BY <2>4, <3>2
      <4>2. y.t0 = x.t0 /\ Len(y.addT0) = IF k <= Len(x.addT0) THEN Len(x.addT0) ELSE k
        BY <2>4, <2>5, <4>1, SetAddT0Is
      <4> QED BY <2>5, <2>7, <4>2
    <3> QED BY <3>1, <3>2
  <2>9. Len(y.addT0) \in Nat
    <3>1. y \in Block
      BY <1>5, <2>2, <2>3 DEF SettingAddT0s
    <3> QED BY <3>1 DEF Block
  <2>10. Good(i)
    BY <1>7, <2>3, <2>6, <2>7, <2>8, <2>9, SMTT(30)
  <2> HIDE DEF Good
  <2> QED BY <1>6, <2>1, <2>2, <2>10
<1>10. 0..n \subseteq good10
  BY <1>8, <1>9, UpTo
<1>11. n \in 0..n
  OBVIOUS
<1>12. Good(n)
  BY <1>6, <1>10, <1>11
<1>13. c = f[n] /\ f[n] \in Block
  BY <1>5, <1>11 DEF SettingAddT0s
<1> QED BY <1>12, <1>13

(* After GetProperT0 a block has for every addrun and detector what is used. *)
LEMMA AddT0sStored ==
  ASSUME setup \in Setups, NEW b \in Block, NoEmpty(b.addT0), AddT0sMatch(setup.addRuns, b),
         NEW c, c = WithAddT0s(b)
  PROVE  /\ c \in Block /\ NoEmpty(c.addT0) /\ Len(c.addT0) >= setup.addRuns
         /\ \A k \in 1..setup.addRuns, d \in Detectors : Stored(c, k, d, AddT0Of(b, k, d))
<1>0. PICK nd \in Nat \ {0}, r \in Nat : nd = setup.detectors /\ Detectors = 1..nd /\ r = setup.addRuns
  BY SetupIs
<1>1. PICK seq : seq = AddRunDetectors
  OBVIOUS
<1>2. PICK X : X = [k : 1..r, d : 1..nd]
  OBVIOUS
<1>3. seq \in Seq(X)
  BY <1>0, <1>1, <1>2, AddRunDetectorsAre
<1>4. PICK n \in Nat : n = Len(seq) /\ \A i \in 1..n : seq[i] \in X
  BY <1>3
<1>5. PICK f : SettingAddT0s(b, n, f)
  BY <1>1, <1>4, SetsAddT0s
<1>6. PICK limit \in Nat : limit = IF r <= Len(b.addT0) THEN Len(b.addT0) ELSE r
  <2>1. Len(b.addT0) \in Nat
    BY DEF Block
  <2> QED BY <2>1
<1>7. b.addT0 \in Seq(Seq(Int)) /\ Len(b.addT0) \in Nat
  BY DEF Block
<1>8. ASSUME NEW k \in 1..r, NEW d \in 1..nd, AddT0FromMsr(b, k, d) # None
      PROVE  Stored(b, k, d, AddT0Of(b, k, d))
  <2>1. GetAddT0(b, k, d) # None /\ AddT0Of(b, k, d) = GetAddT0(b, k, d)
    BY <1>8 DEF AddT0FromMsr, AddT0Of
  <2>2. k \in DOMAIN b.addT0 /\ GetAt(b.addT0[k], d) # None /\ AddT0Of(b, k, d) = GetAt(b.addT0[k], d)
    BY <2>1 DEF GetAddT0
  <2>3. k \in 1..Len(b.addT0)
    BY <1>7, <2>2
  <2>4. PICK s : s = b.addT0[k] /\ s \in Seq(Int)
    BY <1>7, <2>3
  <2>5. d \in 1..Len(s) /\ GetAt(s, d) = s[d]
    BY <2>2, <2>4, GetAtIs
  <2> QED BY <2>2, <2>3, <2>4, <2>5 DEF Stored
<1> DEFINE Good(m) ==
      /\ Len(f[m].addT0) <= limit
      /\ \A k \in 1..r, d \in 1..nd : AddT0FromMsr(b, k, d) # None => Stored(f[m], k, d, AddT0Of(b, k, d))
      /\ \A i \in 1..m : Stored(f[m], seq[i].k, seq[i].d, AddT0Of(b, seq[i].k, seq[i].d))
<1>10. PICK good11 : good11 = {m \in 0..n : Good(m)}
  OBVIOUS
<1>11. 0 \in good11
  <2>1. f[0] = b
    BY <1>5 DEF SettingAddT0s
  <2>2. Len(f[0].addT0) <= limit
    BY <1>6, <1>7, <2>1
  <2>3. \A k \in 1..r, d \in 1..nd : AddT0FromMsr(b, k, d) # None => Stored(f[0], k, d, AddT0Of(b, k, d))
    BY <1>8, <2>1
  <2>4. 1..0 = {} /\ 0 \in 0..n
    OBVIOUS
  <2>5. Good(0)
    BY <2>2, <2>3, <2>4
  <2> HIDE DEF Good
  <2> QED BY <1>10, <2>4, <2>5
<1>12. ASSUME NEW m \in 0..(n - 1), m \in good11 PROVE m + 1 \in good11
  <2>1. PICK i \in 1..n : i = m + 1
    OBVIOUS
  <2>2. i - 1 = m /\ i \in 0..n /\ m \in 0..n /\ \A j \in 1..i : j = i \/ j \in 1..m
    BY <2>1
  <2>3. PICK x, y, k, d : x = f[m] /\ y = f[i] /\ k = seq[i].k /\ d = seq[i].d
    OBVIOUS
  <2>4. x \in Block /\ y = IF AddT0FromMsr(b, k, d) # None THEN x ELSE SetAddT0(x, k, d, FromData(k, d))
    BY <1>1, <1>5, <2>2, <2>3 DEF SettingAddT0s
  <2>5. k \in 1..r /\ d \in 1..nd /\ k \in Nat \ {0} /\ d \in Nat \ {0}
    BY <1>2, <1>4, <2>3
  <2>6. Good(m)
    BY <1>10, <1>12
  <2>7. CASE AddT0FromMsr(b, k, d) # None
    <3>1. y = x
      BY <2>4, <2>7
    <3>2. Stored(x, k, d, AddT0Of(b, k, d))
      BY <2>3, <2>5, <2>6, <2>7
    <3>3. Good(i)
      BY <2>2, <2>3, <2>6, <3>1, <3>2
    <3> HIDE DEF Good
    <3> QED BY <1>10, <2>1, <2>2, <3>3
  <2>8. CASE AddT0FromMsr(b, k, d) = None
    <3>1. y = SetAddT0(x, k, d, FromData(k, d)) /\ AddT0Of(b, k, d) = FromData(k, d)
      BY <2>4, <2>8 DEF AddT0Of
    <3>2. FromData(k, d) \in Int
      <4>1. k \in 0..setup.addRuns /\ d \in Detectors
        BY <1>0, <2>5
      <4>2. FromData(k, d) \in 0..Size
        BY <4>1, SetupIs
      <4> QED BY <4>2, BinsAssumption
    <3>3. Stored(y, k, d, FromData(k, d)) /\ KeepsStored(x, y, k, d, FromData(k, d))
      BY <2>4, <2>5, <3>1, <3>2, SetStored
    <3>4. Len(y.addT0) <= limit
      <4>1. Len(x.addT0) \in Nat /\ Len(x.addT0) <= limit
        BY <2>3, <2>4, <2>6, BlockIs
      <4>2. Len(y.addT0) = IF k <= Len(x.addT0) THEN Len(x.addT0) ELSE k
        BY <2>4, <2>5, <3>1, <3>2, SetAddT0Is
      <4> QED BY <1>6, <1>7, <2>5, <4>1, <4>2
    <3>5. ASSUME NEW k2 \in 1..r, NEW d2 \in 1..nd, Stored(x, k2, d2, AddT0Of(b, k2, d2))
          PROVE  Stored(y, k2, d2, AddT0Of(b, k2, d2))
      BY <3>1, <3>3, <3>5 DEF KeepsStored
    <3>6. \A j \in 1..i : Stored(y, seq[j].k, seq[j].d, AddT0Of(b, seq[j].k, seq[j].d))
      <4>1. ASSUME NEW j \in 1..m PROVE Stored(y, seq[j].k, seq[j].d, AddT0Of(b, seq[j].k, seq[j].d))
        <5>1. j \in 1..n
          BY <2>1
        <5>2. seq[j].k \in 1..r /\ seq[j].d \in 1..nd
          BY <1>2, <1>4, <5>1
        <5>3. Stored(x, seq[j].k, seq[j].d, AddT0Of(b, seq[j].k, seq[j].d))
          BY <2>3, <2>6
        <5> QED BY <3>5, <5>2, <5>3
      <4>2. Stored(y, seq[i].k, seq[i].d, AddT0Of(b, seq[i].k, seq[i].d))
        BY <2>3, <3>1, <3>3
      <4> QED BY <2>2, <4>1, <4>2
    <3>7. \A k2 \in 1..r, d2 \in 1..nd :
            AddT0FromMsr(b, k2, d2) # None => Stored(y, k2, d2, AddT0Of(b, k2, d2))
      BY <2>3, <2>6, <3>5
    <3>8. Good(i)
      BY <2>3, <3>4, <3>6, <3>7
    <3> HIDE DEF Good
    <3> QED BY <1>10, <2>1, <2>2, <3>8
  <2> QED BY <2>7, <2>8
<1>13. 0..n \subseteq good11
  BY <1>11, <1>12, UpTo
<1>14. n \in 0..n
  OBVIOUS
<1>15. Good(n)
  BY <1>10, <1>13, <1>14
<1>16. c = f[n] /\ f[n] \in Block
  BY <1>5, <1>14 DEF SettingAddT0s
<1>17. ASSUME NEW k \in 1..r, NEW d \in 1..nd PROVE Stored(c, k, d, AddT0Of(b, k, d))
  <2>1. PICK i \in 1..n : seq[i] = [k |-> k, d |-> d]
    BY <1>0, <1>1, <1>4, AddRunDetectorsAre
  <2>2. Stored(c, seq[i].k, seq[i].d, AddT0Of(b, seq[i].k, seq[i].d))
    BY <1>15, <1>16
  <2>3. seq[i].k = k /\ seq[i].d = d
    BY <2>1
  <2> QED BY <2>2, <2>3
<1>18. PICK e : e = c.addT0 /\ e \in Seq(Seq(Int)) /\ Len(e) \in Nat
  BY <1>16, BlockIs
<1>19. ASSUME NEW k \in 1..r PROVE k \in 1..Len(e) /\ e[k] # <<>>
  <2>1. Stored(c, k, 1, AddT0Of(b, k, 1))
    BY <1>17
  <2>2. k \in 1..Len(e) /\ 1 \in 1..Len(e[k])
    BY <1>18, <2>1 DEF Stored
  <2>3. Len(<<>>) = 0
    OBVIOUS
  <2> QED BY <2>2, <2>3
<1>20. Len(e) >= r
  <2>1. CASE r = 0
    BY <1>18, <2>1
  <2>2. CASE r # 0
    <3>1. r \in 1..Len(e)
      BY <1>19, <2>2
    <3> QED BY <1>18, <3>1
  <2> QED BY <2>1, <2>2
<1>21. NoEmpty(e)
  <2>1. CASE r = 0
    <3>1. n = 0
      BY <1>2, <1>4, <2>1
    <3>2. c = b
      BY <1>5, <1>16, <3>1 DEF SettingAddT0s
    <3> QED BY <1>18, <3>2
  <2>2. CASE r # 0
    <3>1. Len(b.addT0) \in {0, r}
      BY <1>0, <2>2 DEF AddT0sMatch
    <3>2. Len(e) <= r
      BY <1>6, <1>7, <1>15, <1>16, <1>18, <3>1
    <3>3. ASSUME NEW k \in 1..Len(e) PROVE e[k] # <<>>
      <4>1. k \in 1..r
        BY <1>18, <3>2
      <4> QED BY <1>19, <4>1
    <3> QED BY <3>3 DEF NoEmpty
  <2> QED BY <2>1, <2>2
<1>22. \A k \in 1..setup.addRuns, d \in Detectors : Stored(c, k, d, AddT0Of(b, k, d))
  BY <1>0, <1>17
<1> QED BY <1>0, <1>16, <1>18, <1>20, <1>21, <1>22

(* After GetProperT0 a block has for every addrun the t0's that are meant. *)
LEMMA AddT0sSet ==
  ASSUME FromUser, NEW b \in Block, NoEmpty(b.addT0), AddT0sMatch(setup.addRuns, b),
         \A k \in 1..Len(b.addT0) : \A d \in 1..Len(b.addT0[k]) : b.addT0[k][d] >= 0,
         T0sMeant(b), AddT0sMeant(b), NEW c, c = WithAddT0s(b)
  PROVE  AddT0sMeant(c) /\ NoEmpty(c.addT0) /\ Len(c.addT0) >= setup.addRuns
<1>0. PICK nd \in Nat \ {0}, r \in Nat : nd = setup.detectors /\ Detectors = 1..nd /\ r = setup.addRuns
  BY SetupIs DEF FromUser
<1>1. /\ c \in Block /\ NoEmpty(c.addT0) /\ Len(c.addT0) >= r
      /\ \A k \in 1..r, d \in 1..nd : Stored(c, k, d, AddT0Of(b, k, d))
  BY <1>0, AddT0sStored DEF FromUser
<1>2. \A k \in 1..r, d \in 1..nd : AddT0Of(b, k, d) = MeantT0(k, d)
  BY <1>0, MeantAddT0s
<1>3. PICK e : e = c.addT0 /\ e \in Seq(Seq(Int)) /\ Len(e) \in Nat
  BY <1>1, BlockIs
<1>4. ASSUME NEW k \in 1..r PROVE Len(e[k]) >= nd /\ \A d \in 1..nd : e[k][d] = MeantT0(k, d)
  <2>1. \A d \in 1..nd : k \in 1..Len(e) /\ d \in 1..Len(e[k]) /\ e[k][d] = MeantT0(k, d)
    BY <1>1, <1>2, <1>3, Zenon DEF Stored
  <2>2. nd \in 1..nd
    OBVIOUS
  <2>3. k \in 1..Len(e) /\ nd \in 1..Len(e[k])
    BY <2>1, <2>2
  <2>4. Len(e[k]) \in Nat
    BY <1>3, <2>3
  <2> QED BY <2>1, <2>3, <2>4
<1>5. e = <<>> => UsersRun.addT0 = <<>>
  <2>1. CASE r = 0
    <3>1. WithAddT0s(b) = b
      <4>1. PICK f : SettingAddT0s(b, Len(AddRunDetectors), f)
        BY SetsAddT0s DEF FromUser
      <4>2. Len(AddRunDetectors) = 0
        <5>1. AddRunDetectors \in Seq({})
          <6>1. [k : 1..setup.addRuns, d : Detectors] = {}
            BY <1>0, <2>1
          <6> QED BY <6>1, AddRunDetectorsAre DEF FromUser
        <5> QED BY <5>1
      <4> QED BY <4>1, <4>2 DEF SettingAddT0s
    <3> QED BY <1>3, <3>1 DEF AddT0sMeant
  <2>2. CASE r # 0
    <3>1. e # <<>>
      BY <1>1, <1>3, <2>2
    <3> QED BY <3>1
  <2> QED BY <2>1, <2>2
<1>6. AddT0sMeant(c)
  BY <1>0, <1>3, <1>4, <1>5 DEF AddT0sMeant
<1> QED BY <1>0, <1>1, <1>6

LEMMA UsersMeant ==
  ASSUME FromUser
  PROVE  T0sMeant(UsersRun) /\ AddT0sMeant(UsersRun)
<1>1. PICK n \in Nat \ {0}, r \in Nat : n = setup.detectors /\ Detectors = 1..n /\ r = setup.addRuns
  BY SetupIs DEF FromUser
<1>2. PICK t, a : t = UsersRun.t0 /\ a = UsersRun.addT0 /\ t \in Seq(Int) /\ a \in Seq(Seq(Int))
  BY DEF FromUser
<1>3. Len(t) \in {0, n} /\ \A k \in DOMAIN a : Len(a[k]) = n
  BY <1>1, <1>2 DEF FromUser, Complete
<1>4. ASSUME Len(t) = 0 PROVE T0sMeant(UsersRun)
  <2>1. t = <<>>
    BY <1>2, <1>4
  <2> QED BY <1>2, <2>1 DEF T0sMeant
<1>5. ASSUME Len(t) = n PROVE T0sMeant(UsersRun)
  <2>1. ASSUME NEW d \in 1..n PROVE t[d] = MeantT0(0, d)
    <3>1. GetAt(t, d) = t[d] /\ t[d] \in Int
      BY <1>2, <1>5, GetAtIs
    <3>2. t[d] >= 0
      BY <1>2, <1>5 DEF FromUser, Known
    <3>3. t[d] # None
      BY <3>1, <3>2 DEF None
    <3> QED BY <1>2, <3>1, <3>3 DEF MeantT0
  <2> QED BY <1>1, <1>2, <1>5, <2>1 DEF T0sMeant
<1>6. ASSUME NEW k \in 1..r, k <= Len(a), NEW d \in 1..n
      PROVE  Len(a[k]) >= n /\ a[k][d] = MeantT0(k, d)
  <2>1. k \in 1..Len(a) /\ k \in DOMAIN a
    BY <1>2, <1>6
  <2>2. PICK e : e = a[k] /\ e \in Seq(Int)
    BY <1>2, <2>1
  <2>3. Len(e) = n
    BY <1>3, <2>1, <2>2
  <2>4. GetAt(e, d) = e[d] /\ e[d] \in Int
    BY <2>2, <2>3, GetAtIs
  <2>5. e[d] >= 0
    BY <1>2, <2>1, <2>2, <2>3 DEF FromUser, Known
  <2>6. e[d] # None
    BY <2>4, <2>5 DEF None
  <2>7. GetAddT0(UsersRun, k, d) = e[d]
    BY <1>2, <2>1, <2>2, <2>4 DEF GetAddT0
  <2>8. MeantT0(k, d) = e[d]
    <3>1. k # 0
      OBVIOUS
    <3> QED BY <2>6, <2>7, <3>1 DEF MeantT0
  <2> QED BY <2>2, <2>3, <2>8
<1>7. AddT0sMeant(UsersRun)
  <2>1. \A k \in 1..r : k <= Len(a) => Len(a[k]) >= n /\ \A d \in 1..n : a[k][d] = MeantT0(k, d)
    <3>1. 1 \in 1..n
      OBVIOUS
    <3> QED BY <1>6, <3>1
  <2> QED BY <1>1, <1>2, <2>1 DEF AddT0sMeant
<1>8. Len(t) = 0 \/ Len(t) = n
  BY <1>3
<1> QED BY <1>4, <1>5, <1>7, <1>8, Zenon

(* What is meant is written, and is what the next session reads. *)
LEMMA WrittenMeant ==
  ASSUME FromUser, NEW lines \in Seq(Lines), NEW b, Writable(lines, b), NoEmpty(b.addT0),
         T0sMeant(ReadBlock(lines)), AddT0sMeant(ReadBlock(lines)),
         T0sMeant(b), AddT0sMeant(b), Len(b.addT0) >= setup.addRuns,
         NEW w, w = WriteRun(lines, b, setup.isis)
  PROVE  T0sMeant(ReadBlock(w)) /\ AddT0sMeant(ReadBlock(w))
<1>1. PICK n \in Nat \ {0}, r \in Nat : n = setup.detectors /\ Detectors = 1..n /\ r = setup.addRuns
  BY SetupIs DEF FromUser
<1>2. setup.isis \in BOOLEAN
  BY SetupIs DEF FromUser
<1>3. PICK old, new : old = ReadBlock(lines) /\ new = ReadBlock(w)
  OBVIOUS
<1>4. /\ w \in Seq(Lines)
      /\ new.t0 = <<>> \/ Begins(new.t0, b.t0)
      /\ Has(lines, "t0") => Begins(new.t0, b.t0)
      /\ b.t0 = <<>> => new.t0 = <<>>
  BY <1>2, <1>3, WrittenT0s
<1>5. /\ new.addT0 \in Seq(Seq(Int))
      /\ \A k \in 1..Len(b.addT0) : k <= Len(new.addT0) => new.addT0[k] = b.addT0[k]
      /\ AddT0LinesBefore(lines, Len(lines) + 1) > 0 => new.addT0 # <<>>
  BY <1>2, <1>3, WrittenAddT0s
<1>6. b.t0 \in Seq(Int) /\ new.t0 \in Seq(Int) /\ old.addT0 \in Seq(Seq(Int)) /\ Len(b.addT0) \in Nat
  <2>1. b \in Block
    BY DEF Writable
  <2>2. b.t0 \in Seq(Int) /\ Len(b.addT0) \in Nat
    BY <2>1, BlockIs
  <2>3. new \in Blocks(w) /\ old \in Blocks(lines)
    BY <1>3, <1>4, ReadBlockIs
  <2>4. PICK X, Y : X = Seq(Int) /\ Y = Seq(X)
    OBVIOUS
  <2>5. new.t0 \in X /\ old.addT0 \in Y
    BY <2>3, <2>4 DEF Blocks
  <2> QED BY <2>2, <2>4, <2>5
<1>7. T0sMeant(new)
  <2>1. CASE b.t0 = <<>>
    <3>1. Len(b.t0) = 0
      BY <2>1
    <3>2. UsersRun.t0 = <<>>
      BY <1>1, <3>1 DEF T0sMeant
    <3> QED BY <1>4, <2>1, <3>2 DEF T0sMeant
  <2>2. CASE b.t0 # <<>>
    <3>1. Len(b.t0) >= n /\ \A d \in 1..n : b.t0[d] = MeantT0(0, d)
      BY <1>1, <2>2 DEF T0sMeant
    <3>2. CASE Begins(new.t0, b.t0)
      <4>1. PICK x, y : x = new.t0 /\ y = b.t0
        OBVIOUS
      <4>2. Len(y) <= Len(x) /\ \A d \in 1..Len(y) : x[d] = y[d]
        BY <3>2, <4>1 DEF Begins
      <4>3. Len(x) \in Nat /\ Len(y) \in Nat /\ Len(y) >= n
        BY <1>6, <3>1, <4>1
      <4>4. Len(x) >= n /\ \A d \in 1..n : d \in 1..Len(y)
        BY <4>2, <4>3
      <4>5. \A d \in 1..n : x[d] = MeantT0(0, d)
        BY <3>1, <4>1, <4>2, <4>4
      <4> QED BY <1>1, <4>1, <4>4, <4>5 DEF T0sMeant
    <3>3. CASE ~Begins(new.t0, b.t0)
      <4>1. new.t0 = <<>> /\ ~Has(lines, "t0")
        BY <1>4, <3>3
      <4>2. old.t0 = <<>>
        BY <1>3, <4>1, HasT0
      <4>3. Len(old.t0) = 0
        BY <4>2
      <4>4. UsersRun.t0 = <<>>
        BY <1>1, <1>3, <4>3 DEF T0sMeant
      <4> QED BY <4>1, <4>4 DEF T0sMeant
    <3> QED BY <3>2, <3>3
  <2> QED BY <2>1, <2>2
<1>8. AddT0sMeant(new)
  <2>1. ASSUME new.addT0 = <<>> PROVE UsersRun.addT0 = <<>>
    <3>1. Len(old.addT0) = AddT0LinesBefore(lines, Len(lines) + 1)
      BY <1>3, AddT0sCounted
    <3>2. ~(Len(old.addT0) > 0)
      BY <1>5, <2>1, <3>1
    <3>3. old.addT0 = <<>>
      BY <1>6, <3>2
    <3> QED BY <1>3, <3>3 DEF AddT0sMeant
  <2>2. ASSUME NEW k \in 1..r, k <= Len(new.addT0)
        PROVE  Len(new.addT0[k]) >= n /\ \A d \in 1..n : new.addT0[k][d] = MeantT0(k, d)
    <3>1. k \in 1..Len(b.addT0) /\ k <= Len(b.addT0)
      BY <1>1, <1>6
    <3>2. new.addT0[k] = b.addT0[k]
      BY <1>5, <2>2, <3>1
    <3>3. Len(b.addT0[k]) >= n /\ \A d \in 1..n : b.addT0[k][d] = MeantT0(k, d)
      BY <1>1, <3>1 DEF AddT0sMeant
    <3> QED BY <3>2, <3>3
  <2> QED BY <1>1, <2>1, <2>2 DEF AddT0sMeant
<1> QED BY <1>3, <1>7, <1>8

-----------------------------------------------------------------------------
(* The kinds of what is found.                                             *)

LEMMA PairIs ==
  ASSUME NEW p \in Int \X Int
  PROVE  p \in [1..2 -> Int] /\ p[1] \in Int /\ p[2] \in Int
<1>1. PICK x \in Int, y \in Int : p = <<x, y>>
  OBVIOUS
<1>2. <<x, y>> \in [1..2 -> Int] /\ <<x, y>>[1] = x /\ <<x, y>>[2] = y
  OBVIOUS
<1> QED BY <1>1, <1>2

LEMMA RangesIs ==
  ASSUME NEW b \in Block
  PROVE  /\ b.bkg \in [1..4 -> Int] /\ b.data \in [1..4 -> Int] /\ b.inBins \in BOOLEAN
         /\ b.offset \in [1..2 -> Int] /\ b.time \in [1..2 -> Int]
<1>1. PICK P, R : P = Int \X Int /\ R = [1..4 -> Int]
  OBVIOUS
<1>2. b.bkg \in R /\ b.data \in R /\ b.inBins \in BOOLEAN /\ b.offset \in P /\ b.time \in P
  BY <1>1 DEF Block
<1> QED BY <1>1, <1>2, PairIs

LEMMA RangeSet ==
  ASSUME NEW b \in Block, NEW r \in [1..4 -> Int],
         NEW c, c = [b EXCEPT !.bkg = r] \/ c = [b EXCEPT !.data = r]
  PROVE  c \in Block /\ c.t0 = b.t0 /\ c.addT0 = b.addT0
<1>1. PICK P, R, T, A : P = Int \X Int /\ R = [1..4 -> Int] /\ T = Seq(Int) /\ A = Seq(T)
  OBVIOUS
<1>2. Block = [t0 : T, addT0 : A, bkg : R, data : R, inBins : BOOLEAN, offset : P, time : P]
  BY <1>1 DEF Block
<1>3. r \in R
  BY <1>1
<1> QED BY <1>2, <1>3

LEMMA SideIs ==
  ASSUME setup \in Setups, t0s \in [Detectors -> Int]
  PROVE  /\ t0s[1] \in Int
         /\ ~setup.single => t0s[2] \in Int
<1>1. 1 \in Sides /\ (~setup.single => 2 \in Sides)
  BY DEF Sides
<1> QED BY <1>1, SetupIs

LEMMA WithBkgIs ==
  ASSUME setup \in Setups, t0s \in [Detectors -> Int], NEW b \in Block, NEW c, c = WithBkg(b)
  PROVE  c \in Block /\ c.t0 = b.t0 /\ c.addT0 = b.addT0
<1>1. b.bkg \in [1..4 -> Int]
  BY RangesIs
<1>2. CASE b.bkg[1] >= 0
  BY <1>2 DEF WithBkg
<1>3. CASE ~(b.bkg[1] >= 0)
  <2>1. PICK r : r = [i \in 1..4 |-> IF i <= 2 \/ ~setup.single
                                      THEN Tenth(t0s[(i + 1) \div 2], IF i % 2 = 1 THEN 1 ELSE 6) ELSE b.bkg[i]]
    OBVIOUS
  <2>2. c = [b EXCEPT !.bkg = r]
    BY <1>3, <2>1 DEF WithBkg
  <2>3. ASSUME NEW i \in 1..4 PROVE r[i] \in Int
    <3>1. CASE i <= 2 \/ ~setup.single
      <4>1. t0s[(i + 1) \div 2] \in Int
        <5>1. (i <= 2 /\ (i + 1) \div 2 = 1) \/ (~setup.single /\ (i + 1) \div 2 = 2)
          BY <3>1
        <5> QED BY <5>1, SideIs
      <4>2. PICK x, k : x = t0s[(i + 1) \div 2] /\ k = IF i % 2 = 1 THEN 1 ELSE 6
        OBVIOUS
      <4>3. x \in Int /\ k \in Int
        BY <4>1, <4>2
      <4>4. Tenth(x, k) \in Int
        BY <4>3 DEF Tenth
      <4> QED BY <2>1, <3>1, <4>2, <4>4
    <3>2. CASE ~(i <= 2 \/ ~setup.single)
      BY <1>1, <2>1, <3>2
    <3> QED BY <3>1, <3>2
  <2>4. r \in [1..4 -> Int]
    BY <2>1, <2>3
  <2> QED BY <2>2, <2>4, RangeSet
<1> QED BY <1>2, <1>3

LEMMA SidesIs ==
  Cardinality(Sides) = IF setup.single THEN 1 ELSE 2
<1>1. IsFiniteSet({1}) /\ Cardinality({1}) = 1
  BY FS_Singleton
<1>2. Cardinality({1} \cup {2}) = Cardinality({1}) + 1
  BY <1>1, FS_AddElement
<1>3. {1} \cup {2} = {1, 2}
  OBVIOUS
<1> QED BY <1>1, <1>2, <1>3 DEF Sides

LEMMA EstimatedIs ==
  ASSUME setup \in Setups, t0s \in [Detectors -> Int], NEW i \in 1..4, i <= 2*Cardinality(Sides)
  PROVE  Estimated(i) \in Int
<1>1. Cardinality(Sides) = IF setup.single THEN 1 ELSE 2
  BY SidesIs
<1>2. i % 2 = 1 => ((i + 1) \div 2 = 1 \/ (~setup.single /\ (i + 1) \div 2 = 2))
  BY <1>1
<1>3. i % 2 = 1 => t0s[(i + 1) \div 2] \in Int
  BY <1>2, SideIs
<1> QED BY <1>3, BinsAssumption DEF Estimated

LEMMA WithDataIs ==
  ASSUME setup \in Setups, t0s \in [Detectors -> Int], NEW b \in Block, NEW c, c = WithData(b)
  PROVE  c \in Block /\ c.t0 = b.t0 /\ c.addT0 = b.addT0
<1>1. b.data \in [1..4 -> Int]
  BY RangesIs
<1>2. PICK r : r = [i \in 1..4 |-> IF i <= 2*Cardinality(Sides) /\ DataRange(i) < 0 THEN Estimated(i) ELSE b.data[i]]
  OBVIOUS
<1>3. c = [b EXCEPT !.data = r]
  BY <1>2 DEF WithData
<1>4. ASSUME NEW i \in 1..4 PROVE r[i] \in Int
  BY <1>1, <1>2, EstimatedIs
<1>5. r \in [1..4 -> Int]
  BY <1>2, <1>4
<1> QED BY <1>3, <1>5, RangeSet

LEMMA OrderedIs ==
  ASSUME setup \in Setups, t0s \in [Detectors -> Int], run \in Block, global \in Block, NEW side \in Sides
  PROVE  Ordered(side)[1] \in Int /\ Clipped(side)[1] \in Int /\ Clipped(side)[2] \in Int
<1>1. run.data \in [1..4 -> Int] /\ global.data \in [1..4 -> Int]
  BY RangesIs
<1>2. side \in 1..2 /\ 2*side - 1 \in 1..4 /\ 2*side \in 1..4
  BY DEF Sides
<1>3. 2*side - 1 <= 2*Cardinality(Sides) /\ 2*side <= 2*Cardinality(Sides)
  BY SidesIs DEF Sides
<1>4. Estimated(2*side - 1) \in Int /\ Estimated(2*side) \in Int
  BY <1>2, <1>3, EstimatedIs
<1>5. DataRange(2*side - 1) \in Int /\ DataRange(2*side) \in Int
  BY <1>1, <1>2 DEF DataRange
<1>6. PICK x, y : /\ x = IF DataRange(2*side - 1) < 0 THEN Estimated(2*side - 1) ELSE DataRange(2*side - 1)
                  /\ y = IF DataRange(2*side) < 0 THEN Estimated(2*side) ELSE DataRange(2*side)
  OBVIOUS
<1>7. x \in Int /\ y \in Int
  BY <1>4, <1>5, <1>6
<1>8. Ordered(side) = IF y < x THEN <<y, x>> ELSE <<x, y>>
  BY <1>6 DEF Ordered
<1>9. PICK p \in Int, q \in Int : Ordered(side) = <<p, q>>
  <2>1. CASE y < x
    BY <1>7, <1>8, <2>1
  <2>2. CASE ~(y < x)
    BY <1>7, <1>8, <2>2
  <2> QED BY <2>1, <2>2
<1>10. PICK e \in Int : e = IF q > Size THEN Size - 1 ELSE q
  BY BinsAssumption
<1>11. Clipped(side) = <<p, e>>
  BY <1>9, <1>10 DEF Clipped
<1> QED BY <1>9, <1>11

LEMMA FourOfPairs ==
  ASSUME NEW a \in [1..2 -> Int], NEW b \in [1..2 -> Int]
  PROVE  a \o b \in [1..4 -> Int]
<1>0. PICK T : T = Int
  OBVIOUS
<1>1. PICK n \in Nat, m \in Nat : n = 2 /\ m = 4
  OBVIOUS
<1>2. a \in [1..n -> T] /\ b \in [1..n -> T]
  BY <1>0, <1>1
<1>3. a \in Seq(T) /\ Len(a) = n /\ b \in Seq(T) /\ Len(b) = n
  BY <1>2
<1>4. PICK c : c = a \o b
  OBVIOUS
<1>5. c \in Seq(T) /\ Len(c) = m
  <2>1. a \o b \in Seq(T) /\ Len(a \o b) = Len(a) + Len(b)
    BY <1>3, ConcatProperties
  <2>2. n + n = m
    BY <1>1
  <2> QED BY <1>3, <1>4, <2>1, <2>2
<1>6. c \in [1..m -> T]
  <2>1. c \in [1..Len(c) -> T]
    BY <1>5, LenProperties
  <2> QED BY <1>5, <2>1
<1> QED BY <1>0, <1>1, <1>4, <1>6

LEMMA GoodBinsIs ==
  ASSUME setup \in Setups, t0s \in [Detectors -> Int], run \in Block, global \in Block
  PROVE  GoodBins \in [1..4 -> Int]
<1>2. ASSUME NEW side \in Sides PROVE Clipped(side) \in [1..2 -> Int]
  <2>1. PICK p, q : Clipped(side) = <<p, q>>
    BY DEF Clipped
  <2>2. p \in Int /\ q \in Int
    BY <2>1, OrderedIs
  <2>3. <<p, q>> \in [1..2 -> Int]
    BY <2>2
  <2> QED BY <2>1, <2>3
<1>3. CASE setup.single
  <2>1. Clipped(1) \in [1..2 -> Int]
    BY <1>2, <1>3 DEF Sides
  <2>2. <<None, None>> \in [1..2 -> Int]
    BY DEF None
  <2>3. GoodBins = Clipped(1) \o <<None, None>>
    BY <1>3 DEF GoodBins
  <2> QED BY FourOfPairs, <2>1, <2>2, <2>3
<1>4. CASE ~setup.single
  <2>1. PICK c1, c2, x1, x2 : c1 = Clipped(1) /\ c2 = Clipped(2) /\ x1 = t0s[1] /\ x2 = t0s[2]
    OBVIOUS
  <2>2. c1 \in [1..2 -> Int] /\ c2 \in [1..2 -> Int] /\ x1 \in Int /\ x2 \in Int
    BY <1>2, <1>4, <2>1, SideIs DEF Sides
  <2>3. PICK l12, l21 : /\ l12 = [i \in 1..2 |-> x2 + c1[i] - x1]
                        /\ l21 = [i \in 1..2 |-> x1 + c2[i] - x2]
    OBVIOUS
  <2>4. l12 \in [1..2 -> Int] /\ l21 \in [1..2 -> Int]
    BY <2>2, <2>3
  <2> DEFINE rg == [side \in 1..2 |-> Clipped(side)]
             st == [side \in 1..2 |-> Distance(rg[side][1], t0s[side])]
  <2>6. st[1] \in Int /\ st[2] \in Int /\ rg[1] = c1 /\ rg[2] = c2
    BY <2>1, <2>2 DEF Distance
  <2>7. GoodBins = CASE st[1] > st[2] -> rg[1] \o [i \in 1..2 |-> t0s[2] + rg[1][i] - t0s[1]]
                     [] st[1] < st[2] -> [i \in 1..2 |-> t0s[1] + rg[2][i] - t0s[2]] \o rg[2]
                     [] st[1] = st[2] -> rg[1] \o rg[2]
    BY <1>4, Zenon DEF GoodBins
  <2> HIDE DEF rg, st
  <2>8. CASE st[1] > st[2]
    <3>1. GoodBins = rg[1] \o [i \in 1..2 |-> t0s[2] + rg[1][i] - t0s[1]]
      BY <2>6, <2>7, <2>8
    <3>2. GoodBins = c1 \o l12
      BY <2>1, <2>3, <2>6, <3>1
    <3> QED BY FourOfPairs, <2>2, <2>4, <3>2
  <2>9. CASE st[1] < st[2]
    <3>1. GoodBins = [i \in 1..2 |-> t0s[1] + rg[2][i] - t0s[2]] \o rg[2]
      BY <2>6, <2>7, <2>9
    <3>2. GoodBins = l21 \o c2
      BY <2>1, <2>3, <2>6, <3>1
    <3> QED BY FourOfPairs, <2>2, <2>4, <3>2
  <2>10. CASE st[1] = st[2]
    <3>1. GoodBins = rg[1] \o rg[2]
      BY <2>6, <2>7, <2>10
    <3> QED BY FourOfPairs, <2>2, <2>6, <3>1
  <2> QED BY <2>6, <2>8, <2>9, <2>10
<1> QED BY <1>3, <1>4

LEMMA FitRangeIs ==
  ASSUME setup \in Setups, t0s \in [Detectors -> Int], good \in [1..4 -> Int], NEW x \in Int, NEW y \in Int
  PROVE  InBinsOf(x, y) \in [1..2 -> Int]
<1>1. t0s[1] \in Int
  BY SideIs
<1>2. PICK p, q : p = good[1] + x - t0s[1] /\ q = good[2] - y - t0s[1]
  OBVIOUS
<1>3. p \in Int /\ q \in Int
  BY <1>1, <1>2
<1>4. <<p, q>> \in [1..2 -> Int]
  BY <1>3
<1> QED BY <1>2, <1>4 DEF InBinsOf

LEMMA ProperFitRangeIs ==
  ASSUME setup \in Setups, t0s \in [Detectors -> Int], good \in [1..4 -> Int], run \in Block, global \in Block
  PROVE  ProperFitRange \in [1..2 -> Int]
<1>1. ASSUME NEW b \in Block PROVE FitRangeOf(b) \in [1..2 -> Int]
  <2>1. b.offset[1] \in Int /\ b.offset[2] \in Int /\ b.time \in [1..2 -> Int]
    BY RangesIs
  <2> QED BY <2>1, FitRangeIs DEF FitRangeOf
<1> QED BY <1>1 DEF ProperFitRange

LEMMA Divided ==
  ASSUME NEW a \in Int, NEW q \in Nat \ {0}, NEW i \in Int
  PROVE  a \div q \in Int /\ (i <= a \div q <=> i*q <= a)
<1>1. PICK x \in Int : x = a \div q /\ x*q <= a /\ a < x*q + q
  <2>1. a \div q \in Int /\ a % q \in 0..(q - 1) /\ a = q*(a \div q) + (a % q)
    OBVIOUS
  <2>2. PICK x, m : x = a \div q /\ m = a % q
    OBVIOUS
  <2>3. q*x = x*q
    BY <2>1, <2>2
  <2> QED BY <2>1, <2>2, <2>3
<1>2. ASSUME NEW y \in Int, NEW z \in Int, y <= z PROVE y*q <= z*q
  <2>1. PICK w \in Nat : w = z - y
    BY <1>2
  <2>2. w*q >= 0
    OBVIOUS
  <2>3. z*q = y*q + w*q
    BY <2>1
  <2> QED BY <2>2, <2>3
<1>3. i <= x => i*q <= a
  BY <1>1, <1>2
<1>4. ASSUME i > x PROVE i*q > a
  <2>1. (x + 1)*q <= i*q
    BY <1>2, <1>4
  <2>2. (x + 1)*q = x*q + q
    OBVIOUS
  <2> QED BY <1>1, <2>1, <2>2
<1>5. i*q \in Int
  OBVIOUS
<1> QED BY <1>1, <1>3, <1>4, <1>5

(* The bins that are fitted are those whose time is in the fit range. *)
LEMMA NoOfFitBinsIs ==
  ASSUME setup \in Setups, t0s \in [Detectors -> Int], good \in [1..4 -> Int], fitTime \in [1..2 -> Int],
         NEW n \in Int, NEW b, b = NoOfFitBins(n)
  PROVE  /\ b \in [1..3 -> Int] /\ b[1] >= 0 /\ b[2] <= b[3] /\ b[3] = n
         /\ \A i \in 0..(n - 1) :
              i \in b[1]..(b[2] - 1) <=> 2*fitTime[1] <= Time2(i) /\ Time2(i) <= 2*fitTime[2]
<1>1. PICK t \in Int, q \in Nat \ {0} : t = Time2(0) /\ q = 2*setup.packing
  <2>1. t0s[1] \in Int /\ good[1] \in Int /\ setup.packing \in Nat \ {0}
    BY SideIs, SetupIs
  <2>2. 2*setup.packing*0 = 0
    BY <2>1
  <2> QED BY <2>1, <2>2 DEF Time2
<1>2. PICK x \in Int, y \in Int : x = 2*fitTime[1] /\ y = 2*fitTime[2]
  OBVIOUS
<1>3. ASSUME NEW i \in Int PROVE Time2(i) = t + i*q
  <2>1. PICK p \in Nat \ {0}, g \in Int, o \in Int : p = setup.packing /\ g = good[1] /\ o = t0s[1]
    BY SideIs, SetupIs, SMTT(30)
  <2>2. t = 2*g - 1 + p - 2*o + 2*p*0
    BY <1>1, <2>1, Zenon DEF Time2
  <2>3. Time2(i) = 2*g - 1 + p - 2*o + 2*p*i
    BY <2>1, Zenon DEF Time2
  <2>4. q = 2*p
    BY <1>1, <2>1
  <2>5. 2*p*0 = 0 /\ 2*p*i = i*q
    BY <2>4
  <2>6. PICK z \in Int : z = i*q
    OBVIOUS
  <2> QED BY <2>2, <2>3, <2>5, <2>6
<1>3a. PICK u \in Int, v \in Int : u = -(x - t) /\ v = y - t
  OBVIOUS
<1>3b. ASSUME NEW i \in Int
       PROVE  /\ u \div q \in Int /\ v \div q \in Int
              /\ i <= u \div q <=> i*q <= u
              /\ i <= v \div q <=> i*q <= v
  <2>1. u \div q \in Int /\ (i <= u \div q <=> i*q <= u)
    BY Divided
  <2>2. v \div q \in Int /\ (i <= v \div q <=> i*q <= v)
    BY Divided
  <2> QED BY <2>1, <2>2
<1>4. PICK lo \in Int, hi \in Int : lo = u \div q /\ hi = v \div q
  <2>1. 0 \in Int
    OBVIOUS
  <2> QED BY <1>3b, <2>1
<1>5. PICK first \in Int, last \in Int : /\ first = IF -lo < 0 THEN 0 ELSE -lo
                                         /\ last = IF hi + 1 > n THEN n ELSE hi + 1
  OBVIOUS
<1>6. b = <<first, last, n>>
  BY <1>1, <1>2, <1>4, <1>5, <1>3a DEF NoOfFitBins, CeilDiv
<1>7. b \in [1..3 -> Int] /\ b[1] = first /\ b[2] = last /\ b[3] = n
  <2>1. <<first, last, n>> \in [1..3 -> Int] /\ <<first, last, n>>[1] = first
        /\ <<first, last, n>>[2] = last /\ <<first, last, n>>[3] = n
    OBVIOUS
  <2> QED BY <1>6, <2>1
<1>8. ASSUME NEW i \in 0..(n - 1)
      PROVE  i \in first..(last - 1) <=> x <= t + i*q /\ t + i*q <= y
  <2>1. i \in Int /\ i*q \in Int /\ -i \in Int
    OBVIOUS
  <2>2. -i <= lo <=> (-i)*q <= -(x - t)
    BY <1>4, <1>3a, <1>3b, <2>1
  <2>3. i <= hi <=> i*q <= y - t
    BY <1>4, <1>3a, <1>3b, <2>1
  <2>4. (-i)*q = -(i*q)
    BY <2>1
  <2>5. -lo <= i <=> x <= t + i*q
    BY <2>1, <2>2, <2>4
  <2>6. i <= hi <=> t + i*q <= y
    BY <2>1, <2>3
  <2>7. i \in first..(last - 1) <=> -lo <= i /\ i <= hi
    BY <1>5
  <2> QED BY <2>5, <2>6, <2>7
<1>9. first >= 0 /\ last <= n
  BY <1>5
<1>10. ASSUME NEW i \in 0..(n - 1)
       PROVE  i \in b[1]..(b[2] - 1) <=> 2*fitTime[1] <= Time2(i) /\ Time2(i) <= 2*fitTime[2]
  <2>1. Time2(i) = t + i*q
    BY <1>3
  <2> QED BY <1>2, <1>7, <1>8, <2>1
<1> QED BY <1>7, <1>9, <1>10

LEMMA NoOfDataIs ==
  ASSUME setup \in Setups, good \in [1..4 -> Int]
  PROVE  MinOf({NoOfData(side) : side \in Sides}) \in Int
<1>1. ASSUME NEW side \in Sides PROVE NoOfData(side) \in Int
  <2>1. 2*side \in 1..4 /\ 2*side - 1 \in 1..4
    BY DEF Sides
  <2>2. PICK n \in Int : n = good[2*side] - good[2*side - 1]
    BY <2>1
  <2>3. n - 1 \in Int /\ 0 \in Int /\ setup.packing \in Nat \ {0}
    BY SetupIs
  <2>4. (n - 1) \div setup.packing \in Int
    BY <2>3, Divided
  <2> QED BY <2>2, <2>4 DEF NoOfData
<1>2. PICK S : S = {NoOfData(side) : side \in Sides}
  OBVIOUS
<1>3. PICK x \in Int, y \in Int : S = {x, y}
  <2>1. CASE setup.single
    <3>1. Sides = {1} /\ NoOfData(1) \in Int
      BY <1>1, <2>1 DEF Sides
    <3> QED BY <1>2, <3>1
  <2>2. CASE ~setup.single
    <3>1. Sides = {1, 2} /\ NoOfData(1) \in Int /\ NoOfData(2) \in Int
      BY <1>1, <2>2 DEF Sides
    <3> QED BY <1>2, <3>1
  <2> QED BY <2>1, <2>2
<1>4. \E z \in S : \A w \in S : z <= w
  BY <1>3
<1>5. MinOf(S) \in S
  BY <1>4 DEF MinOf
<1> QED BY <1>2, <1>3, <1>5

-----------------------------------------------------------------------------
(* What holds in every session, whatever the user has written: the kinds   *)
(* of the files, of the blocks that are read from them, and of the bins;   *)
(* that the GLOBAL block keeps its t0's; that a file that has been         *)
(* accepted once is known to be well-formed; and that the block has an     *)
(* addt0 for each of the lines of the file.                                *)

Busy == {"t0", "background", "data", "range", "bins", "done", "commanded", "failed"}
Prepared == {"background", "data", "range", "bins", "done", "commanded", "failed"}

FilesTyped ==
  /\ setup \in Setups
  /\ user.run \in Seq(Lines) /\ user.global \in Seq(Lines)
  /\ file.run \in Seq(Lines) /\ file.global \in Seq(Lines)

SessionsTyped ==
  /\ phase \in Busy \cup {"start", "refused"}
  /\ session \in 1..(MaxSessions + 1)
  /\ phase # "start" => session <= MaxSessions

UsersFile ==
  /\ session = 1 /\ phase = "start" => file = user
  /\ session > 1 \/ phase \in Busy => Known(UsersRun) /\ Known(UsersGlobal)
  /\ ReadBlock(file.global).t0 = UsersGlobal.t0

BlocksTyped ==
  phase \in Busy =>
    /\ run \in Block /\ global \in Block
    /\ Writable(file.run, run) /\ global.t0 = UsersGlobal.t0

ReadBefore ==
  phase = "t0" => Known(run) /\ AddT0sMatch(setup.addRuns, run) /\ run = ReadBlock(file.run)

T0sTyped ==
  phase \in Prepared =>
    /\ t0s \in [Detectors -> Int]
    /\ phase # "failed" => t0s \in [Detectors -> Bin]
    /\ DOMAIN addT0s = 1..setup.addRuns /\ Len(addT0s) = setup.addRuns
    /\ \A k \in 1..setup.addRuns : addT0s[k] \in [Detectors -> Int]

BinsTyped ==
  /\ good \in [1..4 -> Int] /\ fitTime \in [1..2 -> Int] /\ bins \in [1..3 -> Int]
  /\ phase = "done" => bins = NoOfFitBins(bins[3])

Sessions ==
  /\ FilesTyped /\ SessionsTyped /\ UsersFile
  /\ BlocksTyped /\ ReadBefore /\ T0sTyped /\ BinsTyped

(* Nothing is set by a step that leaves these as they are. *)
LEMMA UsersSame ==
  ASSUME setup' = setup, user' = user
  PROVE  /\ UsersRun' = UsersRun /\ UsersGlobal' = UsersGlobal /\ Detectors' = Detectors
         /\ Complete' <=> Complete
         /\ \A r, d : MeantT0(r, d)' = MeantT0(r, d)
  BY DEF UsersRun, UsersGlobal, Detectors, Complete, MeantT0, FromData

LEMMA SessionsInit ==
  Init => Sessions
<1> SUFFICES ASSUME Init PROVE Sessions
  OBVIOUS
<1>1. setup \in Setups /\ user \in UserFiles[setup] /\ file = user /\ phase = "start" /\ session = 1
  BY DEF Init
<1>2. user \in [run : Seq(Lines), global : Seq(Lines)]
  BY <1>1, UserFilesAssumption
<1>3. user.run \in Seq(Lines) /\ user.global \in Seq(Lines)
  <2>1. PICK T : T = Seq(Lines)
    OBVIOUS
  <2>2. user \in [run : T, global : T]
    BY <1>2, <2>1
  <2>3. user.run \in T /\ user.global \in T
    BY <2>2
  <2> QED BY <2>1, <2>3
<1>4. FilesTyped
  BY <1>1, <1>3 DEF FilesTyped
<1>5. SessionsTyped
  BY <1>1, BinsAssumption DEF SessionsTyped
<1>6. UsersFile
  BY <1>1 DEF UsersFile, Busy, UsersGlobal
<1>7. BlocksTyped /\ ReadBefore /\ T0sTyped
  BY <1>1 DEF BlocksTyped, ReadBefore, T0sTyped, Busy, Prepared
<1>8. good = NoRange /\ fitTime = <<Undefined, Undefined>> /\ bins = <<0, 0, 0>>
  BY DEF Init
<1>9. NoRange \in [1..4 -> Int] /\ <<Undefined, Undefined>> \in [1..2 -> Int] /\ <<0, 0, 0>> \in [1..3 -> Int]
  BY DEF NoRange, None, Undefined
<1>10. BinsTyped
  BY <1>1, <1>8, <1>9 DEF BinsTyped
<1> QED BY <1>4, <1>5, <1>6, <1>7, <1>10 DEF Sessions

(* A step that leaves the files and the session keeps what is known of them. *)
LEMMA FilesSame ==
  ASSUME Sessions, setup' = setup, user' = user, file' = file, session' = session,
         phase \in Busy, phase' \in Busy
  PROVE  FilesTyped' /\ SessionsTyped' /\ UsersFile'
<1>1. FilesTyped'
  BY DEF Sessions, FilesTyped
<1>2. SessionsTyped'
  BY DEF Sessions, SessionsTyped, Busy
<1>3. UsersRun' = UsersRun /\ UsersGlobal' = UsersGlobal
  BY UsersSame
<1>4. UsersFile'
  BY <1>3 DEF Sessions, UsersFile, Busy
<1> QED BY <1>1, <1>2, <1>4

LEMMA ReadFile ==
  ASSUME NEW lines \in Seq(Lines), \A i \in DOMAIN lines : LegalLine(lines[i]) \/ LegalGlobalLine(lines[i])
  PROVE  ReadBlock(lines) \in Block /\ Known(ReadBlock(lines))
<1>1. ASSUME NEW i \in DOMAIN lines PROVE Accepted(lines[i])
  <2>1. lines[i] \in Lines
    OBVIOUS
  <2> QED BY <2>1, LegalAccepted
<1> QED BY <1>1, AcceptedBlock

LEMMA ReadSessions ==
  ASSUME Sessions, Read PROVE Sessions'
<1>1. /\ phase = "start" /\ session <= MaxSessions
      /\ setup' = setup /\ user' = user /\ file' = file /\ session' = session
      /\ t0s' = t0s /\ addT0s' = addT0s /\ good' = good /\ fitTime' = fitTime /\ bins' = bins
      /\ phase' \in {"t0", "refused"}
      /\ phase' = "t0" => /\ Legal(file, setup.single, setup.addRuns)
                          /\ run' = ReadBlock(file.run) /\ global' = ReadBlock(file.global)
  BY DEF Read
<1>2. UsersRun' = UsersRun /\ UsersGlobal' = UsersGlobal
  BY <1>1, UsersSame
<1>3. FilesTyped'
  BY <1>1 DEF Sessions, FilesTyped
<1>4. SessionsTyped'
  BY <1>1 DEF Sessions, SessionsTyped, Busy
<1>5. BinsTyped'
  BY <1>1 DEF Sessions, BinsTyped
<1>6. T0sTyped'
  BY <1>1 DEF T0sTyped, Prepared
<1>7. ASSUME phase' = "t0"
      PROVE  /\ run' \in Block /\ Known(run') /\ global' \in Block /\ Known(global')
             /\ Writable(file.run, run') /\ AddT0sMatch(setup.addRuns, run')
             /\ session = 1 => Known(UsersRun) /\ Known(UsersGlobal)
  <2>1. PICK r, g : r = file.run /\ g = file.global /\ r \in Seq(Lines) /\ g \in Seq(Lines)
    BY DEF Sessions, FilesTyped
  <2>2. /\ \A i \in DOMAIN r : LegalLine(r[i])
        /\ \A i \in DOMAIN g : LegalGlobalLine(g[i])
        /\ AddT0sMatch(setup.addRuns, ReadBlock(r))
    BY <1>1, <1>7, <2>1 DEF Legal
  <2>3. ReadBlock(r) \in Block /\ Known(ReadBlock(r))
    BY <2>1, <2>2, ReadFile
  <2>4. ReadBlock(g) \in Block /\ Known(ReadBlock(g))
    BY <2>1, <2>2, ReadFile
  <2>5. Writable(r, ReadBlock(r))
    <3>1. Len(ReadBlock(r).addT0) = AddT0LinesBefore(r, Len(r) + 1)
      BY <2>1, AddT0sCounted
    <3>2. Len(ReadBlock(r).addT0) \in Nat
      BY <2>3, BlockIs
    <3> QED BY <2>3, <3>1, <3>2 DEF Writable
  <2>6. session = 1 => UsersRun = ReadBlock(r) /\ UsersGlobal = ReadBlock(g)
    BY <1>1, <2>1 DEF Sessions, UsersFile, UsersRun, UsersGlobal
  <2> QED BY <1>1, <1>7, <2>1, <2>2, <2>3, <2>4, <2>5, <2>6
<1>8. UsersFile'
  <2>1. session = 1 \/ session > 1
    BY DEF Sessions, SessionsTyped
  <2>2. phase' = "t0" => Known(UsersRun) /\ Known(UsersGlobal)
    BY <1>1, <1>7, <2>1 DEF Sessions, UsersFile
  <2>3. session > 1 => Known(UsersRun) /\ Known(UsersGlobal)
    BY DEF Sessions, UsersFile
  <2>4. ReadBlock(file.global).t0 = UsersGlobal.t0
    BY DEF Sessions, UsersFile
  <2> QED BY <1>1, <1>2, <2>2, <2>3, <2>4 DEF UsersFile, Busy
<1>9. BlocksTyped'
  <2>1. ReadBlock(file.global).t0 = UsersGlobal.t0
    BY DEF Sessions, UsersFile
  <2> QED BY <1>1, <1>2, <1>7, <2>1 DEF BlocksTyped, Busy
<1>10. ReadBefore'
  BY <1>1, <1>7 DEF ReadBefore
<1> QED BY <1>3, <1>4, <1>5, <1>6, <1>8, <1>9, <1>10 DEF Sessions

LEMMA GetProperT0Sessions ==
  ASSUME Sessions, GetProperT0 PROVE Sessions'
<1>1. /\ phase = "t0" /\ phase' \in {"data", "background", "failed"}
      /\ setup' = setup /\ user' = user /\ file' = file /\ global' = global
      /\ session' = session /\ good' = good /\ fitTime' = fitTime /\ bins' = bins
      /\ run' = WithAddT0s(WithT0s(run))
      /\ t0s' = [d \in Detectors |-> T0(d)]
      /\ addT0s' = [k \in 1..setup.addRuns |-> [d \in Detectors |-> AddT0Of(WithT0s(run), k, d)]]
      /\ phase' # "failed" => \A d \in Detectors : InHistogram(t0s'[d])
  BY DEF GetProperT0
<1>2. setup \in Setups /\ run \in Block /\ global \in Block /\ Writable(file.run, run)
      /\ global.t0 = UsersGlobal.t0
  BY <1>1 DEF Sessions, FilesTyped, BlocksTyped, Busy
<1>3. FilesTyped' /\ SessionsTyped' /\ UsersFile'
  <2>1. phase \in Busy /\ phase' \in Busy
    BY <1>1 DEF Busy
  <2> QED BY <1>1, <2>1, FilesSame
<1>4. PICK b, c : b = WithT0s(run) /\ c = run'
  OBVIOUS
<1>5. b \in Block /\ b.addT0 = run.addT0
  BY <1>2, <1>4, T0sSet
<1>6. c \in Block /\ Len(c.addT0) >= Len(b.addT0)
  BY <1>1, <1>2, <1>4, <1>5, AddT0sLonger
<1>7. Writable(file.run, c)
  <2>1. AddT0LinesBefore(file.run, Len(file.run) + 1) <= Len(b.addT0)
    BY <1>2, <1>5 DEF Writable
  <2>2. Len(b.addT0) \in Nat /\ Len(c.addT0) \in Nat
    BY <1>5, <1>6, BlockIs
  <2>3. AddT0LinesBefore(file.run, Len(file.run) + 1) \in Nat
    <3>1. Len(file.run) \in Nat
      BY DEF Sessions, FilesTyped
    <3>2. Len(file.run) + 1 \in Nat \ {0}
      BY <3>1
    <3> QED BY <3>2, CountUp
  <2> QED BY <1>6, <2>1, <2>2, <2>3 DEF Writable
<1>8. BlocksTyped'
  <2>1. UsersGlobal' = UsersGlobal
    BY <1>1, UsersSame
  <2> QED BY <1>1, <1>2, <1>4, <1>6, <1>7, <2>1 DEF BlocksTyped
<1>9. ReadBefore'
  BY <1>1 DEF ReadBefore
<1>10. BinsTyped'
  BY <1>1 DEF Sessions, BinsTyped
<1>11. T0sTyped'
  <2>1. PICK n \in Nat \ {0}, r \in Nat : n = setup.detectors /\ Detectors = 1..n /\ r = setup.addRuns
    BY <1>2, SetupIs
  <2>2. Detectors' = 1..n
    BY <1>1, <2>1, UsersSame
  <2>3. ASSUME NEW d \in 1..n PROVE T0(d) \in Int
    <3>1. run.t0 \in Seq(Int) /\ global.t0 \in Seq(Int)
      BY <1>2, BlockIs
    <3> QED BY <1>2, <2>1, <3>1, T0Is
  <2>4. t0s' \in [1..n -> Int]
    BY <1>1, <2>1, <2>3
  <2>5. phase' # "failed" => t0s' \in [1..n -> Bin]
    <3>1. ASSUME phase' # "failed", NEW d \in 1..n PROVE t0s'[d] \in Bin
      <4>1. t0s'[d] >= 0 /\ t0s'[d] <= Size
        BY <1>1, <2>1, <3>1 DEF InHistogram
      <4>2. t0s'[d] \in Int
        BY <2>4
      <4> QED BY <4>1, <4>2, BinsAssumption DEF Bin
    <3> QED BY <2>4, <3>1
  <2>6. ASSUME NEW k \in 1..r, NEW d \in 1..n PROVE AddT0Of(b, k, d) \in Int
    <3>1. GetAddT0(b, k, d) \in Int
      <4>1. CASE k \in DOMAIN b.addT0
        <5>1. PICK a : a = b.addT0 /\ a \in Seq(Seq(Int))
          BY <1>5, BlockIs
        <5>2. a[k] \in Seq(Int)
          BY <4>1, <5>1
        <5>3. GetAt(a[k], d) \in Int
          BY <5>2, GetAtIs
        <5> QED BY <4>1, <5>1, <5>3 DEF GetAddT0
      <4>2. CASE k \notin DOMAIN b.addT0
        BY <4>2 DEF GetAddT0, None
      <4> QED BY <4>1, <4>2
    <3>2. FromData(k, d) \in Int
      <4>1. k \in 0..setup.addRuns /\ d \in Detectors
        BY <2>1
      <4>2. FromData(k, d) \in 0..Size
        BY <1>2, <4>1, SetupIs
      <4> QED BY <4>2, BinsAssumption
    <3> QED BY <3>1, <3>2 DEF AddT0Of, AddT0FromMsr, None
  <2>7. addT0s' = [k \in 1..r |-> [d \in 1..n |-> AddT0Of(b, k, d)]]
    BY <1>1, <1>4, <2>1
  <2>8. DOMAIN addT0s' = 1..r /\ \A k \in 1..r : addT0s'[k] \in [1..n -> Int]
    BY <2>6, <2>7
  <2>9. Len(addT0s') = r
    BY <2>1, <2>7
  <2>10. setup'.addRuns = r
    BY <1>1, <2>1
  <2> QED BY <2>2, <2>4, <2>5, <2>8, <2>9, <2>10 DEF T0sTyped, Bin
<1> QED BY <1>3, <1>8, <1>9, <1>10, <1>11 DEF Sessions

(* What a step that sets no t0's has of them. *)
LEMMA T0sSame ==
  ASSUME Sessions, setup' = setup, user' = user, t0s' = t0s, addT0s' = addT0s,
         phase \in Prepared, phase' \in Prepared, phase = "failed" => phase' = "failed"
  PROVE  T0sTyped' /\ ReadBefore'
<1>1. Detectors' = Detectors
  BY UsersSame
<1>2. T0sTyped'
  BY <1>1 DEF Sessions, T0sTyped, Bin
<1>3. ReadBefore'
  BY DEF ReadBefore, Prepared
<1> QED BY <1>2, <1>3

LEMMA BlocksSame ==
  ASSUME Sessions, setup' = setup, user' = user, file' = file, global' = global, phase \in Busy,
         run' \in Block, run'.addT0 = run.addT0
  PROVE  BlocksTyped'
<1>1. UsersGlobal' = UsersGlobal
  BY UsersSame
<1>2. global \in Block /\ Writable(file.run, run) /\ global.t0 = UsersGlobal.t0
  BY DEF Sessions, BlocksTyped
<1>3. Writable(file.run, run')
  BY <1>2 DEF Writable
<1> QED BY <1>1, <1>2, <1>3 DEF BlocksTyped

LEMMA EstimateBkgSessions ==
  ASSUME Sessions, EstimateBkg PROVE Sessions' /\ run'.t0 = run.t0 /\ run'.addT0 = run.addT0
<1>1. /\ phase = "background" /\ phase' \in {"bins", "data", "failed"}
      /\ setup' = setup /\ user' = user /\ file' = file /\ global' = global
      /\ t0s' = t0s /\ addT0s' = addT0s /\ good' = good /\ fitTime' = fitTime
      /\ bins' = bins /\ session' = session
      /\ run' = run \/ run' = WithBkg(run)
  BY DEF EstimateBkg
<1>2. /\ phase \in Busy /\ phase' \in Busy /\ phase \in Prepared /\ phase' \in Prepared
      /\ phase # "failed"
  BY <1>1 DEF Busy, Prepared
<1>3. setup \in Setups /\ run \in Block /\ t0s \in [Detectors -> Int]
  BY <1>2 DEF Sessions, FilesTyped, BlocksTyped, T0sTyped
<1>4. run' \in Block /\ run'.t0 = run.t0 /\ run'.addT0 = run.addT0
  <2>1. CASE run' = run
    BY <1>3, <2>1
  <2>2. CASE run' = WithBkg(run)
    BY <1>3, <2>2, WithBkgIs
  <2> QED BY <1>1, <2>1, <2>2
<1>5. FilesTyped' /\ SessionsTyped' /\ UsersFile'
  BY <1>1, <1>2, FilesSame
<1>6. BlocksTyped'
  BY <1>1, <1>2, <1>4, BlocksSame
<1>7. T0sTyped' /\ ReadBefore'
  BY <1>1, <1>2, T0sSame
<1>8. BinsTyped'
  BY <1>1 DEF Sessions, BinsTyped
<1> QED BY <1>4, <1>5, <1>6, <1>7, <1>8 DEF Sessions

LEMMA DataRangeSessions ==
  ASSUME Sessions, GetProperDataRange PROVE Sessions' /\ run'.t0 = run.t0 /\ run'.addT0 = run.addT0
<1>1. /\ phase = "data" /\ phase' \in {"range", "failed"}
      /\ setup' = setup /\ user' = user /\ file' = file /\ global' = global
      /\ t0s' = t0s /\ addT0s' = addT0s /\ fitTime' = fitTime
      /\ bins' = bins /\ session' = session
      /\ run' = WithData(run) /\ good' \in {good, GoodBins}
  BY DEF GetProperDataRange
<1>2. /\ phase \in Busy /\ phase' \in Busy /\ phase \in Prepared /\ phase' \in Prepared
      /\ phase # "failed"
  BY <1>1 DEF Busy, Prepared
<1>3. setup \in Setups /\ run \in Block /\ global \in Block /\ t0s \in [Detectors -> Int]
  BY <1>2 DEF Sessions, FilesTyped, BlocksTyped, T0sTyped
<1>4. run' \in Block /\ run'.t0 = run.t0 /\ run'.addT0 = run.addT0
  BY <1>1, <1>3, WithDataIs
<1>5. FilesTyped' /\ SessionsTyped' /\ UsersFile'
  BY <1>1, <1>2, FilesSame
<1>6. BlocksTyped'
  BY <1>1, <1>2, <1>4, BlocksSame
<1>7. T0sTyped' /\ ReadBefore'
  BY <1>1, <1>2, T0sSame
<1>8. good \in [1..4 -> Int] /\ GoodBins \in [1..4 -> Int]
  BY <1>3, GoodBinsIs DEF Sessions, BinsTyped
<1>9. BinsTyped'
  BY <1>1, <1>8 DEF Sessions, BinsTyped
<1> QED BY <1>4, <1>5, <1>6, <1>7, <1>9 DEF Sessions

LEMMA FitRangeSessions ==
  ASSUME Sessions, GetProperFitRange PROVE Sessions' /\ run' = run
<1>1. /\ phase = "range" /\ phase' \in {"background", "bins"}
      /\ setup' = setup /\ user' = user /\ file' = file /\ global' = global /\ run' = run
      /\ t0s' = t0s /\ addT0s' = addT0s /\ good' = good
      /\ bins' = bins /\ session' = session
      /\ fitTime' \in {InBinsOf(0, 0), ProperFitRange}
  BY DEF GetProperFitRange
<1>2. /\ phase \in Busy /\ phase' \in Busy /\ phase \in Prepared /\ phase' \in Prepared
      /\ phase # "failed"
  BY <1>1 DEF Busy, Prepared
<1>3. /\ setup \in Setups /\ run \in Block /\ global \in Block /\ t0s \in [Detectors -> Int]
      /\ good \in [1..4 -> Int]
  BY <1>2 DEF Sessions, FilesTyped, BlocksTyped, T0sTyped, BinsTyped
<1>4. FilesTyped' /\ SessionsTyped' /\ UsersFile'
  BY <1>1, <1>2, FilesSame
<1>5. BlocksTyped'
  BY <1>1, <1>2, <1>3, BlocksSame
<1>6. T0sTyped' /\ ReadBefore'
  BY <1>1, <1>2, T0sSame
<1>7. InBinsOf(0, 0) \in [1..2 -> Int] /\ ProperFitRange \in [1..2 -> Int]
  <2>1. InBinsOf(0, 0) \in [1..2 -> Int]
    <3>1. 0 \in Int
      OBVIOUS
    <3> QED BY <1>3, <3>1, FitRangeIs
  <2>2. ProperFitRange \in [1..2 -> Int]
    BY <1>3, ProperFitRangeIs
  <2> QED BY <2>1, <2>2
<1>8. BinsTyped'
  BY <1>1, <1>7 DEF Sessions, BinsTyped
<1> QED BY <1>1, <1>4, <1>5, <1>6, <1>8 DEF Sessions

LEMMA FitDataSessions ==
  ASSUME Sessions, PrepareFitData \/ CalcNoOfFitBins PROVE Sessions' /\ run' = run
<1>1. /\ phase \in {"bins", "commanded"} /\ phase' = "done"
      /\ setup' = setup /\ user' = user /\ file' = file /\ global' = global /\ run' = run
      /\ t0s' = t0s /\ addT0s' = addT0s /\ good' = good /\ fitTime' = fitTime /\ session' = session
      /\ \/ bins' = NoOfFitBins(MinOf({NoOfData(side) : side \in Sides}))
         \/ bins' = NoOfFitBins(bins[3])
  BY DEF PrepareFitData, CalcNoOfFitBins
<1>2. /\ phase \in Busy /\ phase' \in Busy /\ phase \in Prepared /\ phase' \in Prepared
      /\ phase # "failed"
  BY <1>1 DEF Busy, Prepared
<1>3. /\ setup \in Setups /\ run \in Block /\ t0s \in [Detectors -> Int]
      /\ good \in [1..4 -> Int] /\ fitTime \in [1..2 -> Int] /\ bins[3] \in Int
  BY <1>2 DEF Sessions, FilesTyped, BlocksTyped, T0sTyped, BinsTyped
<1>4. FilesTyped' /\ SessionsTyped' /\ UsersFile'
  BY <1>1, <1>2, FilesSame
<1>5. BlocksTyped'
  BY <1>1, <1>2, <1>3, BlocksSame
<1>6. T0sTyped' /\ ReadBefore'
  BY <1>1, <1>2, T0sSame
<1>7. PICK n \in Int : bins' = NoOfFitBins(n)
  BY <1>1, <1>3, NoOfDataIs
<1>8. bins' \in [1..3 -> Int] /\ bins'[3] = n
  BY <1>3, <1>7, NoOfFitBinsIs
<1>9. bins' = NoOfFitBins(bins[3])'
  <2>1. NoOfFitBins(n)' = NoOfFitBins(n)
    BY <1>1 DEF NoOfFitBins, Time2
  <2> QED BY <1>7, <1>8, <2>1 DEF NoOfFitBins
<1>10. BinsTyped'
  BY <1>1, <1>3, <1>8, <1>9 DEF Sessions, BinsTyped
<1> QED BY <1>1, <1>4, <1>5, <1>6, <1>10 DEF Sessions

LEMMA CommandSessions ==
  ASSUME Sessions, FitRangeBin PROVE Sessions' /\ run' = run
<1>1. PICK n0 \in Offsets, n1 \in Offsets : fitTime' = Commanded(n0, n1)
  BY DEF FitRangeBin
<1>2. /\ phase = "done" /\ phase' = "commanded"
      /\ setup' = setup /\ user' = user /\ file' = file /\ global' = global /\ run' = run
      /\ t0s' = t0s /\ addT0s' = addT0s /\ good' = good /\ bins' = bins /\ session' = session
  BY DEF FitRangeBin
<1>3. /\ phase \in Busy /\ phase' \in Busy /\ phase \in Prepared /\ phase' \in Prepared
      /\ phase # "failed"
  BY <1>2 DEF Busy, Prepared
<1>4. setup \in Setups /\ run \in Block /\ t0s \in [Detectors -> Int] /\ good \in [1..4 -> Int]
  BY <1>3 DEF Sessions, FilesTyped, BlocksTyped, T0sTyped, BinsTyped
<1>5. FilesTyped' /\ SessionsTyped' /\ UsersFile'
  BY <1>2, <1>3, FilesSame
<1>6. BlocksTyped'
  BY <1>2, <1>3, <1>4, BlocksSame
<1>7. T0sTyped' /\ ReadBefore'
  BY <1>2, <1>3, T0sSame
<1>8. fitTime' \in [1..2 -> Int]
  <2>1. n0 \in Int /\ n1 \in Int
    BY BinsAssumption
  <2>2. PICK x \in Int, y \in Int : Commanded(n0, n1) = InBinsOf(x, y)
    BY <2>1 DEF Commanded
  <2> QED BY <1>1, <1>4, <2>2, FitRangeIs
<1>9. BinsTyped'
  BY <1>2, <1>8 DEF Sessions, BinsTyped
<1> QED BY <1>2, <1>5, <1>6, <1>7, <1>9 DEF Sessions

LEMMA WriteSessions ==
  ASSUME Sessions, WriteMsrLogFile PROVE Sessions'
<1>1. /\ phase = "done" /\ phase' = "start" /\ session' = session + 1
      /\ setup' = setup /\ user' = user
      /\ file' = [global |-> WriteGlobal(file.global, global),
                  run |-> WriteRun(file.run, run, setup.isis)]
      /\ good' = NoRange /\ fitTime' = <<Undefined, Undefined>> /\ bins' = <<0, 0, 0>>
  BY DEF WriteMsrLogFile, Forgotten
<1>2. phase \in Busy
  BY <1>1 DEF Busy
<1>3. /\ setup \in Setups /\ file.run \in Seq(Lines) /\ file.global \in Seq(Lines)
      /\ Writable(file.run, run) /\ global \in Block
  BY <1>2 DEF Sessions, FilesTyped, BlocksTyped
<1>4. setup.isis \in BOOLEAN
  BY <1>3, SetupIs
<1>5. PICK g, r : g = WriteGlobal(file.global, global) /\ r = WriteRun(file.run, run, setup.isis)
  OBVIOUS
<1>6. r \in Seq(Lines)
  BY <1>3, <1>4, <1>5, WrittenT0s
<1>7. g \in Seq(Lines) /\ ReadBlock(g).t0 = ReadBlock(file.global).t0
  BY <1>3, <1>5, WrittenGlobal
<1>8. file'.run = r /\ file'.global = g
  BY <1>1, <1>5
<1>9. FilesTyped'
  BY <1>1, <1>6, <1>7, <1>8 DEF Sessions, FilesTyped
<1>10. SessionsTyped'
  BY <1>1, BinsAssumption DEF Sessions, SessionsTyped, Busy
<1>11. UsersFile'
  <2>1. UsersRun' = UsersRun /\ UsersGlobal' = UsersGlobal
    BY <1>1, UsersSame
  <2>2. session' # 1
    BY <1>1 DEF Sessions, SessionsTyped
  <2>3. Known(UsersRun) /\ Known(UsersGlobal) /\ ReadBlock(file.global).t0 = UsersGlobal.t0
    BY <1>2 DEF Sessions, UsersFile
  <2> QED BY <1>7, <1>8, <2>1, <2>2, <2>3 DEF UsersFile
<1>12. BlocksTyped' /\ ReadBefore' /\ T0sTyped'
  BY <1>1 DEF BlocksTyped, ReadBefore, T0sTyped, Busy, Prepared
<1>13. BinsTyped'
  <2>1. NoRange \in [1..4 -> Int] /\ <<Undefined, Undefined>> \in [1..2 -> Int] /\ <<0, 0, 0>> \in [1..3 -> Int]
    BY DEF NoRange, None, Undefined
  <2> QED BY <1>1, <2>1 DEF BinsTyped
<1> QED BY <1>9, <1>10, <1>11, <1>12, <1>13 DEF Sessions

LEMMA SessionsStep ==
  Sessions /\ [Next]_vars => Sessions'
<1> SUFFICES ASSUME Sessions, [Next]_vars PROVE Sessions'
  OBVIOUS
<1>1. CASE Read
  BY <1>1, ReadSessions
<1>2. CASE GetProperT0
  BY <1>2, GetProperT0Sessions
<1>3. CASE EstimateBkg
  BY <1>3, EstimateBkgSessions
<1>4. CASE GetProperDataRange
  BY <1>4, DataRangeSessions
<1>5. CASE GetProperFitRange
  BY <1>5, FitRangeSessions
<1>6. CASE PrepareFitData \/ CalcNoOfFitBins
  BY <1>6, FitDataSessions
<1>7. CASE FitRangeBin
  BY <1>7, CommandSessions
<1>8. CASE WriteMsrLogFile
  BY <1>8, WriteSessions
<1>9. CASE UNCHANGED vars
  <2>1. FilesTyped' /\ SessionsTyped' /\ ReadBefore'
    BY <1>9 DEF vars, Sessions, FilesTyped, SessionsTyped, ReadBefore
  <2>2. UsersRun' = UsersRun /\ UsersGlobal' = UsersGlobal /\ Detectors' = Detectors
    BY <1>9, UsersSame DEF vars
  <2>3. UsersFile' /\ BlocksTyped' /\ T0sTyped'
    BY <1>9, <2>2 DEF vars, Sessions, UsersFile, BlocksTyped, T0sTyped, Bin
  <2>4. BinsTyped'
    BY <1>9 DEF vars, Sessions, BinsTyped, NoOfFitBins, Time2
  <2> QED BY <2>1, <2>3, <2>4 DEF Sessions
<1> QED BY <1>1, <1>2, <1>3, <1>4, <1>5, <1>6, <1>7, <1>8, <1>9 DEF Next, Prepare, Terminated

-----------------------------------------------------------------------------
(* What holds if the user's t0's are complete: the file has, in every      *)
(* session, the t0's that are meant or leaves them to the data file, and   *)
(* what GetProperT0 has found is what is meant.                            *)

RunAsMeant ==
  phase \in Prepared =>
    /\ T0sMeant(run) /\ AddT0sMeant(run) /\ NoEmpty(run.addT0) /\ Len(run.addT0) >= setup.addRuns
    /\ \A d \in Detectors : t0s[d] = MeantT0(0, d)
    /\ \A k \in 1..setup.addRuns, d \in Detectors : addT0s[k][d] = MeantT0(k, d)

FileAsMeant ==
  Known(UsersRun) /\ Known(UsersGlobal) =>
    T0sMeant(ReadBlock(file.run)) /\ AddT0sMeant(ReadBlock(file.run))

AsMeant == Complete => RunAsMeant /\ FileAsMeant

LEMMA MeantSame ==
  ASSUME setup' = setup, user' = user
  PROVE  \A b : (T0sMeant(b)' <=> T0sMeant(b)) /\ (AddT0sMeant(b)' <=> AddT0sMeant(b))
<1>1. UsersRun' = UsersRun /\ Detectors' = Detectors /\ \A r, d : MeantT0(r, d)' = MeantT0(r, d)
  BY UsersSame
<1> QED BY <1>1 DEF T0sMeant, AddT0sMeant

LEMMA RunMeant ==
  ASSUME setup' = setup, user' = user, NEW c, c = run', T0sMeant(c), AddT0sMeant(c)
  PROVE  T0sMeant(run)' /\ AddT0sMeant(run)'
<1>1. UsersRun' = UsersRun /\ Detectors' = Detectors /\ \A r, d : MeantT0(r, d)' = MeantT0(r, d)
  BY UsersSame
<1> QED BY <1>1 DEF T0sMeant, AddT0sMeant

LEMMA FileMeant ==
  ASSUME setup' = setup, user' = user, NEW c, c = ReadBlock(file'.run), T0sMeant(c), AddT0sMeant(c)
  PROVE  FileAsMeant'
<1>1. UsersRun' = UsersRun /\ Detectors' = Detectors /\ \A r, d : MeantT0(r, d)' = MeantT0(r, d)
  BY UsersSame
<1>2. T0sMeant(ReadBlock(file.run))' /\ AddT0sMeant(ReadBlock(file.run))'
  BY <1>1 DEF T0sMeant, AddT0sMeant
<1> QED BY <1>2 DEF FileAsMeant

LEMMA FileKeepsMeaning ==
  ASSUME setup' = setup, user' = user, file' = file, FileAsMeant
  PROVE  FileAsMeant'
<1>1. UsersRun' = UsersRun /\ UsersGlobal' = UsersGlobal
  BY UsersSame
<1>2. PICK c : c = ReadBlock(file'.run)
  OBVIOUS
<1>3. ASSUME Known(UsersRun), Known(UsersGlobal) PROVE FileAsMeant'
  <2>1. T0sMeant(c) /\ AddT0sMeant(c)
    BY <1>2, <1>3 DEF FileAsMeant
  <2> QED BY <1>2, <2>1, FileMeant
<1> QED BY <1>1, <1>3 DEF FileAsMeant

LEMMA UsersBlocks ==
  ASSUME Sessions, Complete, Known(UsersRun), Known(UsersGlobal)
  PROVE  FromUser
<1>1. PICK r, g : r = user.run /\ g = user.global /\ r \in Seq(Lines) /\ g \in Seq(Lines)
  BY DEF Sessions, FilesTyped
<1>2. UsersRun \in Blocks(r) /\ UsersGlobal \in Blocks(g)
  BY <1>1, ReadBlockIs DEF UsersRun, UsersGlobal
<1>3. PICK T, A : T = Seq(Int) /\ A = Seq(T)
  OBVIOUS
<1>4. UsersRun.t0 \in T /\ UsersRun.addT0 \in A /\ UsersGlobal.t0 \in T
  BY <1>2, <1>3 DEF Blocks
<1> QED BY <1>3, <1>4 DEF FromUser, Sessions, FilesTyped

LEMMA AsMeantInit ==
  Init /\ Sessions => AsMeant
<1> SUFFICES ASSUME Init, Sessions, Complete PROVE RunAsMeant /\ FileAsMeant
  BY DEF AsMeant
<1>1. phase = "start" /\ file = user
  BY DEF Init
<1>2. RunAsMeant
  BY <1>1 DEF RunAsMeant, Prepared
<1>3. ASSUME Known(UsersRun), Known(UsersGlobal)
      PROVE  T0sMeant(ReadBlock(file.run)) /\ AddT0sMeant(ReadBlock(file.run))
  <2>1. T0sMeant(UsersRun) /\ AddT0sMeant(UsersRun)
    BY <1>3, UsersBlocks, UsersMeant
  <2> QED BY <1>1, <2>1 DEF UsersRun
<1> QED BY <1>2, <1>3 DEF FileAsMeant

LEMMA GetProperT0AsMeant ==
  ASSUME Sessions, AsMeant, Complete, GetProperT0
  PROVE  RunAsMeant'
<1>1. /\ phase = "t0" /\ phase' \in {"data", "background", "failed"}
      /\ setup' = setup /\ user' = user
      /\ run' = WithAddT0s(WithT0s(run))
      /\ t0s' = [d \in Detectors |-> T0(d)]
      /\ addT0s' = [k \in 1..setup.addRuns |-> [d \in Detectors |-> AddT0Of(WithT0s(run), k, d)]]
  BY DEF GetProperT0
<1>2. /\ setup \in Setups /\ run \in Block /\ global \in Block
      /\ global.t0 = UsersGlobal.t0 /\ Known(run) /\ AddT0sMatch(setup.addRuns, run)
      /\ run = ReadBlock(file.run) /\ Known(UsersRun) /\ Known(UsersGlobal)
  BY <1>1 DEF Sessions, FilesTyped, BlocksTyped, ReadBefore, UsersFile, Busy
<1>3. FromUser
  BY <1>2, UsersBlocks
<1>4. T0sMeant(run) /\ AddT0sMeant(run)
  BY <1>2 DEF AsMeant, FileAsMeant
<1>5. PICK b, c : b = WithT0s(run) /\ c = run'
  OBVIOUS
<1>6. (\A d \in Detectors : T0(d) = MeantT0(0, d)) /\ T0sMeant(b)
  BY <1>2, <1>3, <1>4, <1>5, MeantT0s
<1>7. b \in Block /\ b.addT0 = run.addT0
  BY <1>2, <1>5, T0sSet
<1>8. /\ NoEmpty(b.addT0) /\ AddT0sMatch(setup.addRuns, b) /\ AddT0sMeant(b)
      /\ \A k \in 1..Len(b.addT0) : \A d \in 1..Len(b.addT0[k]) : b.addT0[k][d] >= 0
  <2>1. NoEmpty(run.addT0) /\ \A k \in 1..Len(run.addT0) : \A d \in 1..Len(run.addT0[k]) : run.addT0[k][d] >= 0
    BY <1>2 DEF Known
  <2>2. AddT0sMatch(setup.addRuns, b)
    BY <1>2, <1>7 DEF AddT0sMatch
  <2>3. AddT0sMeant(b)
    BY <1>4, <1>7 DEF AddT0sMeant
  <2> QED BY <1>7, <2>1, <2>2, <2>3
<1>9. c = WithAddT0s(b)
  BY <1>1, <1>5
<1>10. AddT0sMeant(c) /\ NoEmpty(c.addT0) /\ Len(c.addT0) >= setup.addRuns
  BY <1>3, <1>6, <1>7, <1>8, <1>9, AddT0sSet
<1>11. T0sMeant(c)
  <2>1. c.t0 = b.t0
    BY <1>2, <1>7, <1>9, AddT0sLonger
  <2> QED BY <1>6, <2>1 DEF T0sMeant
<1>12. \A k \in 1..setup.addRuns, d \in Detectors : AddT0Of(b, k, d) = MeantT0(k, d)
  BY <1>3, <1>6, <1>7, <1>8, MeantAddT0s
<1>13. Detectors' = Detectors /\ \A r, d : MeantT0(r, d)' = MeantT0(r, d)
  BY <1>1, UsersSame
<1>14. T0sMeant(run)' /\ AddT0sMeant(run)'
  BY <1>1, <1>5, <1>10, <1>11, RunMeant
<1>15. \A d \in Detectors : t0s'[d] = MeantT0(0, d)
  BY <1>1, <1>6
<1>16. \A k \in 1..setup.addRuns, d \in Detectors : addT0s'[k][d] = MeantT0(k, d)
  BY <1>1, <1>5, <1>12
<1>17. NoEmpty(run'.addT0) /\ Len(run'.addT0) >= setup'.addRuns
  BY <1>1, <1>5, <1>10
<1>18. /\ \A d \in Detectors' : t0s'[d] = MeantT0(0, d)'
       /\ \A k \in 1..setup'.addRuns, d \in Detectors' : addT0s'[k][d] = MeantT0(k, d)'
  BY <1>1, <1>13, <1>15, <1>16
<1> QED BY <1>14, <1>17, <1>18 DEF RunAsMeant

(* A step that leaves the t0's as they are. *)
LEMMA T0sKeepMeaning ==
  ASSUME setup' = setup, user' = user, t0s' = t0s, addT0s' = addT0s,
         run'.t0 = run.t0, run'.addT0 = run.addT0, phase \in Prepared, RunAsMeant
  PROVE  RunAsMeant'
<1>1. PICK c : c = run'
  OBVIOUS
<1>2. T0sMeant(c) /\ AddT0sMeant(c)
  BY <1>1 DEF RunAsMeant, T0sMeant, AddT0sMeant
<1>3. T0sMeant(run)' /\ AddT0sMeant(run)'
  BY <1>1, <1>2, RunMeant
<1>4. Detectors' = Detectors /\ \A r, d : MeantT0(r, d)' = MeantT0(r, d)
  BY UsersSame
<1>5. /\ \A d \in Detectors' : t0s'[d] = MeantT0(0, d)'
      /\ \A k \in 1..setup'.addRuns, d \in Detectors' : addT0s'[k][d] = MeantT0(k, d)'
  BY <1>4 DEF RunAsMeant
<1>6. NoEmpty(run'.addT0) /\ Len(run'.addT0) >= setup'.addRuns
  BY DEF RunAsMeant
<1> QED BY <1>3, <1>5, <1>6 DEF RunAsMeant

LEMMA WriteAsMeant ==
  ASSUME Sessions, RunAsMeant, FileAsMeant, Complete, WriteMsrLogFile
  PROVE  FileAsMeant'
<1>1. /\ phase = "done" /\ setup' = setup /\ user' = user
      /\ file'.run = WriteRun(file.run, run, setup.isis)
  BY DEF WriteMsrLogFile
<1>2. phase \in Busy /\ phase \in Prepared
  BY <1>1 DEF Busy, Prepared
<1>3. Known(UsersRun) /\ Known(UsersGlobal) /\ file.run \in Seq(Lines) /\ Writable(file.run, run)
  BY <1>2 DEF Sessions, FilesTyped, BlocksTyped, UsersFile
<1>4. FromUser
  BY <1>3, UsersBlocks
<1>5. T0sMeant(ReadBlock(file.run)) /\ AddT0sMeant(ReadBlock(file.run))
  BY <1>3 DEF FileAsMeant
<1>6. T0sMeant(run) /\ AddT0sMeant(run) /\ NoEmpty(run.addT0) /\ Len(run.addT0) >= setup.addRuns
  BY <1>2 DEF RunAsMeant
<1>7. PICK w : w = WriteRun(file.run, run, setup.isis)
  OBVIOUS
<1>8. T0sMeant(ReadBlock(w)) /\ AddT0sMeant(ReadBlock(w))
  BY <1>3, <1>4, <1>5, <1>6, <1>7, WrittenMeant
<1>9. PICK c : c = ReadBlock(w)
  OBVIOUS
<1>10. c = ReadBlock(file'.run)
  BY <1>1, <1>7, <1>9
<1> QED BY <1>1, <1>8, <1>9, <1>10, FileMeant

LEMMA AsMeantStep ==
  Sessions /\ AsMeant /\ [Next]_vars => AsMeant'
<1> SUFFICES ASSUME Sessions, AsMeant, [Next]_vars, Complete'
             PROVE  RunAsMeant' /\ FileAsMeant'
  BY DEF AsMeant
<1>1. setup' = setup /\ user' = user
  BY DEF Next, Prepare, Read, GetProperT0, EstimateBkg, GetProperDataRange, GetProperFitRange,
         PrepareFitData, CalcNoOfFitBins, FitRangeBin, WriteMsrLogFile, Terminated, vars
<1>2. Complete
  BY <1>1, UsersSame
<1>3. RunAsMeant /\ FileAsMeant
  BY <1>2 DEF AsMeant
<1>4. CASE Read
  <2>1. phase' \notin Prepared /\ file' = file
    BY <1>4 DEF Read, Prepared
  <2>2. RunAsMeant'
    BY <2>1 DEF RunAsMeant, Prepared
  <2> QED BY <1>1, <1>3, <2>1, <2>2, FileKeepsMeaning
<1>5. CASE GetProperT0
  <2>1. file' = file
    BY <1>5 DEF GetProperT0
  <2> QED BY <1>1, <1>2, <1>3, <1>5, <2>1, GetProperT0AsMeant, FileKeepsMeaning
<1>6. CASE EstimateBkg \/ GetProperDataRange
  <2>1. run'.t0 = run.t0 /\ run'.addT0 = run.addT0
    BY <1>6, EstimateBkgSessions, DataRangeSessions
  <2>2. file' = file /\ t0s' = t0s /\ addT0s' = addT0s /\ phase \in Prepared
    BY <1>6 DEF EstimateBkg, GetProperDataRange, Prepared
  <2> QED BY <1>1, <1>3, <2>1, <2>2, T0sKeepMeaning, FileKeepsMeaning
<1>7. CASE GetProperFitRange \/ PrepareFitData \/ CalcNoOfFitBins \/ FitRangeBin
  <2>1. run' = run /\ file' = file /\ t0s' = t0s /\ addT0s' = addT0s /\ phase \in Prepared
    BY <1>7 DEF GetProperFitRange, PrepareFitData, CalcNoOfFitBins, FitRangeBin, Prepared
  <2> QED BY <1>1, <1>3, <2>1, T0sKeepMeaning, FileKeepsMeaning
<1>8. CASE WriteMsrLogFile
  <2>1. phase' \notin Prepared
    BY <1>8 DEF WriteMsrLogFile, Prepared
  <2>2. RunAsMeant'
    BY <2>1 DEF RunAsMeant, Prepared
  <2> QED BY <1>2, <1>3, <1>8, <2>2, WriteAsMeant
<1>9. CASE UNCHANGED vars
  <2>1. run' = run /\ file' = file /\ t0s' = t0s /\ addT0s' = addT0s /\ phase' = phase
    BY <1>9 DEF vars
  <2>2. RunAsMeant'
    <3>1. CASE phase \in Prepared
      BY <1>1, <1>3, <2>1, <3>1, T0sKeepMeaning
    <3>2. CASE phase \notin Prepared
      BY <2>1, <3>2 DEF RunAsMeant, Prepared
    <3> QED BY <3>1, <3>2
  <2> QED BY <1>1, <1>3, <2>1, <2>2, FileKeepsMeaning
<1> QED BY <1>4, <1>5, <1>6, <1>7, <1>8, <1>9 DEF Next, Prepare, Terminated

-----------------------------------------------------------------------------
(* In every session the files, the blocks and the bins are what Sessions   *)
(* says, and if the user's t0's are complete, the RUN block on disk and in *)
(* memory and the t0's of PRunSingleHisto and PRunAsymmetry are those that *)
(* are meant.                                                              *)
THEOREM SessionsInvariant == Spec => [](Sessions /\ AsMeant)
<1>1. Init => Sessions /\ AsMeant
  BY SessionsInit, AsMeantInit
<1>2. Sessions /\ AsMeant /\ [Next]_vars => (Sessions /\ AsMeant)'
  BY SessionsStep, AsMeantStep
<1> QED BY <1>1, <1>2, PTL DEF Spec

(* What is known when the fit begins has the kinds the code relies on: t0's *)
(* in the histogram, one for each detector and addrun, and a range of bins *)
(* within the data (GetProperT0, PrepareFitData, CalcNoOfFitBins).         *)
THEOREM BinsHaveKinds == Spec => []TypeOK
<1>1. Sessions => TypeOK
  <2> SUFFICES ASSUME Sessions PROVE TypeOK
    OBVIOUS
  <2>1. /\ phase \in {"start", "t0", "background", "data", "range", "bins", "done", "commanded",
                      "refused", "failed"}
        /\ session \in 1..(MaxSessions + 1)
    BY DEF Sessions, SessionsTyped, Busy
  <2>2. ASSUME phase \in {"data", "range", "bins", "done", "commanded"}
        PROVE  /\ t0s \in [Detectors -> Bin]
               /\ Len(addT0s) = setup.addRuns
               /\ \A k \in DOMAIN addT0s : DOMAIN addT0s[k] = Detectors
    BY <2>2 DEF Sessions, T0sTyped, Prepared
  <2>3. ASSUME phase = "done"
        PROVE  /\ good \in [1..4 -> Int] /\ fitTime \in [1..2 -> Int]
               /\ bins \in [1..3 -> Int] /\ bins[1] >= 0 /\ bins[2] <= bins[3]
    <3>1. /\ good \in [1..4 -> Int] /\ fitTime \in [1..2 -> Int] /\ bins \in [1..3 -> Int]
          /\ bins = NoOfFitBins(bins[3]) /\ setup \in Setups /\ t0s \in [Detectors -> Int]
      BY <2>3 DEF Sessions, FilesTyped, T0sTyped, BinsTyped, Prepared
    <3>2. PICK n, b : n = bins[3] /\ b = bins /\ n \in Int
      BY <3>1
    <3>3. b[1] >= 0 /\ b[2] <= b[3]
      BY <3>1, <3>2, NoOfFitBinsIs
    <3> QED BY <3>1, <3>2, <3>3
  <2> QED BY <2>1, <2>2, <2>3 DEF TypeOK
<1> QED BY <1>1, SessionsInvariant, PTL

(* Whatever t0's a user writes and leaves out, for whatever number of      *)
(* detectors, addruns and sessions: what PrepareData adds up in one bin    *)
(* was counted at the same time after t0.                                  *)
THEOREM T0sAlign == Spec => []EventsAligned
<1>1. Sessions /\ AsMeant => EventsAligned
  <2> SUFFICES ASSUME Sessions, AsMeant, phase = "bins", Complete,
                      NEW side \in Sides, NEW j \in 0..(Size - 1), NEW c \in SummedBin(side, j)
               PROVE  c.bin - MeantT0(c.run, c.det) = j - MeantT0(0, side)
    BY DEF EventsAligned
  <2>1. /\ setup \in Setups /\ t0s \in [Detectors -> Int]
        /\ \A k \in 1..setup.addRuns : addT0s[k] \in [Detectors -> Int]
        /\ \A d \in Detectors : t0s[d] = MeantT0(0, d)
        /\ \A k \in 1..setup.addRuns, d \in Detectors : addT0s[k][d] = MeantT0(k, d)
    BY DEF Sessions, FilesTyped, T0sTyped, AsMeant, RunAsMeant, Prepared
  <2>2. side \in Detectors
    BY <2>1, SetupIs
  <2>3. PICK d \in Detectors : c \in DetectorBin(d, Shifted(side, d, j))
    BY DEF SummedBin, GroupOf
  <2>4. PICK x \in Int, y \in Int : x = t0s[d] /\ y = t0s[side]
    BY <2>1, <2>2
  <2>5. PICK i \in Int : i = Shifted(side, d, j) /\ i = j + x - y
    BY <2>4, BinsAssumption DEF Shifted
  <2>6. CASE c = [run |-> 0, det |-> d, bin |-> i]
    <3>1. c.run = 0 /\ c.det = d /\ c.bin = i
      BY <2>6
    <3>2. MeantT0(0, d) = x /\ MeantT0(0, side) = y
      BY <2>1, <2>2, <2>4
    <3>3. i - x = j - y
      BY <2>5, BinsAssumption
    <3> QED BY <3>1, <3>2, <3>3
  <2>7. ASSUME NEW k \in 1..setup.addRuns, c = [run |-> k, det |-> d, bin |-> i + addT0s[k][d] - t0s[d]]
        PROVE  c.bin - MeantT0(c.run, c.det) = j - MeantT0(0, side)
    <3>1. PICK z \in Int : z = addT0s[k][d]
      BY <2>1
    <3>2. c.run = k /\ c.det = d /\ c.bin = i + z - x
      BY <2>4, <2>7, <3>1
    <3>3. MeantT0(k, d) = z /\ MeantT0(0, side) = y
      BY <2>1, <2>2, <2>4, <3>1
    <3>4. (i + z - x) - z = j - y
      BY <2>5, BinsAssumption
    <3> QED BY <3>2, <3>3, <3>4
  <2> QED BY <2>3, <2>5, <2>6, <2>7 DEF DetectorBin
<1> QED BY <1>1, SessionsInvariant, PTL

(* CalcNoOfFitBins rounds both ends of the fit range so that, for every    *)
(* packing, range and t0, the loop over the bins takes those and only      *)
(* those that lie in it.                                                   *)
THEOREM FitBinsInRange == Spec => []FitBinsAreInRange
<1>1. Sessions => FitBinsAreInRange
  <2> SUFFICES ASSUME Sessions, phase = "done", NEW i \in 0..(bins[3] - 1)
               PROVE  i \in bins[1]..(bins[2] - 1) <=> 2*fitTime[1] <= Time2(i) /\ Time2(i) <= 2*fitTime[2]
    BY DEF FitBinsAreInRange
  <2>1. /\ good \in [1..4 -> Int] /\ fitTime \in [1..2 -> Int] /\ bins \in [1..3 -> Int]
        /\ bins = NoOfFitBins(bins[3]) /\ setup \in Setups /\ t0s \in [Detectors -> Int]
    BY DEF Sessions, FilesTyped, T0sTyped, BinsTyped, Prepared
  <2>2. PICK n, b : n = bins[3] /\ b = bins /\ n \in Int
    BY <2>1
  <2>3. \A m \in 0..(n - 1) :
          m \in b[1]..(b[2] - 1) <=> 2*fitTime[1] <= Time2(m) /\ Time2(m) <= 2*fitTime[2]
    BY <2>1, <2>2, NoOfFitBinsIs
  <2> QED BY <2>2, <2>3
<1> QED BY <1>1, SessionsInvariant, PTL

(* SetFitRangeBin and HandleRunEntry read the same offsets into the same    *)
(* fit range, if both are there.                                           *)
THEOREM CommandMeansLine == Spec => []CommandAsLine
<1>1. CommandAsLine
  <2> SUFFICES ASSUME NEW n0 \in Offsets, NEW n1 \in Offsets \ {None}
               PROVE  Commanded(n0, n1) = FitRangeOf(ReadBlock(<<Line("fit fgb", <<n0, n1>>)>>))
    BY DEF CommandAsLine
  <2>1. PICK l : l = Line("fit fgb", <<n0, n1>>)
    OBVIOUS
  <2>2. n0 \in Int /\ n1 \in Int
    BY BinsAssumption
  <2>3. l.word = "fit fgb" /\ l.n = <<n0, n1>>
    BY <2>1 DEF Line
  <2>4. l \in Lines
    <3>1. <<n0, n1>> \in Seq(Int)
      BY <2>2
    <3> QED BY <2>1, <3>1 DEF Line, Lines, Words
  <2>5. ReadBlock(<<l>>) = ReadLine(NoBlock, l)
    BY <2>4, ReadOne
  <2>6. ReadLine(NoBlock, l) = [NoBlock EXCEPT !.inBins = TRUE, !.offset = ReadOffset(l.n)]
    BY <2>3 DEF ReadLine
  <2>7. PICK b : b = ReadBlock(<<l>>)
    OBVIOUS
  <2>8. b.inBins = TRUE /\ b.offset = ReadOffset(<<n0, n1>>)
    BY <2>3, <2>5, <2>6, <2>7 DEF NoBlock
  <2>9. b.offset[1] = (IF n0 = None \/ n1 = None THEN 0 ELSE n0) /\ b.offset[2] = n1
    BY <2>8 DEF ReadOffset
  <2>10. FitRangeOf(b) = InBinsOf(IF n0 = None THEN 0 ELSE n0, n1)
    BY <2>8, <2>9 DEF FitRangeOf
  <2>11. Commanded(n0, n1) = InBinsOf(IF n0 = None THEN 0 ELSE n0, n1)
    BY DEF Commanded
  <2> QED BY <2>1, <2>7, <2>10, <2>11
<1> QED BY <1>1, PTL
=============================================================================
