---------------------------- MODULE SessionsProofs ----------------------------
(***************************************************************************)
(* Theorems about what one session leaves to the next in the RUN block of  *)
(* the msr-file: about MusrT0, and that the sessions of RunBins agree.     *)
(***************************************************************************)
EXTENDS RunBinsProofs, MusrT0

-----------------------------------------------------------------------------
(* The lines of a file that stand there once.                              *)

HasAny(lines, words) == \E i \in DOMAIN lines : lines[i].word \in words

LEMMA HasConcat ==
  ASSUME NEW s \in Seq(Lines), NEW t \in Seq(Lines), NEW words
  PROVE  HasAny(s \o t, words) <=> HasAny(s, words) \/ HasAny(t, words)
<1>1. PICK m, n \in Nat : m = Len(s) /\ n = Len(t) /\ DOMAIN s = 1..m /\ DOMAIN t = 1..n
  OBVIOUS
<1>2. PICK u : u = s \o t
  OBVIOUS
<1>3. DOMAIN u = 1..(m + n) /\ (\A i \in 1..m : u[i] = s[i]) /\ (\A j \in 1..n : u[m + j] = t[j])
  BY <1>1, <1>2
<1>4. ASSUME NEW i \in 1..(m + n) PROVE i \in 1..m \/ (i - m \in 1..n /\ u[i] = t[i - m])
  <2>1. i \in 1..m \/ (i - m \in 1..n /\ m + (i - m) = i)
    OBVIOUS
  <2> QED BY <1>3, <2>1
<1>5. ASSUME NEW j \in 1..n PROVE m + j \in 1..(m + n)
  OBVIOUS
<1>6. \A i \in 1..m : i \in 1..(m + n)
  OBVIOUS
<1>7. ASSUME HasAny(u, words) PROVE HasAny(s, words) \/ HasAny(t, words)
  <2>1. PICK i \in 1..(m + n) : u[i].word \in words
    BY <1>3, <1>7 DEF HasAny
  <2> QED BY <1>1, <1>3, <1>4, <2>1 DEF HasAny
<1>8. ASSUME HasAny(s, words) PROVE HasAny(u, words)
  BY <1>1, <1>3, <1>6, <1>8 DEF HasAny
<1>9. ASSUME HasAny(t, words) PROVE HasAny(u, words)
  BY <1>1, <1>3, <1>5, <1>9 DEF HasAny
<1> QED BY <1>2, <1>7, <1>8, <1>9

LEMMA OnceConcat ==
  ASSUME NEW s \in Seq(Lines), NEW t \in Seq(Lines), NEW words,
         Once(s, words), Once(t, words), ~(HasAny(s, words) /\ HasAny(t, words))
  PROVE  Once(s \o t, words)
<1>1. PICK m, n \in Nat : m = Len(s) /\ n = Len(t) /\ DOMAIN s = 1..m /\ DOMAIN t = 1..n
  OBVIOUS
<1>2. PICK u : u = s \o t
  OBVIOUS
<1>3. DOMAIN u = 1..(m + n) /\ (\A i \in 1..m : u[i] = s[i]) /\ (\A j \in 1..n : u[m + j] = t[j])
  BY <1>1, <1>2
<1>4. ASSUME NEW i \in 1..(m + n)
      PROVE  (i \in 1..m /\ u[i] = s[i]) \/ (i - m \in 1..n /\ u[i] = t[i - m])
  <2>1. i \in 1..m \/ (i - m \in 1..n /\ m + (i - m) = i)
    OBVIOUS
  <2> QED BY <1>3, <2>1
<1>5. ASSUME NEW i \in 1..(m + n), NEW j \in 1..(m + n), u[i].word \in words, u[j].word \in words
      PROVE  i = j
  <2>1. CASE i \in 1..m /\ u[i] = s[i] /\ j \in 1..m /\ u[j] = s[j]
    BY <1>1, <1>5, <2>1 DEF Once
  <2>2. CASE i - m \in 1..n /\ u[i] = t[i - m] /\ j - m \in 1..n /\ u[j] = t[j - m]
    <3>1. i - m = j - m
      BY <1>1, <1>5, <2>2 DEF Once
    <3> QED BY <3>1
  <2>3. CASE i \in 1..m /\ u[i] = s[i] /\ j - m \in 1..n /\ u[j] = t[j - m]
    BY <1>1, <1>5, <2>3 DEF HasAny
  <2>4. CASE i - m \in 1..n /\ u[i] = t[i - m] /\ j \in 1..m /\ u[j] = s[j]
    BY <1>1, <1>5, <2>4 DEF HasAny
  <2> QED BY <1>4, <2>1, <2>2, <2>3, <2>4
<1> QED BY <1>2, <1>3, <1>5 DEF Once

LEMMA OneLine ==
  ASSUME NEW l \in Lines, NEW words
  PROVE  <<l>> \in Seq(Lines) /\ Once(<<l>>, words) /\ (HasAny(<<l>>, words) <=> l.word \in words)
<1>1. <<l>> \in Seq(Lines) /\ DOMAIN <<l>> = 1..1 /\ <<l>>[1] = l /\ Len(<<l>>) = 1
  OBVIOUS
<1>2. 1..1 = {1}
  OBVIOUS
<1> QED BY <1>1, <1>2 DEF Once, HasAny

LEMMA NoLine ==
  ASSUME NEW words
  PROVE  <<>> \in Seq(Lines) /\ Once(<<>>, words) /\ ~HasAny(<<>>, words)
<1>1. DOMAIN <<>> = {} /\ <<>> \in Seq(Lines)
  OBVIOUS
<1> QED BY <1>1 DEF Once, HasAny

AddT0Lines == {l \in Lines : l.word = "addt0"}

LEMMA AddT0LinesOnly ==
  ASSUME NEW s \in Seq(AddT0Lines), NEW words, "addt0" \notin words
  PROVE  s \in Seq(Lines) /\ Once(s, words) /\ ~HasAny(s, words)
<1>1. AddT0Lines \subseteq Lines
  BY DEF AddT0Lines
<1>2. s \in Seq(Lines)
  BY <1>1
<1>3. \A i \in DOMAIN s : s[i] \in AddT0Lines
  OBVIOUS
<1> QED BY <1>2, <1>3 DEF Once, HasAny, AddT0Lines

(* The addt0 lines that are missing. *)
LEMMA MissingAddT0Lines ==
  ASSUME NEW a \in Seq(Seq(Int)), NEW from \in 0..Len(a),
         NEW w, w = FlattenSeq([k \in 1..(Len(a) - from) |-> WriteAddT0(a[from + k])])
  PROVE  w \in Seq(AddT0Lines)
<1>1. PICK T : T = Seq(Int)
  OBVIOUS
<1>2. PICK K \in Nat : K = Len(a)
  OBVIOUS
<1>3. PICK X : X = AddT0Lines
  OBVIOUS
<1>4. PICK U : U = Seq(X)
  OBVIOUS
<1>5. ASSUME NEW k \in 1..(K - from) PROVE WriteAddT0(a[from + k]) \in U
  <2>1. from + k \in 1..K
    BY <1>2
  <2>2. a[from + k] \in T
    BY <1>1, <1>2, <2>1
  <2>3. PICK r \in Seq(Int) : r = a[from + k]
    BY <1>1, <2>2
  <2>4. PICK l : l = Line("addt0", r)
    OBVIOUS
  <2>5. l \in X
    BY <1>3, <2>4 DEF Line, Lines, Words, AddT0Lines
  <2>6. <<l>> \in Seq(X) /\ <<>> \in Seq(X)
    BY <2>5
  <2> QED BY <1>4, <2>3, <2>4, <2>6 DEF WriteAddT0
<1>6. PICK seqs : seqs = [k \in 1..(K - from) |-> WriteAddT0(a[from + k])]
  OBVIOUS
<1>7. seqs \in [1..(K - from) -> U]
  BY <1>5, <1>6
<1>8. K - from \in Nat
  BY <1>2
<1>9. seqs \in Seq(U)
  BY <1>7, <1>8
<1>10. FlattenSeq(seqs) \in Seq(X)
  BY <1>4, <1>9, FlattenIs
<1> QED BY <1>2, <1>3, <1>6, <1>10
T0Source(lines, i, isis) ==
  lines[i].word = "t0" \/ (lines[i].word \in FitWords /\ ~Has(lines, "t0") /\ ~isis)

(* What is written in front of the fit line has no fit line, and a t0 line *)
(* only if there is none.                                                  *)
LEMMA MissingOnce ==
  ASSUME NEW lines \in Seq(Lines), NEW b, Writable(lines, b), NEW i \in 1..Len(lines), NEW isis \in BOOLEAN,
         NEW w, w = WriteMissing(lines, i, b, isis)
  PROVE  /\ w \in Seq(Lines) /\ Once(w, {"t0"}) /\ ~HasAny(w, FitWords)
         /\ HasAny(w, {"t0"}) => ~Has(lines, "t0") /\ ~isis
<1>1. PICK from, w1, w2, w3, w4 :
        /\ from = AddT0LinesBefore(lines, i)
        /\ w1 = IF ~Has(lines, "t0") /\ b.t0 # <<>> /\ ~isis THEN <<Line("t0", b.t0)>> ELSE <<>>
        /\ w2 = IF isis THEN <<>>
                ELSE FlattenSeq([k \in 1..(Len(b.addT0) - from) |-> WriteAddT0(b.addT0[from + k])])
        /\ w3 = IF ~Has(lines, "background") /\ b.bkg[1] >= 0 THEN <<WriteRange("background", b.bkg)>> ELSE <<>>
        /\ w4 = IF ~Has(lines, "data") /\ b.data[1] >= 0 THEN <<WriteRange("data", b.data)>> ELSE <<>>
  OBVIOUS
<1>2. w = ((w1 \o w2) \o w3) \o w4
  BY <1>1, Zenon DEF WriteMissing
<1>3. b.t0 \in Seq(Int) /\ b.addT0 \in Seq(Seq(Int)) /\ b.bkg \in [1..4 -> Int] /\ b.data \in [1..4 -> Int]
  BY DEF Writable, Block
<1>4. \A words : <<>> \in Seq(Lines) /\ Once(<<>>, words) /\ ~HasAny(<<>>, words)
  BY NoLine
<1> DEFINE Fine(s) == s \in Seq(Lines) /\ Once(s, {"t0"}) /\ ~HasAny(s, FitWords)
<1>5. Fine(w1) /\ (HasAny(w1, {"t0"}) => ~Has(lines, "t0") /\ ~isis)
  <2>1. PICK l : l = Line("t0", b.t0)
    OBVIOUS
  <2>2. l \in Lines /\ l.word = "t0"
    BY <1>3, <2>1 DEF Line, Lines, Words
  <2>3. \A words : <<l>> \in Seq(Lines) /\ Once(<<l>>, words) /\ (HasAny(<<l>>, words) <=> l.word \in words)
    BY <2>2, OneLine
  <2>4. l.word \notin FitWords
    BY <2>2 DEF FitWords
  <2>5. CASE ~Has(lines, "t0") /\ b.t0 # <<>> /\ ~isis
    BY <1>1, <2>1, <2>3, <2>4, <2>5
  <2>6. CASE ~(~Has(lines, "t0") /\ b.t0 # <<>> /\ ~isis)
    BY <1>1, <1>4, <2>6
  <2> QED BY <2>5, <2>6
<1> DEFINE Without(s) == s \in Seq(Lines) /\ ~HasAny(s, {"t0"}) /\ ~HasAny(s, FitWords) /\ Once(s, {"t0"})
<1>6. Without(w2)
  <2>1. CASE isis
    BY <1>1, <1>4, <2>1
  <2>2. CASE ~isis
    <3>1. PICK a : a = b.addT0
      OBVIOUS
    <3>2. from \in 0..Len(a) /\ a \in Seq(Seq(Int))
      BY <1>1, <1>3, <3>1, CountLine
    <3>3. w2 = FlattenSeq([k \in 1..(Len(a) - from) |-> WriteAddT0(a[from + k])])
      BY <1>1, <2>2, <3>1
    <3>4. w2 \in Seq(AddT0Lines)
      BY <3>2, <3>3, MissingAddT0Lines
    <3>5. "addt0" \notin {"t0"} /\ "addt0" \notin FitWords
      BY DEF FitWords
    <3> QED BY <3>4, <3>5, AddT0LinesOnly
  <2> QED BY <2>1, <2>2
<1>7. ASSUME NEW word \in {"background", "data"}, NEW range \in [1..4 -> Int]
      PROVE  Without(<<WriteRange(word, range)>>)
  <2>1. PICK l : l = WriteRange(word, range)
    OBVIOUS
  <2>2. l \in Lines
    BY <2>1, WriteRangeIs DEF Words
  <2>3. l.word \notin {"t0"} /\ l.word \notin FitWords
    BY <2>1 DEF WriteRange, Line, FitWords
  <2>4. \A words : <<l>> \in Seq(Lines) /\ Once(<<l>>, words) /\ (HasAny(<<l>>, words) <=> l.word \in words)
    BY <2>2, OneLine
  <2> QED BY <2>1, <2>3, <2>4
<1>8. Without(<<>>)
  BY <1>4
<1>9. Without(w3)
  BY <1>1, <1>3, <1>7, <1>8
<1>10. Without(w4)
  BY <1>1, <1>3, <1>7, <1>8
<1>11. ASSUME NEW s, NEW t, Fine(s), Without(t)
       PROVE  Fine(s \o t) /\ (HasAny(s \o t, {"t0"}) <=> HasAny(s, {"t0"}))
  <2>1. s \in Seq(Lines) /\ t \in Seq(Lines)
    BY <1>11
  <2>2. \A words : HasAny(s \o t, words) <=> HasAny(s, words) \/ HasAny(t, words)
    BY <2>1, HasConcat
  <2>3. Once(s \o t, {"t0"})
    BY <1>11, <2>1, OnceConcat
  <2>4. s \o t \in Seq(Lines)
    BY <2>1
  <2> QED BY <1>11, <2>2, <2>3, <2>4
<1> HIDE DEF Fine, Without
<1>12. PICK u : u = w1 \o w2
  OBVIOUS
<1>13. Fine(u) /\ (HasAny(u, {"t0"}) <=> HasAny(w1, {"t0"}))
  BY <1>5, <1>6, <1>11, <1>12
<1>14. PICK v : v = u \o w3
  OBVIOUS
<1>15. Fine(v) /\ (HasAny(v, {"t0"}) <=> HasAny(u, {"t0"}))
  BY <1>9, <1>11, <1>13, <1>14
<1>16. w = v \o w4
  BY <1>2, <1>12, <1>14
<1>17. Fine(w) /\ (HasAny(w, {"t0"}) <=> HasAny(v, {"t0"}))
  BY <1>10, <1>11, <1>15, <1>16
<1> QED BY <1>5, <1>13, <1>15, <1>17 DEF Fine

LEMMA WrittenLineOnce ==
  ASSUME NEW lines \in Seq(Lines), NEW b, Writable(lines, b), NEW i \in 1..Len(lines), NEW isis \in BOOLEAN,
         NEW w, w = WriteLine(lines, i, b, isis)
  PROVE  /\ w \in Seq(Lines) /\ Once(w, {"t0"}) /\ Once(w, FitWords)
         /\ HasAny(w, {"t0"}) => T0Source(lines, i, isis)
         /\ HasAny(w, FitWords) <=> lines[i].word \in FitWords
<1>1. lines[i].word \in Words
  <2>1. lines[i] \in Lines
    OBVIOUS
  <2> QED BY <2>1 DEF Lines
<1>2. w \in Seq(Lines)
  BY WrittenLine
<1>3. b \in Block /\ b.t0 \in Seq(Int) /\ b.addT0 \in Seq(Seq(Int))
      /\ b.bkg \in [1..4 -> Int] /\ b.data \in [1..4 -> Int]
  BY DEF Writable, Block
<1>4. CASE lines[i].word \notin FitWords
  <2>1. PICK l : w = <<l>> /\ l.word = lines[i].word
    <3>1. CASE lines[i].word = "t0"
      <4>1. PICK l : l = Line("t0", b.t0)
        OBVIOUS
      <4>2. w = <<l>> /\ l.word = "t0"
        BY <3>1, <4>1 DEF WriteLine, Line
      <4> QED BY <3>1, <4>2
    <3>2. CASE lines[i].word = "addt0"
      <4>1. PICK l : l = Line("addt0", b.addT0[AddT0LinesBefore(lines, i) + 1])
        OBVIOUS
      <4>2. w = <<l>> /\ l.word = "addt0"
        BY <3>2, <4>1 DEF WriteLine, Line
      <4> QED BY <3>2, <4>2
    <3>3. CASE lines[i].word = "background"
      <4>1. PICK l : l = WriteRange("background", b.bkg)
        OBVIOUS
      <4>2. w = <<l>>
        BY <3>3, <4>1 DEF WriteLine
      <4>3. l.word = "background"
        BY <4>1 DEF WriteRange, Line
      <4> QED BY <3>3, <4>2, <4>3
    <3>4. CASE lines[i].word = "data"
      <4>1. PICK l : l = WriteRange("data", b.data)
        OBVIOUS
      <4>2. w = <<l>>
        BY <3>4, <4>1 DEF WriteLine
      <4>3. l.word = "data"
        BY <4>1 DEF WriteRange, Line
      <4> QED BY <3>4, <4>2, <4>3
    <3> QED BY <1>1, <1>4, <3>1, <3>2, <3>3, <3>4 DEF Words, FitWords
  <2>2. l \in Lines
    <3>1. w[1] = l /\ 1 \in DOMAIN w
      BY <2>1
    <3> QED BY <1>2, <3>1
  <2>3. \A words : Once(<<l>>, words) /\ (HasAny(<<l>>, words) <=> l.word \in words)
    BY <2>2, OneLine
  <2> QED BY <1>2, <1>4, <2>1, <2>3 DEF T0Source
<1>5. CASE lines[i].word \in FitWords
  <2>1. PICK m, l : m = WriteMissing(lines, i, b, isis) /\ l = WriteFit(b)
    OBVIOUS
  <2>2. w = m \o <<l>>
    BY <1>5, <2>1 DEF WriteLine, FitWords
  <2>3. l \in Lines /\ l.word \in FitWords
    BY <1>3, <2>1, WriteFitIs DEF FitWords
  <2>4. \A words : <<l>> \in Seq(Lines) /\ Once(<<l>>, words) /\ (HasAny(<<l>>, words) <=> l.word \in words)
    BY <2>3, OneLine
  <2>5. /\ m \in Seq(Lines) /\ Once(m, {"t0"}) /\ ~HasAny(m, FitWords)
        /\ HasAny(m, {"t0"}) => ~Has(lines, "t0") /\ ~isis
    BY <2>1, MissingOnce
  <2>6. l.word \notin {"t0"}
    BY <2>3 DEF FitWords
  <2>7. Once(m, FitWords)
    BY <2>5 DEF Once, HasAny
  <2>8. \A words : HasAny(m \o <<l>>, words) <=> HasAny(m, words) \/ HasAny(<<l>>, words)
    BY <2>4, <2>5, HasConcat
  <2>9. Once(m \o <<l>>, {"t0"}) /\ Once(m \o <<l>>, FitWords)
    BY <2>4, <2>5, <2>6, <2>7, OnceConcat
  <2> QED BY <1>2, <1>5, <2>2, <2>3, <2>4, <2>5, <2>6, <2>8, <2>9 DEF T0Source
<1> QED BY <1>4, <1>5

(* The t0's are written for one line. *)
LEMMA SourceOnce ==
  ASSUME NEW lines \in Seq(Lines), Once(lines, {"t0"}), Once(lines, FitWords), NEW isis \in BOOLEAN,
         NEW i \in 1..Len(lines), NEW j \in 1..Len(lines),
         T0Source(lines, i, isis), T0Source(lines, j, isis)
  PROVE  i = j
<1>1. DOMAIN lines = 1..Len(lines)
  OBVIOUS
<1>2. CASE Has(lines, "t0")
  <2>1. lines[i].word = "t0" /\ lines[j].word = "t0"
    BY <1>2 DEF T0Source
  <2> QED BY <1>1, <2>1 DEF Once
<1>3. CASE ~Has(lines, "t0")
  <2>1. lines[i].word \in FitWords /\ lines[j].word \in FitWords
    BY <1>1, <1>3 DEF T0Source, Has
  <2> QED BY <1>1, <2>1 DEF Once
<1> QED BY <1>2, <1>3

HasSource(lines, isis, m) == \E j \in 1..m : T0Source(lines, j, isis)

(* What is written has each keyword once again, a fit line if there has     *)
(* been one, and the t0's of the block if there has been a line for them.  *)
WrittenAgain(lines, b, isis, m, s) ==
  /\ Once(s, {"t0"}) /\ Once(s, FitWords)
  /\ HasAny(s, FitWords) <=> \E j \in 1..m : lines[j].word \in FitWords
  /\ HasAny(s, {"t0"}) => HasSource(lines, isis, m)
  /\ ReadBlock(s).t0 = IF HasSource(lines, isis, m) THEN b.t0 ELSE <<>>

LEMMA WrittenAgainLine ==
  ASSUME NEW lines \in Seq(Lines), NEW b, Writable(lines, b), NEW isis \in BOOLEAN,
         Once(lines, {"t0"}), Once(lines, FitWords), NEW i \in 1..Len(lines), NEW s \in Seq(Lines),
         WrittenAgain(lines, b, isis, i - 1, s), NEW w, w = WriteLine(lines, i, b, isis)
  PROVE  WrittenAgain(lines, b, isis, i, s \o w)
<1>1. /\ w \in Seq(Lines) /\ Once(w, {"t0"}) /\ Once(w, FitWords)
      /\ HasAny(w, {"t0"}) => T0Source(lines, i, isis)
      /\ HasAny(w, FitWords) <=> lines[i].word \in FitWords
  BY WrittenLineOnce, Zenon
<1>2. ReadBlock(w).t0 = IF T0Source(lines, i, isis) THEN b.t0 ELSE <<>>
  BY WrittenLine DEF T0Source
<1>3. PICK n \in Nat : n = Len(lines) /\ DOMAIN lines = 1..n
  OBVIOUS
<1>4. i \in 1..n /\ (\A j \in 1..(i - 1) : j \in 1..n /\ j # i) /\ \A j \in 1..i : j \in 1..(i - 1) \/ j = i
  BY <1>3
<1>5. \A j \in 1..(i - 1) : j \in 1..i
  BY <1>3
<1>6. i \in 1..i
  BY <1>3
<1>7. HasSource(lines, isis, i - 1) => ~T0Source(lines, i, isis)
  BY <1>3, <1>4, SourceOnce DEF HasSource
<1>8. HasSource(lines, isis, i) <=> HasSource(lines, isis, i - 1) \/ T0Source(lines, i, isis)
  BY <1>4, <1>5, <1>6, Zenon DEF HasSource
<1>9. (\E j \in 1..(i - 1) : lines[j].word \in FitWords) => lines[i].word \notin FitWords
  BY <1>3, <1>4 DEF Once
<1>10. (\E j \in 1..i : lines[j].word \in FitWords)
         <=> (\E j \in 1..(i - 1) : lines[j].word \in FitWords) \/ lines[i].word \in FitWords
  BY <1>4, <1>5, <1>6, Zenon
<1>11. PICK u : u = s \o w
  OBVIOUS
<1>12. \A words : HasAny(u, words) <=> HasAny(s, words) \/ HasAny(w, words)
  BY <1>1, <1>11, HasConcat
<1>13. Once(u, {"t0"})
  <2>1. ~(HasAny(s, {"t0"}) /\ HasAny(w, {"t0"}))
    BY <1>1, <1>7 DEF WrittenAgain
  <2> QED BY <1>1, <1>11, <2>1, OnceConcat DEF WrittenAgain
<1>14. Once(u, FitWords)
  <2>1. ~(HasAny(s, FitWords) /\ HasAny(w, FitWords))
    BY <1>1, <1>9 DEF WrittenAgain
  <2> QED BY <1>1, <1>11, <2>1, OnceConcat DEF WrittenAgain
<1>15. HasAny(u, FitWords) <=> \E j \in 1..i : lines[j].word \in FitWords
  BY <1>1, <1>10, <1>12 DEF WrittenAgain
<1>16. HasAny(u, {"t0"}) => HasSource(lines, isis, i)
  BY <1>1, <1>8, <1>12 DEF WrittenAgain
<1>17. ReadBlock(u).t0 = IF HasSource(lines, isis, i) THEN b.t0 ELSE <<>>
  <2>1. PICK r, v, z : r = ReadBlock(s).t0 /\ v = ReadBlock(w).t0 /\ z = ReadBlock(u).t0
    OBVIOUS
  <2>2. z = r \o v
    BY <1>1, <1>11, <2>1, ReadConcat
  <2>3. r \in Seq(Int) /\ v \in Seq(Int)
    BY <1>1, <2>1, ReadBlockIs DEF Blocks
  <2>4. r \o <<>> = r /\ <<>> \o v = v
    BY <2>3, ConcatEmptySeq
  <2>5. r = IF HasSource(lines, isis, i - 1) THEN b.t0 ELSE <<>>
    BY <2>1 DEF WrittenAgain
  <2> QED BY <1>2, <1>7, <1>8, <2>1, <2>2, <2>4, <2>5
<1> QED BY <1>11, <1>13, <1>14, <1>15, <1>16, <1>17 DEF WrittenAgain

LEMMA WrittenOnce ==
  ASSUME NEW lines \in Seq(Lines), NEW b, Writable(lines, b), NEW isis \in BOOLEAN,
         Once(lines, {"t0"}), Once(lines, FitWords)
  PROVE  WrittenAgain(lines, b, isis, Len(lines), WriteRun(lines, b, isis))
<1>1. PICK n \in Nat : n = Len(lines) /\ DOMAIN lines = 1..n
  OBVIOUS
<1>2. PICK f : Writing(lines, b, isis, f)
  BY Writes
<1>3. /\ f \in [0..n -> Seq(Lines)] /\ f[0] = <<>> /\ WriteRun(lines, b, isis) = f[n]
      /\ \A i \in 1..n : f[i] = f[i - 1] \o WriteLine(lines, i, b, isis)
  BY <1>1, <1>2, Zenon DEF Writing
<1>4. PICK S : S = {m \in 0..n : WrittenAgain(lines, b, isis, m, f[m])}
  OBVIOUS
<1>5. 0 \in S
  <2>1. 1..0 = {} /\ 0 \in 0..n
    OBVIOUS
  <2>2. \A words : Once(<<>>, words) /\ ~HasAny(<<>>, words)
    BY NoLine
  <2>3. ReadBlock(<<>>).t0 = <<>>
    BY ReadNothing DEF NoBlock
  <2>4. ~HasSource(lines, isis, 0) /\ ~\E j \in 1..0 : lines[j].word \in FitWords
    BY <2>1 DEF HasSource
  <2>5. WrittenAgain(lines, b, isis, 0, <<>>)
    BY <2>2, <2>3, <2>4 DEF WrittenAgain
  <2> QED BY <1>3, <1>4, <2>1, <2>5
<1>6. ASSUME NEW m \in 0..(n - 1), m \in S PROVE m + 1 \in S
  <2>1. PICK i \in 1..n : i = m + 1
    OBVIOUS
  <2>2. i - 1 = m /\ i \in 0..n /\ m \in 0..n
    BY <2>1
  <2>3. f[m] \in Seq(Lines)
    BY <1>3, <2>2
  <2>4. WrittenAgain(lines, b, isis, i - 1, f[m])
    BY <1>4, <1>6, <2>2
  <2>5. i \in 1..Len(lines)
    BY <1>1
  <2>6. WrittenAgain(lines, b, isis, i, f[m] \o WriteLine(lines, i, b, isis))
    BY <2>3, <2>4, <2>5, WrittenAgainLine
  <2>7. f[i] = f[m] \o WriteLine(lines, i, b, isis)
    BY <1>3, <2>2
  <2> QED BY <1>4, <2>1, <2>2, <2>6, <2>7
<1>7. n \in S
  <2>1. 0..n \subseteq S
    BY <1>5, <1>6, UpTo
  <2> QED BY <2>1
<1> QED BY <1>1, <1>3, <1>4, <1>7

-----------------------------------------------------------------------------
(* The ranges of a block, as they are written and read.                    *)

RangeWords == {"data", "background"}
RangeIn(b, word) == IF word = "data" THEN b.data ELSE b.bkg

LEMMA ReadRanges ==
  ASSUME NEW lines \in Seq(Lines), NEW b \in Blocks(lines), NEW l \in Lines, NEW word \in RangeWords
  PROVE  RangeIn(ReadLine(b, l), word) =
           IF l.word = word THEN Overwritten(RangeIn(b, word), l.n) ELSE RangeIn(b, word)
<1>1. l.word \in Words
  BY DEF Lines
<1>2. PICK offset, bkg, data, t0, addT0 :
        /\ offset = ReadOffset(l.n) /\ bkg = Overwritten(b.bkg, l.n) /\ data = Overwritten(b.data, l.n)
        /\ t0 = b.t0 \o l.n /\ addT0 = Append(b.addT0, l.n)
  OBVIOUS
<1>3. ReadLine(b, l) =
         CASE l.word = "t0"         -> [b EXCEPT !.t0 = t0]
           [] l.word = "addt0"      -> [b EXCEPT !.addT0 = addT0]
           [] l.word = "background" -> [b EXCEPT !.bkg = bkg]
           [] l.word = "data"       -> [b EXCEPT !.data = data]
           [] l.word = "fit"        -> [b EXCEPT !.time = l.n]
           [] l.word = "fit fgb"    -> [b EXCEPT !.inBins = TRUE, !.offset = offset]
  BY <1>2 DEF ReadLine
<1>4. PICK bkgs, offsets, times :
        /\ bkgs = [1..4 -> Int]
        /\ offsets = {NoBlock.offset} \cup {ReadOffset(lines[j].n) : j \in DOMAIN lines}
        /\ times = {NoBlock.time} \cup {lines[j].n : j \in DOMAIN lines}
  OBVIOUS
<1>5. b \in [t0 : Seq(Int), addT0 : Seq(Seq(Int)), bkg : bkgs, data : bkgs, inBins : BOOLEAN,
              offset : offsets, time : times]
  BY <1>4 DEF Blocks
<1>6. PICK b2 : b2 = ReadLine(b, l)
  OBVIOUS
<1>7. /\ b2.data = IF l.word = "data" THEN data ELSE b.data
      /\ b2.bkg = IF l.word = "background" THEN bkg ELSE b.bkg
  <2>1. CASE l.word = "t0"
    BY <1>3, <1>5, <1>6, <2>1
  <2>2. CASE l.word = "addt0"
    BY <1>3, <1>5, <1>6, <2>2
  <2>3. CASE l.word = "background"
    BY <1>3, <1>5, <1>6, <2>3
  <2>4. CASE l.word = "data"
    BY <1>3, <1>5, <1>6, <2>4
  <2>5. CASE l.word = "fit"
    BY <1>3, <1>5, <1>6, <2>5
  <2>6. CASE l.word = "fit fgb"
    BY <1>3, <1>5, <1>6, <2>6
  <2> QED BY <1>1, <2>1, <2>2, <2>3, <2>4, <2>5, <2>6 DEF Words
<1> QED BY <1>2, <1>6, <1>7 DEF RangeIn, RangeWords

LEMMA RangeInIs ==
  ASSUME NEW lines \in Seq(Lines), NEW b \in Blocks(lines), NEW word \in RangeWords
  PROVE  RangeIn(b, word) \in [1..4 -> Int]
BY DEF Blocks, RangeIn, RangeWords

(* Every line for a range begins with these bins.                          *)
RangeLines(word, x, m) ==
  {l \in Lines : l.word = word => m <= Len(l.n) /\ \A i \in 1..m : l.n[i] = x[i]}

LEMMA ReadRangeLines ==
  ASSUME NEW word \in RangeWords, NEW x \in [1..4 -> Int], NEW m \in 1..4,
         NEW lines \in Seq(RangeLines(word, x, m)), HasAny(lines, {word})
  PROVE  \A i \in 1..m : RangeIn(ReadBlock(lines), word)[i] = x[i]
<1>1. PICK n \in Nat : n = Len(lines) /\ DOMAIN lines = 1..n
  OBVIOUS
<1>2. lines \in Seq(Lines)
  BY DEF RangeLines
<1>3. PICK f : ReadsOf(lines, f)
  BY <1>2, Reads
<1>4. /\ f \in [0..n -> Blocks(lines)] /\ ReadBlock(lines) = f[n]
      /\ \A j \in 1..n : f[j] = ReadLine(f[j - 1], lines[j])
  BY <1>1, <1>3, Zenon DEF ReadsOf
<1>5. PICK S : S = {j \in 0..n : (\E h \in 1..j : lines[h].word = word)
                                  => \A i \in 1..m : RangeIn(f[j], word)[i] = x[i]}
  OBVIOUS
<1>6. 0 \in S
  BY <1>5
<1>7. ASSUME NEW k \in 0..(n - 1), k \in S PROVE k + 1 \in S
  <2>1. PICK j \in 1..n : j = k + 1
    OBVIOUS
  <2>2. j - 1 = k /\ j \in 0..n /\ k \in 0..n /\ (\A h \in 1..j : h \in 1..k \/ h = j)
    BY <2>1
  <2>3. PICK b, c, l : b = f[k] /\ c = f[j] /\ l = lines[j]
    OBVIOUS
  <2>4. b \in Blocks(lines) /\ c = ReadLine(b, l)
    BY <1>4, <2>2, <2>3
  <2>5. l \in RangeLines(word, x, m) /\ l \in Lines
    BY <1>1, <2>3 DEF RangeLines
  <2>6. RangeIn(c, word) = IF l.word = word THEN Overwritten(RangeIn(b, word), l.n) ELSE RangeIn(b, word)
    BY <1>2, <2>4, <2>5, ReadRanges
  <2>7. CASE l.word = word
    <3>1. m <= Len(l.n) /\ \A i \in 1..m : l.n[i] = x[i]
      BY <2>5, <2>7 DEF RangeLines
    <3>2. l.n \in Seq(Int) /\ Len(l.n) \in Nat
      BY <2>5 DEF Lines
    <3>3. ASSUME NEW i \in 1..m PROVE Overwritten(RangeIn(b, word), l.n)[i] = x[i]
      <4>1. i \in 1..4 /\ i <= Len(l.n)
        BY <3>1, <3>2, SMTT(30)
      <4> QED BY <3>1, <4>1 DEF Overwritten
    <3>4. \A i \in 1..m : RangeIn(c, word)[i] = x[i]
      BY <2>6, <2>7, <3>3
    <3> QED BY <1>5, <2>1, <2>2, <2>3, <3>4
  <2>8. CASE l.word # word
    <3>1. RangeIn(f[j], word) = RangeIn(f[k], word)
      BY <2>3, <2>6, <2>8
    <3>2. (\E h \in 1..j : lines[h].word = word) => \E h \in 1..k : lines[h].word = word
      BY <2>2, <2>3, <2>8
    <3> QED BY <1>5, <1>7, <2>1, <2>2, <3>1, <3>2
  <2> QED BY <2>7, <2>8
<1>8. n \in S
  <2>1. 0..n \subseteq S
    BY <1>6, <1>7, UpTo
  <2> QED BY <2>1
<1> QED BY <1>1, <1>4, <1>5, <1>8 DEF HasAny

(* Of a range, the bins up to one that is zero are written.                *)
LEMMA WriteRangeBegins ==
  ASSUME NEW word \in RangeWords, NEW x \in [1..4 -> Int], NEW m \in 1..4, \A i \in 1..m : x[i] > 0
  PROVE  WriteRange(word, x) \in RangeLines(word, x, m)
<1>1. PICK l : l = WriteRange(word, x)
  OBVIOUS
<1>2. l \in Lines
  BY <1>1, WriteRangeIs DEF RangeWords, Words
<1>3. PICK seqs : seqs = [i \in 1..4 |-> IfPositive(x[i])]
  OBVIOUS
<1>4. ASSUME NEW i \in 1..4 PROVE IfPositive(x[i]) \in Seq(Int)
  BY DEF IfPositive
<1>5. seqs \in Seq(Seq(Int)) /\ Len(seqs) = 4
  <2>1. PICK T : T = Seq(Int)
    OBVIOUS
  <2>2. seqs \in [1..4 -> T]
    BY <1>3, <1>4, <2>1
  <2>3. PICK n \in Nat : n = 4
    OBVIOUS
  <2>4. seqs \in [1..n -> T]
    BY <2>2, <2>3
  <2>5. seqs \in Seq(T) /\ Len(seqs) = n
    BY <2>4
  <2> QED BY <2>1, <2>3, <2>5
<1>6. PICK f : Flattening(seqs, f, Int)
  BY <1>5, Flattens
<1>7. /\ f \in [0..4 -> Seq(Int)] /\ f[0] = <<>> /\ FlattenSeq(seqs) = f[4]
      /\ \A i \in 1..4 : f[i] = f[i - 1] \o seqs[i]
  BY <1>5, <1>6, Zenon DEF Flattening
<1>8. PICK S : S = {j \in 0..4 : /\ j <= m => Len(f[j]) = j
                                 /\ j > m => Len(f[j]) >= m
                                 /\ \A i \in 1..m : i <= j => f[j][i] = x[i]}
  OBVIOUS
<1>9. 0 \in S
  BY <1>7, <1>8, SMTT(30)
<1>10. ASSUME NEW k \in 0..3, k \in S PROVE k + 1 \in S
  <2>1. PICK j \in 1..4 : j = k + 1
    OBVIOUS
  <2>2. j - 1 = k /\ j \in 0..4 /\ k \in 0..4
    BY <2>1
  <2>3. PICK s, t, v : s = f[k] /\ t = f[j] /\ v = seqs[j]
    OBVIOUS
  <2>4. s \in Seq(Int) /\ v \in Seq(Int) /\ t = s \o v
    BY <1>3, <1>4, <1>7, <2>2, <2>3
  <2>5. PICK ls, lv \in Nat : ls = Len(s) /\ lv = Len(v)
    BY <2>4
  <2>6. Len(t) = ls + lv /\ (\A i \in 1..ls : t[i] = s[i]) /\ (\A i \in 1..lv : t[ls + i] = v[i])
    BY <2>4, <2>5
  <2>7. /\ k <= m => ls = k
        /\ k > m => ls >= m
        /\ \A i \in 1..m : i <= k => s[i] = x[i]
    BY <1>8, <1>10, <2>3, <2>5
  <2>8. CASE j <= m
    <3>1. j \in 1..m /\ v = <<x[j]>>
      BY <1>3, <2>3, <2>8 DEF IfPositive
    <3>2. lv = 1 /\ v[1] = x[j]
      BY <2>5, <3>1
    <3>3. ls = k /\ Len(t) = j
      BY <2>1, <2>6, <2>7, <2>8, <3>2
    <3>4. t[j] = x[j]
      BY <2>1, <2>6, <3>2, <3>3
    <3>5. ASSUME NEW i \in 1..m, i <= j PROVE t[i] = x[i]
      <4>1. CASE i = j
        BY <3>4, <4>1
      <4>2. CASE i # j
        <5>1. i <= k /\ i \in 1..ls
          BY <2>1, <3>3, <3>5, <4>2
        <5> QED BY <2>6, <2>7, <5>1
      <4> QED BY <4>1, <4>2
    <3> QED BY <1>8, <2>1, <2>2, <2>3, <2>8, <3>3, <3>5
  <2>9. CASE j > m
    <3>1. ls >= m
      BY <2>1, <2>7, <2>9
    <3>2. Len(t) >= m
      BY <2>6, <3>1
    <3>3. ASSUME NEW i \in 1..m PROVE t[i] = x[i]
      <4>1. i <= k /\ i \in 1..ls
        BY <2>1, <2>9, <3>1
      <4> QED BY <2>6, <2>7, <4>1
    <3> QED BY <1>8, <2>1, <2>2, <2>3, <2>9, <3>2, <3>3
  <2> QED BY <2>8, <2>9
<1>11. 4 \in S
  <2>1. PICK n \in Nat : n = 4
    OBVIOUS
  <2>2. \A k \in 0..(n - 1) : k \in 0..3
    BY <2>1
  <2>3. 0..n \subseteq S
    BY <1>9, <1>10, <2>1, <2>2, UpTo
  <2> QED BY <2>1, <2>3
<1>12. f[4] = l.n
  BY <1>1, <1>3, <1>7 DEF WriteRange, Line
<1>13. Len(f[4]) >= m /\ \A i \in 1..m : f[4][i] = x[i]
  BY <1>8, <1>11
<1> QED BY <1>1, <1>2, <1>12, <1>13 DEF RangeLines

LEMMA NotOfRange ==
  ASSUME NEW word \in RangeWords, NEW x, NEW m, NEW l \in Lines, l.word # word
  PROVE  <<l>> \in Seq(RangeLines(word, x, m))
<1>1. l \in RangeLines(word, x, m)
  BY DEF RangeLines
<1> QED BY <1>1

LEMMA HasOne ==
  ASSUME NEW l, NEW words
  PROVE  HasAny(<<l>>, words) <=> l.word \in words
<1>1. DOMAIN <<l>> = {1} /\ <<l>>[1] = l
  OBVIOUS
<1> QED BY <1>1 DEF HasAny

LEMMA OfRange ==
  ASSUME NEW word \in RangeWords, NEW x \in [1..4 -> Int], NEW m \in 1..4, \A i \in 1..m : x[i] > 0
  PROVE  /\ <<WriteRange(word, x)>> \in Seq(RangeLines(word, x, m))
         /\ HasAny(<<WriteRange(word, x)>>, {word})
<1>1. WriteRange(word, x) \in RangeLines(word, x, m)
  BY WriteRangeBegins
<1>2. PICK l : l = WriteRange(word, x)
  OBVIOUS
<1>3. l.word = word
  BY <1>2 DEF WriteRange, Line
<1>4. HasAny(<<l>>, {word})
  BY <1>3, HasOne
<1> QED BY <1>1, <1>2, <1>4

LEMMA OtherRange ==
  ASSUME NEW word \in RangeWords, NEW other \in RangeWords, other # word, NEW y \in [1..4 -> Int], NEW x, NEW m
  PROVE  <<WriteRange(other, y)>> \in Seq(RangeLines(word, x, m))
<1>1. PICK l : l = WriteRange(other, y)
  OBVIOUS
<1>2. l \in Lines
  BY <1>1, WriteRangeIs DEF RangeWords, Words
<1>3. l.word = other
  BY <1>1 DEF WriteRange, Line
<1> QED BY <1>1, <1>2, <1>3, NotOfRange

(* The ranges of a block whose first bins are not zero. *)
Written(b, word, m) == \A i \in 1..m : RangeIn(b, word)[i] > 0

LEMMA AnyRange ==
  ASSUME NEW b \in Block, NEW word \in RangeWords, NEW m \in 1..4, Written(b, word, m), NEW other \in RangeWords
  PROVE  /\ <<WriteRange(other, RangeIn(b, other))>> \in Seq(RangeLines(word, RangeIn(b, word), m))
         /\ other = word => HasAny(<<WriteRange(other, RangeIn(b, other))>>, {word})
<1>1. RangeIn(b, word) \in [1..4 -> Int] /\ RangeIn(b, other) \in [1..4 -> Int]
  BY DEF Block, RangeIn
<1>2. CASE other = word
  BY <1>1, <1>2, OfRange DEF Written
<1>3. CASE other # word
  BY <1>1, <1>3, OtherRange
<1> QED BY <1>2, <1>3

LEMMA MissingRange ==
  ASSUME NEW lines \in Seq(Lines), NEW b, Writable(lines, b), NEW i \in 1..Len(lines), NEW isis \in BOOLEAN,
         NEW word \in RangeWords, NEW m \in 1..4, Written(b, word, m),
         NEW w, w = WriteMissing(lines, i, b, isis), NEW X, X = RangeLines(word, RangeIn(b, word), m)
  PROVE  w \in Seq(X) /\ (~Has(lines, word) => HasAny(w, {word}))
<1>1. PICK from, w1, w2, w3, w4 :
        /\ from = AddT0LinesBefore(lines, i)
        /\ w1 = IF ~Has(lines, "t0") /\ b.t0 # <<>> /\ ~isis THEN <<Line("t0", b.t0)>> ELSE <<>>
        /\ w2 = IF isis THEN <<>>
                ELSE FlattenSeq([k \in 1..(Len(b.addT0) - from) |-> WriteAddT0(b.addT0[from + k])])
        /\ w3 = IF ~Has(lines, "background") /\ b.bkg[1] >= 0 THEN <<WriteRange("background", b.bkg)>> ELSE <<>>
        /\ w4 = IF ~Has(lines, "data") /\ b.data[1] >= 0 THEN <<WriteRange("data", b.data)>> ELSE <<>>
  OBVIOUS
<1>2. w = ((w1 \o w2) \o w3) \o w4
  BY <1>1, Zenon DEF WriteMissing
<1>3. b \in Block /\ b.t0 \in Seq(Int) /\ b.addT0 \in Seq(Seq(Int)) /\ b.bkg \in [1..4 -> Int] /\ b.data \in [1..4 -> Int]
  BY DEF Writable, Block
<1>4. X \subseteq Lines /\ <<>> \in Seq(X)
  BY DEF RangeLines
<1>5. w1 \in Seq(X)
  <2>1. PICK l : l = Line("t0", b.t0)
    OBVIOUS
  <2>2. l \in Lines /\ l.word = "t0"
    BY <1>3, <2>1 DEF Line, Lines, Words
  <2>3. l.word # word
    BY <2>2 DEF RangeWords
  <2>4. <<l>> \in Seq(X)
    BY <2>2, <2>3, NotOfRange
  <2> QED BY <1>1, <1>4, <2>1, <2>4
<1>6. w2 \in Seq(X)
  <2>1. CASE isis
    BY <1>1, <1>4, <2>1
  <2>2. CASE ~isis
    <3>1. PICK a : a = b.addT0
      OBVIOUS
    <3>2. from \in 0..Len(a) /\ a \in Seq(Seq(Int))
      BY <1>1, <1>3, <3>1, CountLine
    <3>3. w2 = FlattenSeq([k \in 1..(Len(a) - from) |-> WriteAddT0(a[from + k])])
      BY <1>1, <2>2, <3>1
    <3>4. w2 \in Seq(AddT0Lines)
      BY <3>2, <3>3, MissingAddT0Lines
    <3>5. AddT0Lines \subseteq X
      BY DEF AddT0Lines, RangeLines, RangeWords
    <3> QED BY <3>4, <3>5
  <2> QED BY <2>1, <2>2
<1>7. ASSUME NEW other \in RangeWords
      PROVE  /\ <<WriteRange(other, RangeIn(b, other))>> \in Seq(X)
             /\ other = word => HasAny(<<WriteRange(other, RangeIn(b, other))>>, {word})
  BY <1>3, AnyRange
<1>8. RangeIn(b, "data") = b.data /\ RangeIn(b, "background") = b.bkg
      /\ "data" \in RangeWords /\ "background" \in RangeWords
  BY DEF RangeIn, RangeWords
<1>9. w3 \in Seq(X) /\ w4 \in Seq(X)
  BY <1>1, <1>4, <1>7, <1>8
<1>10. RangeIn(b, word)[1] >= 0
  <2>1. 1 \in 1..m /\ 1 \in 1..4
    OBVIOUS
  <2>2. RangeIn(b, word)[1] \in Int
    BY <1>3, <2>1 DEF RangeIn
  <2> QED BY <2>1, <2>2 DEF Written
<1>11. ~Has(lines, word) => HasAny(w3, {word}) \/ HasAny(w4, {word})
  <2>1. CASE word = "data"
    BY <1>1, <1>7, <1>8, <1>10, <2>1
  <2>2. CASE word = "background"
    BY <1>1, <1>7, <1>8, <1>10, <2>2
  <2> QED BY <2>1, <2>2 DEF RangeWords
<1>12. PICK u, v : u = w1 \o w2 /\ v = u \o w3
  OBVIOUS
<1>13. u \in Seq(X) /\ v \in Seq(X) /\ w = v \o w4
  <2>1. u \in Seq(X)
    BY <1>5, <1>6, <1>12
  <2>2. v \in Seq(X)
    BY <1>9, <1>12, <2>1
  <2> QED BY <1>2, <1>12, <2>1, <2>2
<1>14. \A s \in Seq(X), t \in Seq(X) : HasAny(s \o t, {word}) <=> HasAny(s, {word}) \/ HasAny(t, {word})
  <2>1. \A s \in Seq(X) : s \in Seq(Lines)
    BY <1>4
  <2> QED BY <2>1, HasConcat
<1>15. HasAny(w3, {word}) => HasAny(v, {word})
  BY <1>9, <1>12, <1>13, <1>14
<1>16. HasAny(v, {word}) \/ HasAny(w4, {word}) => HasAny(w, {word})
  <2>1. HasAny(v \o w4, {word}) <=> HasAny(v, {word}) \/ HasAny(w4, {word})
    BY <1>9, <1>13, <1>14
  <2> QED BY <1>13, <2>1
<1>17. w \in Seq(X)
  BY <1>9, <1>13
<1> QED BY <1>11, <1>15, <1>16, <1>17

LEMMA WrittenRangeLine ==
  ASSUME NEW lines \in Seq(Lines), NEW b, Writable(lines, b), NEW i \in 1..Len(lines), NEW isis \in BOOLEAN,
         NEW word \in RangeWords, NEW m \in 1..4, Written(b, word, m),
         NEW w, w = WriteLine(lines, i, b, isis), NEW X, X = RangeLines(word, RangeIn(b, word), m)
  PROVE  /\ w \in Seq(X)
         /\ lines[i].word = word \/ (lines[i].word \in FitWords /\ ~Has(lines, word)) => HasAny(w, {word})
<1>1. lines[i].word \in Words
  <2>1. lines[i] \in Lines
    OBVIOUS
  <2> QED BY <2>1 DEF Lines
<1>2. w \in Seq(Lines)
  BY WrittenLine
<1>3. b \in Block
  BY DEF Writable
<1>4. ASSUME NEW other \in RangeWords
      PROVE  /\ <<WriteRange(other, RangeIn(b, other))>> \in Seq(X)
             /\ other = word => HasAny(<<WriteRange(other, RangeIn(b, other))>>, {word})
  BY <1>3, AnyRange
<1>5. RangeIn(b, "data") = b.data /\ RangeIn(b, "background") = b.bkg
      /\ "data" \in RangeWords /\ "background" \in RangeWords
  BY DEF RangeIn, RangeWords
<1>6. CASE lines[i].word = "background"
  <2>1. w = <<WriteRange("background", b.bkg)>>
    BY <1>6 DEF WriteLine
  <2> QED BY <1>4, <1>5, <1>6, <2>1 DEF FitWords
<1>7. CASE lines[i].word = "data"
  <2>1. w = <<WriteRange("data", b.data)>>
    BY <1>7 DEF WriteLine
  <2> QED BY <1>4, <1>5, <1>7, <2>1 DEF FitWords
<1>8. CASE lines[i].word \in {"t0", "addt0"}
  <2>1. PICK l : w = <<l>> /\ l.word = lines[i].word
    <3>1. CASE lines[i].word = "t0"
      <4>1. PICK l : l = Line("t0", b.t0)
        OBVIOUS
      <4>2. w = <<l>> /\ l.word = "t0"
        BY <3>1, <4>1 DEF WriteLine, Line
      <4> QED BY <3>1, <4>2
    <3>2. CASE lines[i].word = "addt0"
      <4>1. PICK l : l = Line("addt0", b.addT0[AddT0LinesBefore(lines, i) + 1])
        OBVIOUS
      <4>2. w = <<l>> /\ l.word = "addt0"
        BY <3>2, <4>1 DEF WriteLine, Line
      <4> QED BY <3>2, <4>2
    <3> QED BY <1>8, <3>1, <3>2
  <2>2. l \in Lines
    <3>1. w[1] = l /\ 1 \in DOMAIN w
      BY <2>1
    <3> QED BY <1>2, <3>1
  <2>3. l.word # word
    BY <1>8, <2>1 DEF RangeWords
  <2>4. <<l>> \in Seq(X)
    BY <2>2, <2>3, NotOfRange
  <2> QED BY <1>8, <2>1, <2>3, <2>4 DEF FitWords
<1>9. CASE lines[i].word \in FitWords
  <2>1. PICK v, l : v = WriteMissing(lines, i, b, isis) /\ l = WriteFit(b)
    OBVIOUS
  <2>2. w = v \o <<l>>
    BY <1>9, <2>1 DEF WriteLine, FitWords
  <2>3. l \in Lines /\ l.word # word
    BY <1>3, <2>1, WriteFitIs DEF RangeWords
  <2>4. <<l>> \in Seq(X) /\ <<l>> \in Seq(Lines)
    BY <2>3, NotOfRange
  <2>5. v \in Seq(X) /\ (~Has(lines, word) => HasAny(v, {word}))
    BY <2>1, MissingRange
  <2>6. v \in Seq(Lines)
    BY <2>5 DEF RangeLines
  <2>7. HasAny(w, {word}) <=> HasAny(v, {word}) \/ HasAny(<<l>>, {word})
    <3>1. PICK one : one = <<l>>
      OBVIOUS
    <3>2. one \in Seq(Lines)
      BY <2>4, <3>1
    <3>3. HasAny(v \o one, {word}) <=> HasAny(v, {word}) \/ HasAny(one, {word})
      BY <2>6, <3>2, HasConcat
    <3> QED BY <2>2, <3>1, <3>3
  <2>8. lines[i].word # word
    BY <1>9 DEF FitWords, RangeWords
  <2>9. w \in Seq(X)
    BY <2>2, <2>4, <2>5
  <2> QED BY <2>5, <2>7, <2>8, <2>9
<1> QED BY <1>1, <1>6, <1>7, <1>8, <1>9 DEF Words, FitWords

(* A range whose bins are not zero is read again. *)
LEMMA WrittenRange ==
  ASSUME NEW lines \in Seq(Lines), NEW b, Writable(lines, b), NEW isis \in BOOLEAN,
         NEW word \in RangeWords, NEW m \in 1..4, Written(b, word, m),
         HasAny(lines, {word}) \/ HasAny(lines, FitWords)
  PROVE  \A i \in 1..m : RangeIn(ReadBlock(WriteRun(lines, b, isis)), word)[i] = RangeIn(b, word)[i]
<1>1. PICK n \in Nat : n = Len(lines) /\ DOMAIN lines = 1..n
  OBVIOUS
<1>2. PICK x, X : x = RangeIn(b, word) /\ X = RangeLines(word, x, m)
  OBVIOUS
<1>3. PICK seqs : seqs = [i \in DOMAIN lines |-> WriteLine(lines, i, b, isis)]
  OBVIOUS
<1>4. PICK w : w = FlattenSeq(seqs)
  OBVIOUS
<1>5. WriteRun(lines, b, isis) = w
  BY <1>3, <1>4 DEF WriteRun
<1>6. ASSUME NEW i \in 1..n
      PROVE  /\ seqs[i] \in Seq(X)
             /\ lines[i].word = word \/ (lines[i].word \in FitWords /\ ~Has(lines, word)) => HasAny(seqs[i], {word})
  <2>1. i \in 1..Len(lines) /\ seqs[i] = WriteLine(lines, i, b, isis)
    BY <1>1, <1>3
  <2> QED BY <1>2, <2>1, WrittenRangeLine
<1>7. seqs \in Seq(Seq(X)) /\ Len(seqs) = n
  <2>1. PICK T : T = Seq(X)
    OBVIOUS
  <2>2. seqs \in [1..n -> T]
    BY <1>1, <1>3, <1>6, <2>1
  <2>3. seqs \in Seq(T) /\ Len(seqs) = n
    BY <2>2
  <2> QED BY <2>1, <2>3
<1>8. w \in Seq(X)
  BY <1>4, <1>7, FlattenIs
<1>9. PICK i \in 1..n : HasAny(seqs[i], {word})
  <2>1. CASE Has(lines, word)
    BY <1>1, <1>6, <2>1 DEF Has
  <2>2. CASE ~Has(lines, word)
    <3>1. ~HasAny(lines, {word})
      BY <2>2 DEF Has, HasAny
    <3> QED BY <1>1, <1>6, <2>2, <3>1 DEF HasAny
  <2> QED BY <2>1, <2>2
<1>10. PICK e \in DOMAIN seqs[i] : seqs[i][e].word = word
  BY <1>9 DEF HasAny
<1>11. i \in 1..Len(seqs) /\ e \in 1..Len(seqs[i])
  <2>1. PICK z : z = seqs[i]
    OBVIOUS
  <2>2. z \in Seq(X) /\ e \in DOMAIN z
    BY <1>6, <2>1
  <2>3. e \in 1..Len(z)
    BY <2>2
  <2> QED BY <1>7, <2>1, <2>3
<1>12. \E j \in 1..Len(w) : w[j] = seqs[i][e]
  BY <1>4, <1>7, <1>11, FlattenHasAll
<1>13. HasAny(w, {word})
  <2>1. DOMAIN w = 1..Len(w)
    BY <1>8
  <2> QED BY <1>10, <1>12, <2>1 DEF HasAny
<1>14. x \in [1..4 -> Int]
  BY <1>2 DEF Writable, Block, RangeIn
<1> QED BY <1>2, <1>5, <1>8, <1>13, <1>14, ReadRangeLines

(* A range of a file that has been accepted has both its ends, greater      *)
(* than zero, and a backward range stands behind a forward one.            *)
PairedRange(x) ==
  /\ \A i \in 1..4 : x[i] = None \/ x[i] > 0
  /\ x[1] = None <=> x[2] = None
  /\ x[3] = None <=> x[4] = None
  /\ x[1] = None => x[3] = None

LEMMA OverwrittenPaired ==
  ASSUME NEW x \in [1..4 -> Int], PairedRange(x), NEW n \in Seq(Int), n # <<>>, Len(n) % 2 = 0,
         \A i \in DOMAIN n : n[i] > 0
  PROVE  PairedRange(Overwritten(x, n))
<1>1. PICK k \in Nat : k = Len(n) /\ DOMAIN n = 1..k
  OBVIOUS
<1>2. k # 0
  BY <1>1, EmptySeq
<1>3. k = 2 \/ k >= 4
  <2>1. k % 2 = 0
    BY <1>1
  <2> QED BY <1>2, <2>1, SMTT(30)
<1>4. PICK y : y = Overwritten(x, n)
  OBVIOUS
<1>5. \A i \in 1..4 : y[i] = IF i <= k THEN n[i] ELSE x[i]
  BY <1>1, <1>4 DEF Overwritten
<1>6. \A i \in 1..4 : i <= k => n[i] \in Int /\ n[i] > 0
  BY <1>1, SMTT(30)
<1>7. \A i \in 1..4 : y[i] = None \/ y[i] > 0
  BY <1>5, <1>6 DEF PairedRange
<1>8. y[1] > 0 /\ y[2] > 0
  <2>1. 1 \in 1..4 /\ 2 \in 1..4 /\ 1 <= k /\ 2 <= k
    BY <1>3
  <2> QED BY <1>5, <1>6, <2>1
<1>9. y[1] # None /\ y[2] # None
  <2>1. y[1] \in Int /\ y[2] \in Int
    <3>1. y \in [1..4 -> Int]
      BY <1>4, OverwrittenIs
    <3> QED BY <3>1
  <2> QED BY <1>8, <2>1, SMTT(30) DEF None
<1>10. y[3] = None <=> y[4] = None
  <2>1. 3 \in 1..4 /\ 4 \in 1..4
    OBVIOUS
  <2>2. CASE k = 2
    <3>1. y[3] = x[3] /\ y[4] = x[4]
      BY <1>5, <2>1, <2>2
    <3> QED BY <3>1 DEF PairedRange
  <2>3. CASE k >= 4
    <3>1. y[3] \in Int /\ y[4] \in Int /\ y[3] > 0 /\ y[4] > 0
      BY <1>1, <1>5, <1>6, <2>1, <2>3
    <3> QED BY <3>1, SMTT(30) DEF None
  <2> QED BY <1>3, <2>2, <2>3
<1> QED BY <1>4, <1>7, <1>9, <1>10 DEF PairedRange

LEMMA LegalRange ==
  ASSUME NEW l \in Lines, LegalLine(l), l.word \in RangeWords
  PROVE  l.n # <<>> /\ Len(l.n) % 2 = 0 /\ \A i \in DOMAIN l.n : l.n[i] > 0
<1>1. l.word \notin {"t0", "addt0"} /\ l.word \in {"background", "data"}
  BY DEF RangeWords
<1> QED BY <1>1, Zenon DEF LegalLine

LEMMA LegalRanges ==
  ASSUME NEW lines \in Seq(Lines), \A i \in DOMAIN lines : LegalLine(lines[i]), NEW word \in RangeWords
  PROVE  RangeIn(ReadBlock(lines), word) \in [1..4 -> Int] /\ PairedRange(RangeIn(ReadBlock(lines), word))
<1>1. PICK n \in Nat : n = Len(lines) /\ DOMAIN lines = 1..n
  OBVIOUS
<1>2. PICK f : ReadsOf(lines, f)
  BY Reads
<1>3. /\ f \in [0..n -> Blocks(lines)] /\ ReadBlock(lines) = f[n] /\ f[0] = NoBlock
      /\ \A j \in 1..n : f[j] = ReadLine(f[j - 1], lines[j])
  BY <1>1, <1>2, Zenon DEF ReadsOf
<1>4. PICK S : S = {j \in 0..n : PairedRange(RangeIn(f[j], word))}
  OBVIOUS
<1>5. 0 \in S
  <2>1. RangeIn(NoBlock, word) = NoRange
    BY DEF RangeIn, NoBlock
  <2>2. PairedRange(NoRange)
    BY DEF PairedRange, NoRange
  <2> QED BY <1>3, <1>4, <2>1, <2>2
<1>6. ASSUME NEW k \in 0..(n - 1), k \in S PROVE k + 1 \in S
  <2>1. PICK j \in 1..n : j = k + 1
    OBVIOUS
  <2>2. j - 1 = k /\ j \in 0..n /\ k \in 0..n
    BY <2>1
  <2>3. PICK b, c, l : b = f[k] /\ c = f[j] /\ l = lines[j]
    OBVIOUS
  <2>4. b \in Blocks(lines) /\ c = ReadLine(b, l) /\ l \in Lines /\ LegalLine(l)
    BY <1>1, <1>3, <2>2, <2>3
  <2>5. RangeIn(c, word) = IF l.word = word THEN Overwritten(RangeIn(b, word), l.n) ELSE RangeIn(b, word)
    BY <2>4, ReadRanges
  <2>6. PICK x : x = RangeIn(b, word)
    OBVIOUS
  <2>7. x \in [1..4 -> Int] /\ PairedRange(x)
    BY <1>4, <1>6, <2>3, <2>4, <2>6, RangeInIs
  <2>8. l.word = word => PairedRange(Overwritten(x, l.n))
    <3>1. l.n \in Seq(Int)
      BY <2>4 DEF Lines
    <3> QED BY <2>4, <2>7, <3>1, LegalRange, OverwrittenPaired
  <2>9. PairedRange(RangeIn(c, word))
    BY <2>5, <2>6, <2>7, <2>8
  <2> QED BY <1>4, <2>1, <2>2, <2>3, <2>9
<1>7. n \in S
  <2>1. 0..n \subseteq S
    BY <1>5, <1>6, UpTo
  <2> QED BY <2>1
<1>8. RangeIn(ReadBlock(lines), word) \in [1..4 -> Int]
  BY ReadBlockIs, RangeInIs
<1> QED BY <1>3, <1>4, <1>7, <1>8

-----------------------------------------------------------------------------
(* The windows of musrt0.                                                  *)

Windows ==
  [side : Sides, run : 0..setup.addRuns, histo : Histos, t0 : BOOLEAN, ranges : BOOLEAN]

LEMMA HistosAre ==
  ASSUME setup \in Setups
  PROVE  /\ \E n \in Nat \ {0} : Histos = 1..n /\ setup.detectors = IF setup.single THEN n ELSE 2*n
         /\ \A side \in Sides, h \in Histos :
              DetectorOf(side, h) \in Detectors /\ T0Index(side, h) = DetectorOf(side, h)
         /\ \A side \in Sides : RangeIndex(side, 1) \in 1..4 /\ RangeIndex(side, 2) \in 1..4
<1>1. PICK k \in Nat \ {0} : k = setup.detectors /\ Detectors = 1..k
  BY SetupIs
<1>2. setup.single \in BOOLEAN /\ (setup.single \/ k % 2 = 0)
  BY <1>1, SetupsAssumption
<1>3. PICK n \in Nat \ {0} : Histos = 1..n /\ k = IF setup.single THEN n ELSE 2*n
  <2>1. CASE setup.single
    BY <1>1, <2>1 DEF Histos
  <2>2. CASE ~setup.single
    <3>1. k \div 2 \in Nat \ {0} /\ k = 2*(k \div 2)
      BY <1>2, <2>2
    <3>2. Histos = 1..(k \div 2)
      BY <1>1, <2>2 DEF Histos
    <3> QED BY <2>2, <3>1, <3>2
  <2> QED BY <2>1, <2>2
<1>4. ASSUME NEW side \in Sides, NEW h \in Histos
      PROVE  DetectorOf(side, h) \in Detectors /\ T0Index(side, h) = DetectorOf(side, h)
  <2>1. CASE setup.single
    BY <1>1, <1>3, <2>1 DEF DetectorOf, T0Index
  <2>2. CASE ~setup.single
    <3>1. side = 1 \/ side = 2
      BY <2>2 DEF Sides
    <3>2. h \in 1..n /\ k = 2*n
      BY <1>3, <2>2
    <3>3. DetectorOf(side, h) = 2*(h - 1) + side /\ T0Index(side, h) = 2*h - 1 + (side - 1)
      BY <2>2 DEF DetectorOf, T0Index
    <3> QED BY <1>1, <3>1, <3>2, <3>3
  <2> QED BY <2>1, <2>2
<1>5. \A side \in Sides : RangeIndex(side, 1) \in 1..4 /\ RangeIndex(side, 2) \in 1..4
  <2>1. \A side \in Sides : side = 1 \/ side = 2
    BY DEF Sides
  <2> QED BY <2>1 DEF RangeIndex
<1> QED BY <1>1, <1>3, <1>4, <1>5

LEMMA T0ItemsAre ==
  ASSUME setup \in Setups, NEW side \in Sides
  PROVE  T0Items(side) \in Seq(Windows) /\ Len(T0Items(side)) >= 1
<1>1. PICK n \in Nat \ {0} : Histos = 1..n
  BY HistosAre
<1>2. PICK m \in Nat : m = setup.addRuns
  BY SetupIs
<1>3. PICK X, plain : X = Windows /\ plain = Plain /\ plain \in BOOLEAN
  BY DEF Plain
<1>4. PICK seqs : seqs = [r \in 1..(m + 1) |->
        [h \in Histos |-> [side |-> side, run |-> r - 1, histo |-> h, t0 |-> TRUE, ranges |-> plain]]]
  OBVIOUS
<1>5. ASSUME NEW r \in 1..(m + 1) PROVE seqs[r] \in Seq(X) /\ Len(seqs[r]) = n
  <2>1. r - 1 \in 0..m
    OBVIOUS
  <2>2. ASSUME NEW h \in 1..n
        PROVE  [side |-> side, run |-> r - 1, histo |-> h, t0 |-> TRUE, ranges |-> plain] \in X
    BY <1>1, <1>2, <1>3, <2>1 DEF Windows
  <2>3. PICK s : s = [h \in 1..n |-> [side |-> side, run |-> r - 1, histo |-> h, t0 |-> TRUE, ranges |-> plain]]
    OBVIOUS
  <2>4. s \in [1..n -> X]
    BY <2>2, <2>3
  <2>5. s \in Seq(X) /\ Len(s) = n
    BY <2>4
  <2> QED BY <1>1, <1>4, <2>3, <2>5
<1>6. seqs \in Seq(Seq(X)) /\ Len(seqs) = m + 1
  <2>1. PICK T : T = Seq(X)
    OBVIOUS
  <2>2. PICK z \in Nat : z = m + 1
    OBVIOUS
  <2>3. seqs \in [1..z -> T]
    BY <1>4, <1>5, <2>1, <2>2
  <2>4. seqs \in Seq(T) /\ Len(seqs) = z
    BY <2>3
  <2> QED BY <2>1, <2>2, <2>4
<1>7. PICK items : items = FlattenSeq(seqs) /\ items \in Seq(X)
  BY <1>6, FlattenIs
<1>8. T0Items(side) = items
  BY <1>2, <1>3, <1>4, <1>7 DEF T0Items
<1>9. Len(items) >= 1
  <2>1. 1 \in 1..(m + 1) /\ 1 \in 1..n
    OBVIOUS
  <2>2. 1 \in 1..Len(seqs) /\ 1 \in 1..Len(seqs[1])
    BY <1>5, <1>6, <2>1
  <2>3. \E j \in 1..Len(items) : items[j] = seqs[1][1]
    BY <1>6, <1>7, <2>2, FlattenHasAll, SMTT(30)
  <2>4. Len(items) \in Nat
    BY <1>7
  <2> QED BY <2>3, <2>4
<1> QED BY <1>3, <1>7, <1>8, <1>9

LEMMA ItemsAre ==
  ASSUME setup \in Setups
  PROVE  Items \in Seq(Windows) /\ Len(Items) >= 1
<1>1. PICK X : X = Windows
  OBVIOUS
<1>2. PICK n \in Nat \ {0} : n = Len(SideSeq) /\ DOMAIN SideSeq = 1..n /\ \A i \in 1..n : SideSeq[i] \in Sides
  <2>1. CASE setup.single
    <3>1. SideSeq = <<1>> /\ 1 \in Sides
      BY <2>1 DEF SideSeq, Sides
    <3> QED BY <3>1
  <2>2. CASE ~setup.single
    <3>1. SideSeq = <<1, 2>> /\ 1 \in Sides /\ 2 \in Sides
      BY <2>2 DEF SideSeq, Sides
    <3>2. Len(SideSeq) = 2 /\ DOMAIN SideSeq = 1..2 /\ SideSeq[1] = 1 /\ SideSeq[2] = 2
      BY <3>1
    <3>3. \A i \in 1..2 : SideSeq[i] \in Sides
      BY <3>1, <3>2
    <3> QED BY <3>2, <3>3
  <2> QED BY <2>1, <2>2
<1>3. PICK T : T = Seq(X)
  OBVIOUS
<1>4. PICK s1, s2 : /\ s1 = [i \in DOMAIN SideSeq |-> T0Items(SideSeq[i])]
                    /\ s2 = [i \in DOMAIN SideSeq |-> RangeItems(SideSeq[i])]
  OBVIOUS
<1>5. ASSUME NEW i \in 1..n PROVE T0Items(SideSeq[i]) \in T /\ Len(T0Items(SideSeq[i])) >= 1
  BY <1>1, <1>2, <1>3, T0ItemsAre
<1>6. ASSUME NEW i \in 1..n PROVE RangeItems(SideSeq[i]) \in T
  <2>1. PICK w : w = [side |-> SideSeq[i], run |-> 0, histo |-> 1, t0 |-> FALSE, ranges |-> TRUE]
    OBVIOUS
  <2>2. 1 \in Histos /\ 0 \in 0..setup.addRuns
    <3>1. setup.addRuns \in Nat
      BY SetupIs
    <3> QED BY <3>1, HistosAre
  <2>3. w \in X
    BY <1>1, <1>2, <2>1, <2>2 DEF Windows
  <2>4. <<w>> \in Seq(X) /\ <<>> \in Seq(X)
    BY <2>3
  <2> QED BY <1>3, <2>1, <2>4 DEF RangeItems
<1>7. s1 \in Seq(T) /\ s2 \in Seq(T) /\ Len(s1) = n
  <2>1. s1 \in [1..n -> T] /\ s2 \in [1..n -> T]
    BY <1>2, <1>4, <1>5, <1>6
  <2> QED BY <2>1
<1>8. PICK f1, f2 : f1 = FlattenSeq(s1) /\ f2 = FlattenSeq(s2) /\ f1 \in Seq(X) /\ f2 \in Seq(X)
  <2>1. s1 \in Seq(Seq(X)) /\ s2 \in Seq(Seq(X))
    BY <1>3, <1>7
  <2>2. FlattenSeq(s1) \in Seq(X)
    BY <2>1, FlattenIs
  <2>3. FlattenSeq(s2) \in Seq(X)
    BY <2>1, FlattenIs
  <2> QED BY <2>2, <2>3
<1>9. Items = f1 \o f2
  BY <1>4, <1>8 DEF Items
<1>10. Len(f1) >= 1
  <2>1. PICK x : x = s1[1]
    OBVIOUS
  <2>2. x \in Seq(X) /\ Len(x) >= 1
    BY <1>2, <1>3, <1>4, <1>5, <2>1
  <2>3. 1 \in 1..Len(s1) /\ 1 \in 1..Len(s1[1])
    BY <1>7, <2>1, <2>2
  <2>4. s1 \in Seq(Seq(X))
    BY <1>3, <1>7
  <2>5. \E j \in 1..Len(f1) : f1[j] = s1[1][1]
    BY <1>8, <2>3, <2>4, FlattenHasAll
  <2> QED BY <1>8, <2>5
<1> QED BY <1>1, <1>8, <1>9, <1>10

-----------------------------------------------------------------------------
(* The t0's of a block: those of the run are row 0, those of an addrun     *)
(* their own row.  In a file, and in what is read of it and fitted, the    *)
(* user's t0's are there, a t0 that has been set with musrt0 is the one    *)
(* that has been set, if there is a place for it, and another one is the   *)
(* one that is meant, if the user has written all or none.                 *)

T0Phases == {"window", "peak", "written"}

Row(b, r) == IF r = 0 THEN b.t0 ELSE IF r \in DOMAIN b.addT0 THEN b.addT0[r] ELSE <<>>

CanPlace == HasPlace /\ ~setup.isis

UsersT0s(b) ==
  \A r \in 0..setup.addRuns : \A d \in Detectors : d \in DOMAIN Row(UsersRun, r) => d \in DOMAIN Row(b, r)

KeptT0s(b, c) ==
  \A r \in 0..setup.addRuns : \A d \in Detectors :
    c.t0[r][d] # NotSet => d \in DOMAIN Row(b, r) /\ Row(b, r)[d] = c.t0[r][d]

TheirT0s(b, c) ==
  \A r \in 0..setup.addRuns : \A d \in Detectors :
    c.t0[r][d] = NotSet /\ d \in DOMAIN Row(b, r) => Row(b, r)[d] = MeantT0(r, d)

T0sOf(b, c) ==
  UsersT0s(b) /\ (CanPlace => KeptT0s(b, c)) /\ (Complete => TheirT0s(b, c))

LEMMA RowIs ==
  ASSUME NEW b \in Block, NEW r \in Nat
  PROVE  /\ Row(b, r) \in Seq(Int) /\ Len(Row(b, r)) \in Nat /\ DOMAIN Row(b, r) = 1..Len(Row(b, r))
         /\ r = 0 => Row(b, r) = b.t0
         /\ r \in 1..Len(b.addT0) => Row(b, r) = b.addT0[r]
         /\ r # 0 /\ r \notin 1..Len(b.addT0) => Row(b, r) = <<>>
<1>1. b.t0 \in Seq(Int) /\ b.addT0 \in Seq(Seq(Int)) BY BlockIs
<1>2. DOMAIN b.addT0 = 1..Len(b.addT0) BY <1>1, LenProperties
<1>3. r = 0 => Row(b, r) = b.t0 BY DEF Row
<1>4. r \in 1..Len(b.addT0) => Row(b, r) = b.addT0[r] /\ b.addT0[r] \in Seq(Int)
  BY <1>1, <1>2, ElementOfSeq DEF Row
<1>5. r # 0 /\ r \notin 1..Len(b.addT0) => Row(b, r) = <<>> BY <1>2 DEF Row
<1>6. Row(b, r) \in Seq(Int) BY <1>1, <1>3, <1>4, <1>5, EmptySeq
<1> QED BY <1>3, <1>4, <1>5, <1>6, LenProperties

(* What is written of each row, if every addrun has t0's or none has and   *)
(* there is no line for one.                                               *)
Ready(f, b) ==
  \/ NoEmpty(b.addT0) /\ Len(b.addT0) >= setup.addRuns
  \/ f.addT0 = <<>> /\ (CanPlace => b.addT0 = <<>>)

RowWritten(f, b, g, r) ==
  \/ Row(g, r) = Row(b, r)
  \/ Row(g, r) = <<>> /\ Row(f, r) = <<>> /\ (CanPlace => Row(b, r) = <<>>)

LEMMA RowsWritten ==
  ASSUME setup \in Setups, NEW lines \in Seq(Lines), NEW b, Writable(lines, b),
         Once(lines, {"t0"}), Once(lines, FitWords), HasAny(lines, FitWords) <=> HasPlace,
         NEW f, f = ReadBlock(lines), Ready(f, b),
         NEW g, g = ReadBlock(WriteRun(lines, b, setup.isis)), AddT0sMatch(setup.addRuns, g)
  PROVE  \A r \in 0..setup.addRuns : RowWritten(f, b, g, r)
<1>1. setup.addRuns \in Nat /\ setup.isis \in BOOLEAN BY SetupIs
<1>2. b \in Block BY DEF Writable
<1>3. Len(b.addT0) \in Nat /\ b.addT0 \in Seq(Seq(Int)) /\ DOMAIN b.addT0 = 1..Len(b.addT0) BY <1>2, BlockIs, LenProperties
<1>4. WrittenAgain(lines, b, setup.isis, Len(lines), WriteRun(lines, b, setup.isis)) BY <1>1, WrittenOnce
<1>5. g.t0 = IF HasSource(lines, setup.isis, Len(lines)) THEN b.t0 ELSE <<>> BY <1>4 DEF WrittenAgain
<1>6. DOMAIN lines = 1..Len(lines) BY LenProperties
<1>7. RowWritten(f, b, g, 0)
  <2>1. CASE HasSource(lines, setup.isis, Len(lines)) BY <1>5, <2>1 DEF RowWritten, Row
  <2>2. CASE ~HasSource(lines, setup.isis, Len(lines))
    <3>1. ~Has(lines, "t0") BY <1>6, <2>2 DEF Has, HasSource, T0Source
    <3>2. f.t0 = <<>> BY <3>1, HasT0
    <3>3. ~CanPlace BY <1>6, <2>2, <3>1 DEF HasAny, CanPlace, HasSource, T0Source
    <3> QED BY <1>5, <2>2, <3>2, <3>3 DEF RowWritten, Row
  <2> QED BY <2>1, <2>2
<1>8. AddT0LinesBefore(lines, Len(lines) + 1) = Len(f.addT0) BY AddT0sCounted
<1>9. f.addT0 \in Seq(Seq(Int)) /\ (Len(f.addT0) = 0 <=> f.addT0 = <<>>)
  BY ReadBlockIs, EmptySeq DEF Blocks
<1>10. ASSUME NEW r \in 1..setup.addRuns PROVE RowWritten(f, b, g, r)
  <2>1. CASE NoEmpty(b.addT0) /\ Len(b.addT0) >= setup.addRuns
    <3>1. g.addT0 \in Seq(Seq(Int)) /\ \A k \in 1..Len(b.addT0) : k <= Len(g.addT0) => g.addT0[k] = b.addT0[k]
      BY <1>1, <2>1, WrittenAddT0s
    <3>2. f.addT0 # <<>> => g.addT0 # <<>>
      BY <1>1, <1>8, <1>9, <2>1, WrittenAddT0s
    <3>3. CanPlace => Len(g.addT0) >= Len(b.addT0)
      <4>1. CanPlace => ~setup.isis /\ \E j \in 1..Len(lines) : lines[j].word \in FitWords
        BY <1>6 DEF CanPlace, HasAny
      <4>2. (\E j \in 1..Len(lines) : lines[j].word \in FitWords) /\ ~setup.isis => Len(g.addT0) >= Len(b.addT0)
        BY <1>1, <2>1, WrittenAddT0s
      <4> QED BY <4>1, <4>2
    <3>4. Len(g.addT0) \in {0, setup.addRuns} BY <1>1 DEF AddT0sMatch
    <3>5. DOMAIN g.addT0 = 1..Len(g.addT0) BY <3>1, LenProperties
    <3>6. CASE Len(g.addT0) = setup.addRuns
      <4>1. r # 0 /\ r \in 1..Len(b.addT0) /\ r \in 1..Len(g.addT0) /\ r <= Len(g.addT0)
        BY <1>1, <1>3, <2>1, <3>6
      <4>2. Row(g, r) = g.addT0[r] /\ Row(b, r) = b.addT0[r] BY <1>3, <3>5, <4>1 DEF Row
      <4>3. g.addT0[r] = b.addT0[r] BY <3>1, <4>1
      <4> QED BY <4>2, <4>3 DEF RowWritten
    <3>7. CASE Len(g.addT0) = 0
      <4>1. g.addT0 = <<>> BY <3>1, <3>7, EmptySeq
      <4>2. f.addT0 = <<>> BY <3>2, <4>1
      <4>3. ~CanPlace BY <1>1, <1>3, <2>1, <3>3, <3>7
      <4> QED BY <4>1, <4>2, <4>3 DEF RowWritten, Row
    <3> QED BY <3>4, <3>6, <3>7
  <2>2. CASE f.addT0 = <<>> /\ (CanPlace => b.addT0 = <<>>)
    <3>1. AddT0LinesBefore(lines, Len(lines) + 1) = 0 BY <1>8, <1>9, <2>2
    <3>2. setup.isis \/ (\A j \in 1..Len(lines) : lines[j].word \notin FitWords) \/ b.addT0 = <<>>
      BY <1>6, <2>2 DEF CanPlace, HasAny
    <3>3. g.addT0 = <<>> BY <1>1, <3>1, <3>2, NoAddT0sWritten
    <3> QED BY <2>2, <3>3 DEF RowWritten, Row
  <2> QED BY <2>1, <2>2 DEF Ready
<1> QED BY <1>1, <1>7, <1>10

(* So the next session reads the t0's as they have been.                   *)
LEMMA WrittenT0sOf ==
  ASSUME NEW f, NEW b, NEW g, NEW c, \A r \in 0..setup.addRuns : RowWritten(f, b, g, r),
         UsersT0s(f), T0sOf(b, c)
  PROVE  T0sOf(g, c)
<1>1. DOMAIN <<>> = {} OBVIOUS
<1>2. UsersT0s(g) BY <1>1 DEF UsersT0s, T0sOf, RowWritten
<1>3. CanPlace => KeptT0s(g, c) BY <1>1 DEF KeptT0s, T0sOf, RowWritten
<1>4. Complete => TheirT0s(g, c) BY <1>1 DEF TheirT0s, T0sOf, RowWritten
<1> QED BY <1>2, <1>3, <1>4 DEF T0sOf

(* What musrt0 does to the block of a file, in as far as it can be told     *)
(* from what has been set: t0's are added up to one that has been set, and *)
(* the others are kept.                                                    *)
Grown(f, b, c) ==
  /\ \A r \in 0..setup.addRuns :
       /\ Len(Row(f, r)) <= Len(Row(b, r))
       /\ \A d \in Detectors : d \in DOMAIN Row(f, r) /\ c.t0[r][d] = NotSet => Row(b, r)[d] = Row(f, r)[d]
       /\ \A d \in DOMAIN Row(b, r) : d > Len(Row(f, r)) => \E e \in Detectors : e >= d /\ c.t0[r][e] # NotSet
  /\ Len(f.addT0) <= Len(b.addT0)
  /\ \A k \in DOMAIN b.addT0 : k > Len(f.addT0) =>
       \E l \in 1..setup.addRuns : \E d \in Detectors : l >= k /\ c.t0[l][d] # NotSet
  /\ setup.addRuns = 0 => b.addT0 = f.addT0

LEMMA T0SetIs ==
  ASSUME NEW c, NEW r \in 0..setup.addRuns, NEW d \in T0Set(c, r)
  PROVE  d \in Detectors /\ (c.t0[r][d] # NotSet \/ d \in DOMAIN Row(UsersRun, r))
<1>1. d \in Detectors /\ (c.t0[r][d] # NotSet
        \/ (IF r = 0 THEN GetAt(UsersRun.t0, d) ELSE GetAddT0(UsersRun, r, d)) # None)
  BY DEF T0Set
<1>2. r = 0 /\ GetAt(UsersRun.t0, d) # None => d \in DOMAIN Row(UsersRun, r) BY DEF GetAt, Row
<1>3. r # 0 /\ GetAddT0(UsersRun, r, d) # None => d \in DOMAIN Row(UsersRun, r)
  BY DEF GetAt, GetAddT0, Row
<1> QED BY <1>1, <1>2, <1>3

(* With no gaps there are t0's for all addruns or for none.                *)
LEMMA GrownReady ==
  ASSUME setup \in Setups, NEW f \in Block, NEW b \in Block, Known(f), AddT0sMatch(setup.addRuns, f),
         NEW c, Grown(f, b, c), NoGaps(c), UsersT0s(f), CanPlace => KeptT0s(b, c)
  PROVE  Ready(f, b)
<1>1. PICK n \in Nat : n = setup.addRuns BY SetupIs
<1>2. PICK m \in Nat : m = Len(b.addT0) BY BlockIs
<1>3. PICK l \in Nat : l = Len(f.addT0) BY BlockIs
<1>4. /\ b.addT0 \in Seq(Seq(Int)) /\ f.addT0 \in Seq(Seq(Int)) /\ DOMAIN b.addT0 = 1..m /\ DOMAIN f.addT0 = 1..l
      /\ (b.addT0 = <<>> <=> m = 0) /\ (f.addT0 = <<>> <=> l = 0)
  BY <1>2, <1>3, BlockIs, LenProperties, EmptySeq
<1>5. CASE n = 0
  <2>1. b.addT0 = f.addT0 BY <1>1, <1>5 DEF Grown
  <2> QED BY <1>1, <1>3, <1>5, <2>1 DEF Ready, Known
<1>6. CASE n # 0
  <2>1. l \in {0, n} BY <1>1, <1>3, <1>6 DEF AddT0sMatch
  <2>2. ASSUME NEW k \in 1..m, k > l PROVE k <= n /\ \E j \in 1..n : \E d \in Detectors : c.t0[j][d] # NotSet
    <3>1. PICK j \in 1..n : \E d \in Detectors : j >= k /\ c.t0[j][d] # NotSet BY <1>1, <1>3, <1>4, <2>2 DEF Grown
    <3> QED BY <3>1
  <2>3. CASE l = n
    <3>1. n <= m BY <1>2, <1>3, <2>3 DEF Grown
    <3>2. m = n BY <2>2, <2>3, <3>1
    <3>3. ASSUME NEW k \in 1..m PROVE b.addT0[k] # <<>>
      <4>1. k \in 0..setup.addRuns BY <1>1, <3>2
      <4>2. Len(Row(f, k)) <= Len(Row(b, k)) BY <4>1 DEF Grown
      <4>3. k \in Nat /\ k \in 1..Len(f.addT0) /\ k \in 1..Len(b.addT0) BY <1>2, <1>3, <2>3, <3>2
      <4>8. Row(f, k) = f.addT0[k] /\ Row(b, k) = b.addT0[k] BY <4>3, RowIs, Zenon
      <4>4. f.addT0[k] # <<>> BY <1>3, <2>3, <3>2 DEF Known, NoEmpty
      <4>5. f.addT0[k] \in Seq(Int) BY <1>4, <2>3, <3>2, ElementOfSeq, <1>3
      <4>6. Len(f.addT0[k]) > 0 BY <4>4, <4>5, EmptySeq, LenProperties
      <4>7. Len(<<>>) = 0 BY EmptySeq
      <4> QED BY <4>2, <4>8, <4>6, <4>7
    <3> QED BY <1>1, <1>2, <3>1, <3>3 DEF Ready, NoEmpty
  <2>4. CASE l = 0 /\ CanPlace /\ m > 0
    <3>1. PICK j \in 1..n : \E d \in Detectors : c.t0[j][d] # NotSet
      <4>1. 1 \in 1..m /\ 1 > l BY <2>4
      <4> QED BY <2>2, <4>1
    <3>2. T0Set(c, j) # {} BY <3>1 DEF T0Set
    <3>3. ASSUME NEW k \in 1..n PROVE k <= m /\ (k <= m => b.addT0[k] # <<>>)
      <4>1. T0Set(c, k) # {} BY <1>1, <3>1, <3>2 DEF NoGaps
      <4>2. k \in 0..setup.addRuns BY <1>1
      <4>3. PICK d \in T0Set(c, k) : d \in Detectors /\ (c.t0[k][d] # NotSet \/ d \in DOMAIN Row(UsersRun, k))
        BY <4>1, <4>2, T0SetIs
      <4>8. k \in Nat /\ k # 0 /\ k \notin 1..Len(f.addT0) BY <1>3, <2>4
      <4>4. Row(f, k) = <<>> BY <4>8, RowIs, Zenon
      <4>5. d \notin DOMAIN Row(UsersRun, k) BY <4>2, <4>3, <4>4 DEF UsersT0s
      <4>6. d \in DOMAIN Row(b, k) BY <2>4, <4>2, <4>3, <4>5 DEF KeptT0s
      <4>7. k \in DOMAIN b.addT0 /\ b.addT0[k] # <<>> BY <4>6 DEF Row
      <4> QED BY <1>4, <4>7
    <3>4. ASSUME NEW k \in 1..m PROVE b.addT0[k] # <<>>
      <4>1. k <= n BY <2>2, <2>4
      <4> QED BY <3>3, <4>1
    <3>5. n <= m BY <1>6, <3>3
    <3> QED BY <1>1, <1>2, <3>4, <3>5 DEF Ready, NoEmpty
  <2>5. CASE l = 0 /\ (~CanPlace \/ m = 0) BY <1>4, <2>5 DEF Ready
  <2> QED BY <2>1, <2>3, <2>4, <2>5
<1> QED BY <1>5, <1>6

(* And what has been filled up is a user's t0, or has been set itself.      *)
LEMMA GrownTheirs ==
  ASSUME setup \in Setups, NEW f \in Block, NEW b \in Block, NEW c, Grown(f, b, c), NoGaps(c), UsersT0s(f),
         NEW w, \A r \in 0..setup.addRuns : \A d \in Detectors : w.t0[r][d] # NotSet => c.t0[r][d] # NotSet,
         T0sOf(f, w), CanPlace => KeptT0s(b, c)
  PROVE  T0sOf(b, c)
<1>0. setup.addRuns \in Nat /\ setup.detectors \in Nat /\ Detectors = 1..setup.detectors BY SetupIs
<1>1. ASSUME NEW r \in 0..setup.addRuns
      PROVE  /\ DOMAIN Row(f, r) = 1..Len(Row(f, r)) /\ DOMAIN Row(b, r) = 1..Len(Row(b, r))
             /\ Len(Row(f, r)) \in Nat /\ Len(Row(b, r)) \in Nat /\ Len(Row(f, r)) <= Len(Row(b, r))
  <2>1. r \in Nat BY <1>0
  <2> QED BY <2>1, RowIs DEF Grown
<1>2. UsersT0s(b)
  <2>1. ASSUME NEW r \in 0..setup.addRuns PROVE DOMAIN Row(f, r) \subseteq DOMAIN Row(b, r) BY <1>1
  <2> QED BY <2>1 DEF UsersT0s
<1>3. ASSUME Complete PROVE TheirT0s(b, c)
  <2>1. SUFFICES ASSUME NEW r \in 0..setup.addRuns, NEW d \in Detectors, c.t0[r][d] = NotSet, d \in DOMAIN Row(b, r)
                 PROVE  Row(b, r)[d] = MeantT0(r, d)
    BY DEF TheirT0s
  <2>2. w.t0[r][d] = NotSet BY <2>1
  <2>3. CASE d <= Len(Row(f, r))
    <3>1. d \in DOMAIN Row(f, r) BY <1>0, <1>1, <2>3
    <3>2. Row(b, r)[d] = Row(f, r)[d] BY <2>1, <3>1 DEF Grown
    <3>3. Row(f, r)[d] = MeantT0(r, d) BY <1>3, <2>2, <3>1 DEF T0sOf, TheirT0s
    <3> QED BY <3>2, <3>3
  <2>4. CASE d > Len(Row(f, r))
    <3>1. PICK e \in Detectors : e >= d /\ c.t0[r][e] # NotSet BY <2>1, <2>4 DEF Grown
    <3>2. e \in T0Set(c, r) BY <3>1 DEF T0Set
    <3>3. d \in 1..e BY <1>0, <3>1
    <3>4. d \in T0Set(c, r) BY <3>2, <3>3 DEF NoGaps, Prefix
    <3>5. d \in DOMAIN Row(UsersRun, r) BY <2>1, <3>4, T0SetIs
    <3>6. d \in DOMAIN Row(f, r) BY <3>5 DEF UsersT0s
    <3> QED BY <1>1, <2>4, <3>6
  <2>5. d \in Nat /\ Len(Row(f, r)) \in Nat BY <1>0, <1>1
  <2> QED BY <2>3, <2>4, <2>5
<1> QED BY <1>2, <1>3 DEF T0sOf

-----------------------------------------------------------------------------
(* What the keys and -g set in a block.                                    *)

LEMMA EnterAddT0 ==
  ASSUME NEW b \in Block, NEW k \in Nat \ {0}, NEW d \in Nat \ {0}, NEW v \in Int,
         NEW c, c = SetAddT0(b, k, d, v)
  PROVE  /\ c.data = b.data /\ c.bkg = b.bkg
         /\ Row(c, k) = SetAt(Row(b, k), d, v)
         /\ \A r \in Nat : r # k => Row(c, r) = Row(b, r)
<1>1. PICK a, T : a = b.addT0 /\ T = Seq(Int)
  OBVIOUS
<1>2. a \in Seq(T)
  BY <1>1, BlockIs
<1>3. PICK n \in Nat : n = Len(a)
  BY <1>2
<1>4. PICK more : more = [j \in 1..(k - n) |-> <<>>]
  OBVIOUS
<1>5. <<>> \in T
  BY <1>1
<1>6. PICK grown : grown = a \o more
  OBVIOUS
<1>7. PICK g \in Nat : g = IF k <= n THEN n ELSE k
  OBVIOUS
<1>8. /\ DOMAIN grown = 1..g /\ k \in 1..g /\ n <= g
      /\ \A j \in 1..n : grown[j] = a[j]
      /\ \A j \in 1..g : j > n => grown[j] = <<>>
  <2>1. CASE k <= n
    <3>1. more = <<>>
      BY <1>4, <2>1
    <3>2. grown = a
      BY <1>2, <1>6, <3>1, ConcatEmptySeq
    <3> QED BY <1>2, <1>3, <1>7, <2>1, <3>2
  <2>2. CASE k > n
    <3>1. k - n \in Nat
      BY <2>2
    <3>2. more \in Seq(T) /\ Len(more) = k - n
      BY <1>4, <1>5, <3>1
    <3>3. Len(grown) = n + (k - n) /\ DOMAIN grown = 1..Len(grown) /\ \A j \in 1..n : grown[j] = a[j]
      BY <1>2, <1>3, <1>6, <3>2
    <3>4. ASSUME NEW j \in 1..g, j > n PROVE grown[j] = <<>>
      <4>1. j - n \in 1..(k - n) /\ j \in 1..(n + Len(more)) /\ j > Len(a)
        BY <1>3, <1>7, <2>2, <3>2, <3>4
      <4>2. grown[j] = more[j - n]
        BY <1>2, <1>3, <1>6, <3>2, <4>1
      <4> QED BY <1>4, <4>1, <4>2
    <3> QED BY <1>7, <2>2, <3>3, <3>4
  <2> QED BY <2>1, <2>2
<1>9. PICK x, y : x = grown[k] /\ y = SetAt(x, d, v)
  OBVIOUS
<1>10. PICK z : z = [grown EXCEPT ![k] = y]
  OBVIOUS
<1>11. DOMAIN z = 1..g /\ z[k] = y /\ \A j \in 1..g : j # k => z[j] = grown[j]
  BY <1>8, <1>10
<1>12. c = [b EXCEPT !.addT0 = z]
  BY <1>1, <1>3, <1>4, <1>6, <1>9, <1>10 DEF SetAddT0
<1>13. c.addT0 = z /\ c.t0 = b.t0 /\ c.data = b.data /\ c.bkg = b.bkg
  BY <1>12 DEF Block
<1>14. DOMAIN a = 1..n
  BY <1>2, <1>3, LenProperties
<1>15. ASSUME NEW j \in 1..g PROVE Row(b, j) = grown[j]
  <2>1. j # 0
    OBVIOUS
  <2>2. CASE j \in 1..n BY <1>1, <1>8, <1>14, <2>1, <2>2 DEF Row
  <2>3. CASE j > n
    <3>1. j \notin 1..n BY <2>3
    <3> QED BY <1>1, <1>8, <1>14, <2>1, <2>3, <3>1 DEF Row
  <2> QED BY <2>2, <2>3
<1>16. ASSUME NEW r \in Nat, r # k PROVE Row(c, r) = Row(b, r)
  <2>1. CASE r = 0 BY <1>13, <2>1 DEF Row
  <2>2. CASE r \in 1..g
    <3>1. Row(c, r) = z[r] BY <1>11, <1>13, <2>2 DEF Row
    <3> QED BY <1>11, <1>15, <1>16, <2>2, <3>1
  <2>3. CASE r > g
    <3>1. r # 0 /\ r \notin 1..g /\ r \notin 1..n BY <1>8, <2>3
    <3> QED BY <1>1, <1>11, <1>13, <1>14, <3>1 DEF Row
  <2> QED BY <2>1, <2>2, <2>3
<1>17. Row(c, k) = y BY <1>8, <1>11, <1>13 DEF Row
<1>18. Row(b, k) = x BY <1>8, <1>9, <1>15
<1> QED BY <1>9, <1>13, <1>16, <1>17, <1>18

Entered(b, c, r, d, v) ==
  /\ c \in Block /\ c.data = b.data /\ c.bkg = b.bkg
  /\ Row(c, r) = SetAt(Row(b, r), d, v)
  /\ \A r2 \in Nat : r2 # r => Row(c, r2) = Row(b, r2)
  /\ Len(c.addT0) = IF r <= Len(b.addT0) THEN Len(b.addT0) ELSE r
  /\ r = 0 => c.addT0 = b.addT0

LEMMA EnterIs ==
  ASSUME NEW b \in Block, NEW r \in Nat, NEW d \in Nat \ {0}, NEW v \in Int, NEW c, c = Enter(b, r, d, v)
  PROVE  Entered(b, c, r, d, v)
<1>1. CASE r = 0
  <2>1. c = [b EXCEPT !.t0 = SetAt(@, d, v)] BY <1>1 DEF Enter
  <2>2. c \in Block /\ c.t0 = SetAt(b.t0, d, v) /\ c.addT0 = b.addT0 BY <2>1, WithT0IsBlock
  <2>3. PICK t : c = [b EXCEPT !.t0 = t] BY <2>1
  <2>4. c.data = b.data /\ c.bkg = b.bkg BY <2>3 DEF Block
  <2>5. Row(c, r) = SetAt(Row(b, r), d, v) /\ \A r2 \in Nat : r2 # r => Row(c, r2) = Row(b, r2)
    BY <1>1, <2>2 DEF Row
  <2>6. Len(b.addT0) \in Nat BY BlockIs
  <2> QED BY <1>1, <2>2, <2>4, <2>5, <2>6 DEF Entered
<1>2. CASE r # 0
  <2>1. c = SetAddT0(b, r, d, v) BY <1>2 DEF Enter
  <2>2. r \in Nat \ {0} BY <1>2
  <2>3. c \in Block /\ Len(c.addT0) = IF r <= Len(b.addT0) THEN Len(b.addT0) ELSE r
    <3>1. PICK k, e : k = r /\ e = SetAddT0(b, k, d, v) OBVIOUS
    <3>2. k \in Nat \ {0} BY <2>2, <3>1
    <3>3. e \in Block /\ Len(e.addT0) = IF k <= Len(b.addT0) THEN Len(b.addT0) ELSE k
      BY <3>1, <3>2, SetAddT0Is, SMTT(30)
    <3> QED BY <2>1, <3>1, <3>3
  <2>4. /\ c.data = b.data /\ c.bkg = b.bkg
        /\ Row(c, r) = SetAt(Row(b, r), d, v)
        /\ \A r2 \in Nat : r2 # r => Row(c, r2) = Row(b, r2)
    BY <2>1, <2>2, EnterAddT0
  <2> QED BY <1>2, <2>3, <2>4 DEF Entered
<1> QED BY <1>1, <1>2

AnyChoice ==
  [t0 : [0..setup.addRuns -> [Detectors -> Int \cup {NotSet}]],
   data : [1..4 -> Int \cup {NotSet}], bkg : [1..4 -> Int \cup {NotSet}]]

T0Chosen(x, y, r, d, v) ==
  /\ y \in AnyChoice /\ y.data = x.data /\ y.bkg = x.bkg /\ y.t0[r][d] = v
  /\ \A r2 \in 0..setup.addRuns, d2 \in Detectors : r2 # r \/ d2 # d => y.t0[r2][d2] = x.t0[r2][d2]

LEMMA ChoiceSet ==
  ASSUME NEW x \in AnyChoice, NEW r \in 0..setup.addRuns, NEW d \in Detectors, NEW v \in Int,
         NEW y, y = [x EXCEPT !.t0[r][d] = v]
  PROVE  T0Chosen(x, y, r, d, v)
<1>1. PICK V, W, R : V = Int \cup {NotSet} /\ W = [Detectors -> V] /\ R = [1..4 -> V]
  OBVIOUS
<1>2. PICK rows : rows = 0..setup.addRuns
  OBVIOUS
<1>3. AnyChoice = [t0 : [rows -> W], data : R, bkg : R]
  BY <1>1, <1>2 DEF AnyChoice
<1>4. PICK s : s = x.t0
  OBVIOUS
<1>5. s \in [rows -> W] /\ r \in rows /\ v \in V
  BY <1>1, <1>2, <1>3, <1>4
<1>6. s[r] \in [Detectors -> V]
  BY <1>1, <1>5
<1>7. PICK u : u = [s[r] EXCEPT ![d] = v]
  OBVIOUS
<1>8. u \in W /\ u[d] = v /\ \A d2 \in Detectors : d2 # d => u[d2] = s[r][d2]
  BY <1>1, <1>5, <1>6, <1>7
<1>9. PICK t : t = [s EXCEPT ![r] = u]
  OBVIOUS
<1>10. t \in [rows -> W] /\ t[r] = u /\ \A r2 \in rows : r2 # r => t[r2] = s[r2]
  BY <1>5, <1>8, <1>9
<1>11. y = [x EXCEPT !.t0 = t]
  BY <1>4, <1>7, <1>9
<1>12. y \in AnyChoice /\ y.t0 = t /\ y.data = x.data /\ y.bkg = x.bkg
  BY <1>3, <1>10, <1>11
<1>13. y.t0[r][d] = v
  BY <1>8, <1>10, <1>12
<1>14. ASSUME NEW r2 \in 0..setup.addRuns, NEW d2 \in Detectors, r2 # r \/ d2 # d
       PROVE  y.t0[r2][d2] = x.t0[r2][d2]
  BY <1>2, <1>4, <1>8, <1>10, <1>12, <1>14
<1> QED BY <1>12, <1>13, <1>14 DEF T0Chosen

SetIn(s, t, i, v) ==
  /\ Len(t) = (IF i <= Len(s) THEN Len(s) ELSE i) /\ t[i] = v
  /\ \A j \in 1..Len(s) : j # i => t[j] = s[j]

LEMMA SetInIs ==
  ASSUME NEW s \in Seq(Int), NEW i \in Nat \ {0}, NEW v \in Int, NEW t, t = SetAt(s, i, v)
  PROVE  SetIn(s, t, i, v)
BY SetAtIs DEF SetIn

LEMMA EnterGrown ==
  ASSUME setup \in Setups, NEW f \in Block, NEW b \in Block, NEW x \in AnyChoice, Grown(f, b, x),
         NEW r \in 0..setup.addRuns, NEW d \in Detectors, NEW v \in Int,
         NEW c, c = Enter(b, r, d, v), NEW y, y = [x EXCEPT !.t0[r][d] = v]
  PROVE  Grown(f, c, y) /\ (KeptT0s(b, x) => KeptT0s(c, y))
<1>1. setup.addRuns \in Nat /\ setup.detectors \in Nat /\ Detectors = 1..setup.detectors BY SetupIs
<1>2. r \in Nat /\ d \in Nat \ {0} BY <1>1
<1>0. Entered(b, c, r, d, v)
  <2>1. r \in Nat BY <1>2
  <2>2. d \in Nat \ {0} BY <1>2
  <2> QED BY <2>1, <2>2, EnterIs, Zenon
<1>3. v # NotSet BY MusrT0Assumption
<1>4. /\ c \in Block
      /\ Row(c, r) = SetAt(Row(b, r), d, v)
      /\ \A r2 \in Nat : r2 # r => Row(c, r2) = Row(b, r2)
      /\ Len(c.addT0) = IF r <= Len(b.addT0) THEN Len(b.addT0) ELSE r
      /\ r = 0 => c.addT0 = b.addT0
  BY <1>0 DEF Entered
<1>5. /\ y.t0[r][d] = v
      /\ \A r2 \in 0..setup.addRuns, d2 \in Detectors : r2 # r \/ d2 # d => y.t0[r2][d2] = x.t0[r2][d2]
  <2>1. T0Chosen(x, y, r, d, v) BY ChoiceSet, Zenon
  <2> QED BY <2>1 DEF T0Chosen
<1>6. ASSUME NEW r2 \in 0..setup.addRuns, NEW d2 \in Detectors PROVE x.t0[r2][d2] # NotSet => y.t0[r2][d2] # NotSet
  BY <1>3, <1>5
<1>7. PICK s \in Seq(Int), t \in Seq(Int), n \in Nat, m \in Nat :
        /\ s = Row(b, r) /\ t = Row(c, r) /\ n = Len(s) /\ m = Len(t)
        /\ DOMAIN s = 1..n /\ DOMAIN t = 1..m
  <2>1. r \in Nat BY <1>2
  <2>2. c \in Block BY <1>4
  <2>3. Row(b, r) \in Seq(Int) /\ Len(Row(b, r)) \in Nat /\ DOMAIN Row(b, r) = 1..Len(Row(b, r))
    BY <2>1, RowIs, Zenon
  <2>4. Row(c, r) \in Seq(Int) /\ Len(Row(c, r)) \in Nat /\ DOMAIN Row(c, r) = 1..Len(Row(c, r))
    BY <2>1, <2>2, RowIs, Zenon
  <2> QED BY <2>3, <2>4
<1>8. m = (IF d <= n THEN n ELSE d) /\ t[d] = v /\ \A j \in 1..n : j # d => t[j] = s[j]
  <2>1. t = SetAt(s, d, v) BY <1>4, <1>7
  <2>2. d \in Nat \ {0} BY <1>2
  <2>3. s \in Seq(Int) BY <1>7
  <2>4. SetIn(s, t, d, v) BY <2>1, <2>2, <2>3, SetInIs, Zenon
  <2> QED BY <1>7, <2>4 DEF SetIn
<1>9. ASSUME NEW r2 \in 0..setup.addRuns
      PROVE  /\ Len(Row(f, r2)) \in Nat /\ DOMAIN Row(f, r2) = 1..Len(Row(f, r2))
             /\ Len(Row(f, r2)) <= Len(Row(b, r2))
             /\ \A d2 \in Detectors : d2 \in DOMAIN Row(f, r2) /\ x.t0[r2][d2] = NotSet => Row(b, r2)[d2] = Row(f, r2)[d2]
             /\ \A d2 \in DOMAIN Row(b, r2) : d2 > Len(Row(f, r2)) => \E e \in Detectors : e >= d2 /\ x.t0[r2][e] # NotSet
  <2>1. r2 \in Nat BY <1>1
  <2> QED BY <2>1, RowIs DEF Grown
<1>10. ASSUME NEW r2 \in 0..setup.addRuns, r2 # r PROVE Row(c, r2) = Row(b, r2)
  BY <1>1, <1>4, <1>10
<1>11. ASSUME NEW r2 \in 0..setup.addRuns PROVE Len(Row(f, r2)) <= Len(Row(c, r2))
  <2>1. CASE r2 = r BY <1>7, <1>8, <1>9, <1>2, <2>1
  <2>2. CASE r2 # r BY <1>9, <1>10, <2>2
  <2> QED BY <2>1, <2>2
<1>12. ASSUME NEW r2 \in 0..setup.addRuns, NEW d2 \in Detectors, d2 \in DOMAIN Row(f, r2), y.t0[r2][d2] = NotSet
       PROVE  Row(c, r2)[d2] = Row(f, r2)[d2]
  <2>1. x.t0[r2][d2] = NotSet BY <1>6, <1>12
  <2>2. Row(b, r2)[d2] = Row(f, r2)[d2] BY <1>9, <1>12, <2>1
  <2>3. CASE r2 = r
    <3>1. d2 # d BY <1>3, <1>5, <1>12, <2>3
    <3>2. d2 \in 1..n BY <1>1, <1>7, <1>9, <1>12, <2>3
    <3> QED BY <1>7, <1>8, <2>2, <2>3, <3>1, <3>2
  <2>4. CASE r2 # r BY <1>10, <2>2, <2>4
  <2> QED BY <2>3, <2>4
<1>13. ASSUME NEW r2 \in 0..setup.addRuns, NEW d2 \in DOMAIN Row(c, r2), d2 > Len(Row(f, r2))
       PROVE  \E e \in Detectors : e >= d2 /\ y.t0[r2][e] # NotSet
  <2>1. CASE d2 \in DOMAIN Row(b, r2)
    <3>1. PICK e \in Detectors : e >= d2 /\ x.t0[r2][e] # NotSet BY <1>9, <1>13, <2>1
    <3> QED BY <1>6, <3>1
  <2>2. CASE d2 \notin DOMAIN Row(b, r2)
    <3>1. r2 = r BY <1>10, <1>13, <2>2
    <3>2. d2 \in 1..m /\ d2 \notin 1..n BY <1>7, <1>13, <2>2, <3>1
    <3>3. d >= d2 BY <1>2, <1>7, <1>8, <3>2
    <3>4. y.t0[r2][d] # NotSet BY <1>3, <1>5, <3>1
    <3> QED BY <3>3, <3>4
  <2> QED BY <2>1, <2>2
<1>14. PICK nb \in Nat, nc \in Nat, nf \in Nat :
         /\ nb = Len(b.addT0) /\ nc = Len(c.addT0) /\ nf = Len(f.addT0)
         /\ DOMAIN b.addT0 = 1..nb /\ DOMAIN c.addT0 = 1..nc
  BY <1>4, BlockIs, LenProperties
<1>15. nf <= nb BY <1>14 DEF Grown
<1>16. nf <= nc BY <1>2, <1>4, <1>14, <1>15
<1>17. ASSUME NEW k \in DOMAIN c.addT0, k > Len(f.addT0)
       PROVE  \E l \in 1..setup.addRuns : \E d2 \in Detectors : l >= k /\ y.t0[l][d2] # NotSet
  <2>1. CASE k \in 1..nb
    <3>1. PICK l \in 1..setup.addRuns : \E d2 \in Detectors : l >= k /\ x.t0[l][d2] # NotSet
      BY <1>14, <1>17, <2>1 DEF Grown
    <3>2. l \in 0..setup.addRuns BY <1>1
    <3> QED BY <1>6, <3>1, <3>2
  <2>2. CASE k \notin 1..nb
    <3>1. r \in 1..setup.addRuns /\ r >= k BY <1>1, <1>2, <1>4, <1>14, <1>17, <2>2
    <3> QED BY <1>3, <1>5, <3>1
  <2> QED BY <2>1, <2>2
<1>18. setup.addRuns = 0 => c.addT0 = f.addT0 BY <1>4 DEF Grown
<1>19. Grown(f, c, y)
  BY <1>11, <1>12, <1>13, <1>14, <1>16, <1>17, <1>18 DEF Grown
<1>20. ASSUME KeptT0s(b, x) PROVE KeptT0s(c, y)
  <2>1. SUFFICES ASSUME NEW r2 \in 0..setup.addRuns, NEW d2 \in Detectors, y.t0[r2][d2] # NotSet
                 PROVE  d2 \in DOMAIN Row(c, r2) /\ Row(c, r2)[d2] = y.t0[r2][d2]
    BY DEF KeptT0s
  <2>2. CASE r2 = r /\ d2 = d
    <3>1. d \in 1..m BY <1>2, <1>7, <1>8
    <3> QED BY <1>5, <1>7, <1>8, <2>2, <3>1
  <2>3. CASE r2 # r \/ d2 # d
    <3>1. y.t0[r2][d2] = x.t0[r2][d2] BY <1>5, <2>3
    <3>2. d2 \in DOMAIN Row(b, r2) /\ Row(b, r2)[d2] = y.t0[r2][d2] BY <1>20, <2>1, <3>1 DEF KeptT0s
    <3>3. CASE r2 # r BY <1>10, <3>2, <3>3
    <3>4. CASE r2 = r
      <4>1. d2 \in 1..n /\ d2 # d BY <1>7, <2>3, <3>2, <3>4
      <4>2. d2 \in 1..m BY <1>2, <1>8, <4>1
      <4> QED BY <1>7, <1>8, <3>2, <3>4, <4>1, <4>2
    <3> QED BY <3>3, <3>4
  <2> QED BY <2>2, <2>3
<1> QED BY <1>19, <1>20

LEMMA OverlaidIs ==
  ASSUME NEW X, NEW s \in Seq(X), NEW t \in Seq(X), NEW u, u = Overlaid(s, t)
  PROVE  /\ u \in Seq(X) /\ Len(u) = (IF Len(s) < Len(t) THEN Len(t) ELSE Len(s)) /\ DOMAIN u = 1..Len(u)
         /\ \A i \in 1..Len(t) : u[i] = t[i]
         /\ \A i \in 1..Len(s) : i > Len(t) => u[i] = s[i]
<1>1. PICK n \in Nat : n = Len(s) /\ \A i \in 1..n : s[i] \in X
  OBVIOUS
<1>2. PICK m \in Nat : m = Len(t) /\ \A i \in 1..m : t[i] \in X
  OBVIOUS
<1>3. PICK l \in Nat : l = IF n < m THEN m ELSE n
  OBVIOUS
<1>4. u = [i \in 1..l |-> IF i <= m THEN t[i] ELSE s[i]]
  BY <1>1, <1>2, <1>3 DEF Overlaid
<1>5. \A i \in 1..l : (IF i <= m THEN t[i] ELSE s[i]) \in X
  <2>1. ASSUME NEW i \in 1..l PROVE (i <= m => i \in 1..m) /\ (i > m => i \in 1..n)
    BY <1>1, <1>2, <1>3
  <2> QED BY <1>1, <1>2, <1>3, <2>1
<1>6. u \in Seq(X) /\ Len(u) = l /\ DOMAIN u = 1..l
  BY <1>3, <1>4, <1>5
<1> QED BY <1>1, <1>2, <1>3, <1>4, <1>6

LEMMA PeaksAre ==
  ASSUME setup \in Setups, NEW r \in 0..setup.addRuns
  PROVE  /\ Peaks(r) \in Seq(Int) /\ Len(Peaks(r)) = setup.detectors
         /\ \A d \in Detectors : Peaks(r)[d] = setup.peak[r][d] /\ setup.peak[r][d] \in Int
<1>1. Detectors = 1..setup.detectors /\ setup.detectors \in Nat BY SetupIs
<1>2. \A d \in Detectors : setup.peak[r][d] \in 0..Size BY SetupsAssumption DEF Detectors
<1>3. \A d \in Detectors : setup.peak[r][d] \in Int BY <1>2, BinsAssumption
<1>4. PICK n \in Nat : n = setup.detectors BY <1>1
<1>5. PICK p : p = Peaks(r) OBVIOUS
<1>6. p = [d \in 1..n |-> setup.peak[r][d]] BY <1>1, <1>4, <1>5 DEF Peaks
<1>7. p \in Seq(Int) /\ Len(p) = n BY <1>1, <1>3, <1>4, <1>6
<1> QED BY <1>1, <1>3, <1>4, <1>5, <1>6, <1>7

LEMMA WithPeaksIs ==
  ASSUME setup \in Setups, NEW b \in Block, NEW c, c = WithPeaks(b)
  PROVE  /\ c \in Block /\ c.data = b.data /\ c.bkg = b.bkg
         /\ \A r \in 0..setup.addRuns : Row(c, r) = Overlaid(Row(b, r), Peaks(r))
         /\ Len(c.addT0) = IF Len(b.addT0) < setup.addRuns THEN setup.addRuns ELSE Len(b.addT0)
         /\ \A k \in DOMAIN c.addT0 : k > setup.addRuns => k \in DOMAIN b.addT0
         /\ setup.addRuns = 0 => c.addT0 = b.addT0
<1>1. PICK n \in Nat : n = setup.addRuns BY SetupIs
<1>2. PICK T, first, rest : T = Seq(Int) /\ first = Overlaid(b.t0, Peaks(0))
        /\ rest = [k \in 1..n |-> Overlaid(IF k \in DOMAIN b.addT0 THEN b.addT0[k] ELSE <<>>, Peaks(k))]
  OBVIOUS
<1>3. b.t0 \in T /\ b.addT0 \in Seq(T) /\ DOMAIN b.addT0 = 1..Len(b.addT0) BY <1>2, BlockIs, LenProperties
<1>4. \A r \in 0..n : Peaks(r) \in T BY <1>1, <1>2, PeaksAre
<1>5. first \in T
  <2>1. Peaks(0) \in T BY <1>1, <1>4
  <2> QED BY <1>2, <1>3, <2>1, OverlaidIs
<1>6. ASSUME NEW k \in 1..n
      PROVE  rest[k] = Overlaid(Row(b, k), Peaks(k)) /\ rest[k] \in T
  <2>1. k # 0 OBVIOUS
  <2>2. Row(b, k) = IF k \in DOMAIN b.addT0 THEN b.addT0[k] ELSE <<>> BY <2>1 DEF Row
  <2>3. rest[k] = Overlaid(Row(b, k), Peaks(k)) BY <1>2, <2>2
  <2>4. k \in Nat OBVIOUS
  <2>5. Row(b, k) \in T BY <1>2, <2>4, RowIs
  <2>6. Peaks(k) \in T BY <1>4
  <2> QED BY <1>2, <2>3, <2>5, <2>6, OverlaidIs
<1>7. rest \in Seq(T) /\ Len(rest) = n
  <2>1. rest \in [1..n -> T] BY <1>2, <1>6, Zenon
  <2>2. rest \in Seq(T) BY <2>1, SeqDef
  <2>3. DOMAIN rest = 1..n BY <2>1
  <2> QED BY <2>2, <2>3, LenProperties
<1>8. PICK z : z = Overlaid(b.addT0, rest) OBVIOUS
<1>9. /\ z \in Seq(T) /\ Len(z) = (IF Len(b.addT0) < n THEN n ELSE Len(b.addT0)) /\ DOMAIN z = 1..Len(z)
      /\ \A i \in 1..n : z[i] = rest[i]
      /\ \A i \in 1..Len(b.addT0) : i > n => z[i] = b.addT0[i]
  BY <1>3, <1>7, <1>8, OverlaidIs, SMTT(30)
<1>10. c = [b EXCEPT !.t0 = first, !.addT0 = z]
  BY <1>1, <1>2, <1>8 DEF WithPeaks
<1>11. c.t0 = first /\ c.addT0 = z /\ c.data = b.data /\ c.bkg = b.bkg BY <1>10 DEF Block
<1>12. c \in Block
  <2>1. PICK pairs, ranges, R : pairs = Int \X Int /\ ranges = [1..4 -> Int] /\ R = Seq(T)
    OBVIOUS
  <2>2. Block = [t0 : T, addT0 : R, bkg : ranges, data : ranges, inBins : BOOLEAN,
                 offset : pairs, time : pairs]
    BY <1>2, <2>1 DEF Block
  <2>3. z \in R BY <1>9, <2>1
  <2> QED BY <1>5, <1>10, <2>2, <2>3
<1>13. ASSUME NEW r \in 0..n PROVE Row(c, r) = Overlaid(Row(b, r), Peaks(r))
  <2>1. CASE r = 0 BY <1>2, <1>11, <2>1 DEF Row
  <2>2. CASE r # 0
    <3>1. r \in 1..n /\ r \in 1..Len(z)
      <4>1. Len(b.addT0) \in Nat BY <1>3, LenProperties
      <4> QED BY <1>9, <2>2, <4>1
    <3>2. Row(c, r) = z[r] BY <1>9, <1>11, <2>2, <3>1 DEF Row
    <3> QED BY <1>6, <1>9, <3>1, <3>2
  <2> QED BY <2>1, <2>2
<1>14. Len(b.addT0) \in Nat BY <1>3, LenProperties
<1>15. \A k \in DOMAIN c.addT0 : k > n => k \in DOMAIN b.addT0 BY <1>3, <1>9, <1>11, <1>14
<1>16. n = 0 => c.addT0 = b.addT0
  <2>1. SUFFICES ASSUME n = 0 PROVE z = b.addT0 BY <1>11
  <2>2. Len(z) = Len(b.addT0) /\ \A i \in 1..Len(b.addT0) : z[i] = b.addT0[i] BY <1>9, <1>14, <2>1
  <2> QED BY <1>3, <1>9, <2>2, SeqEqual
<1> QED BY <1>1, <1>9, <1>11, <1>12, <1>13, <1>15, <1>16

LEMMA PeaksGrown ==
  ASSUME setup \in Setups, NEW f \in Block, NEW b \in Block, NEW x \in AnyChoice, Grown(f, b, x),
         NEW c, c = WithPeaks(b), NEW y, \A r \in 0..setup.addRuns : y.t0[r] = Peaks(r)
  PROVE  Grown(f, c, y) /\ KeptT0s(c, y)
<1>1. setup.addRuns \in Nat /\ setup.detectors \in Nat \ {0} /\ Detectors = 1..setup.detectors BY SetupIs
<1>2. /\ c \in Block
      /\ \A r \in 0..setup.addRuns : Row(c, r) = Overlaid(Row(b, r), Peaks(r))
      /\ Len(c.addT0) = IF Len(b.addT0) < setup.addRuns THEN setup.addRuns ELSE Len(b.addT0)
      /\ \A k \in DOMAIN c.addT0 : k > setup.addRuns => k \in DOMAIN b.addT0
      /\ setup.addRuns = 0 => c.addT0 = b.addT0
  BY WithPeaksIs
<1>3. ASSUME NEW r \in 0..setup.addRuns, NEW d \in Detectors PROVE y.t0[r][d] # NotSet /\ y.t0[r][d] = Peaks(r)[d]
  <2>1. y.t0[r][d] = Peaks(r)[d] BY <1>3
  <2>2. Peaks(r)[d] \in Int BY PeaksAre
  <2> QED BY <2>1, <2>2, MusrT0Assumption
<1>4. ASSUME NEW r \in 0..setup.addRuns
      PROVE  /\ Len(Row(f, r)) \in Nat /\ DOMAIN Row(f, r) = 1..Len(Row(f, r))
             /\ Row(b, r) \in Seq(Int) /\ Len(Row(b, r)) \in Nat /\ DOMAIN Row(b, r) = 1..Len(Row(b, r))
             /\ Len(Row(f, r)) <= Len(Row(b, r))
  <2>1. r \in Nat BY <1>1
  <2> QED BY <2>1, RowIs DEF Grown
<1>5. ASSUME NEW r \in 0..setup.addRuns
      PROVE  /\ Len(Row(c, r)) = (IF Len(Row(b, r)) < setup.detectors THEN setup.detectors ELSE Len(Row(b, r)))
             /\ DOMAIN Row(c, r) = 1..Len(Row(c, r))
             /\ \A d \in Detectors : Row(c, r)[d] = Peaks(r)[d]
  <2>1. Peaks(r) \in Seq(Int) /\ Len(Peaks(r)) = setup.detectors BY PeaksAre
  <2>2. Row(c, r) = Overlaid(Row(b, r), Peaks(r)) BY <1>2
  <2>3. Row(b, r) \in Seq(Int) BY <1>4
  <2> QED BY <1>1, <2>1, <2>2, <2>3, OverlaidIs, SMTT(30)
<1>6. ASSUME NEW r \in 0..setup.addRuns PROVE Len(Row(f, r)) <= Len(Row(c, r))
  BY <1>1, <1>4, <1>5
<1>7. ASSUME NEW r \in 0..setup.addRuns, NEW d \in DOMAIN Row(c, r), d > Len(Row(f, r))
      PROVE  \E e \in Detectors : e >= d /\ y.t0[r][e] # NotSet
  <2>1. CASE d <= setup.detectors
    <3>1. d \in Detectors BY <1>1, <1>4, <1>5, <1>7, <2>1
    <3> QED BY <1>1, <1>3, <3>1
  <2>2. CASE d > setup.detectors
    <3>1. d \in DOMAIN Row(b, r) BY <1>1, <1>4, <1>5, <1>7, <2>2
    <3>2. PICK e \in Detectors : e >= d BY <1>7, <3>1 DEF Grown
    <3> QED BY <1>3, <3>2
  <2>3. d \in Nat BY <1>4, <1>5, <1>1, <1>7
  <2> QED BY <1>1, <2>1, <2>2, <2>3
<1>8. PICK nb \in Nat, nc \in Nat, nf \in Nat :
        /\ nb = Len(b.addT0) /\ nc = Len(c.addT0) /\ nf = Len(f.addT0)
        /\ DOMAIN b.addT0 = 1..nb /\ DOMAIN c.addT0 = 1..nc
  BY <1>2, BlockIs, LenProperties
<1>9. nf <= nb BY <1>8 DEF Grown
<1>10. nf <= nc BY <1>1, <1>2, <1>8, <1>9
<1>11. ASSUME NEW k \in DOMAIN c.addT0, k > Len(f.addT0)
       PROVE  \E l \in 1..setup.addRuns : \E d \in Detectors : l >= k /\ y.t0[l][d] # NotSet
  <2>1. CASE k <= setup.addRuns
    <3>1. k \in 1..setup.addRuns /\ k \in 0..setup.addRuns /\ k >= k /\ 1 \in Detectors BY <1>1, <1>8, <2>1
    <3> QED BY <1>3, <3>1
  <2>2. CASE k > setup.addRuns
    <3>1. k \in DOMAIN b.addT0 BY <1>2, <2>2
    <3>2. PICK l \in 1..setup.addRuns : \E d \in Detectors : l >= k BY <1>11, <3>1 DEF Grown
    <3>3. l \in 0..setup.addRuns BY <1>1
    <3> QED BY <1>3, <3>2, <3>3
  <2> QED BY <1>1, <1>8, <2>1, <2>2
<1>12. setup.addRuns = 0 => c.addT0 = f.addT0 BY <1>2 DEF Grown
<1>13. Grown(f, c, y)
  BY <1>3, <1>6, <1>7, <1>8, <1>10, <1>11, <1>12 DEF Grown
<1>14. KeptT0s(c, y)
  <2>1. ASSUME NEW r \in 0..setup.addRuns, NEW d \in Detectors PROVE d \in DOMAIN Row(c, r)
    BY <1>1, <1>4, <1>5, SMTT(30)
  <2> QED BY <1>3, <1>5, <2>1 DEF KeptT0s
<1> QED BY <1>13, <1>14

-----------------------------------------------------------------------------
(* The ranges of a block: those set with the keys are there, and those the *)
(* user has written are not zero.                                          *)

Given(c, word, i) == RangeIn(c, word)[i] # NotSet \/ RangeIn(UsersRun, word)[i] # None

RangeOf(b, c, word) ==
  \A i \in 1..4 :
    /\ RangeIn(c, word)[i] # NotSet => RangeIn(b, word)[i] = RangeIn(c, word)[i]
    /\ Given(c, word, i) /\ RangeIn(c, word)[i] = NotSet => RangeIn(b, word)[i] > 0

RangesOf(b, c) == \A word \in RangeWords : RangeOf(b, c, word)

PairsGiven(c, word) ==
  /\ Given(c, word, 1) <=> Given(c, word, 2)
  /\ Given(c, word, 3) <=> Given(c, word, 4)
  /\ Given(c, word, 3) => Given(c, word, 1)
  /\ \A i \in 1..4 : RangeIn(c, word)[i] # NotSet => RangeIn(c, word)[i] > 0

LEMMA PairsAre ==
  ASSUME NEW c, NEW word \in RangeWords
  PROVE  RangesComplete(c) => PairsGiven(c, word)
<1>1. CASE word = "data"
  BY <1>1 DEF RangesComplete, Pairs, PairsGiven, Given, RangeIn
<1>2. CASE word = "background"
  BY <1>2 DEF RangesComplete, Pairs, PairsGiven, Given, RangeIn
<1> QED BY <1>1, <1>2 DEF RangeWords

LEMMA RangeGiven ==
  ASSUME NEW b, NEW c, NEW word \in RangeWords, RangesOf(b, c), RangesComplete(c), NEW i \in 1..4,
         Given(c, word, i)
  PROVE  RangeIn(b, word)[i] > 0
<1>1. PairsGiven(c, word) BY PairsAre
<1>2. RangeOf(b, c, word) BY DEF RangesOf
<1> QED BY <1>1, <1>2 DEF PairsGiven, RangeOf

LEMMA WrittenRangesOf ==
  ASSUME NEW lines \in Seq(Lines), NEW b, Writable(lines, b), NEW isis \in BOOLEAN, HasAny(lines, FitWords),
         NEW c, RangesOf(b, c), RangesComplete(c)
  PROVE  RangesOf(ReadBlock(WriteRun(lines, b, isis)), c)
<1>1. PICK g : g = ReadBlock(WriteRun(lines, b, isis)) OBVIOUS
<1>2. SUFFICES ASSUME NEW word \in RangeWords PROVE RangeOf(g, c, word) BY <1>1 DEF RangesOf
<1>3. PairsGiven(c, word) BY PairsAre
<1>4. \A i \in 1..4 : Given(c, word, i) => RangeIn(b, word)[i] > 0 BY RangeGiven
<1>5. RangeOf(b, c, word) BY DEF RangesOf
<1>6. ASSUME NEW m \in 1..4, Written(b, word, m)
      PROVE  \A i \in 1..m : RangeIn(g, word)[i] = RangeIn(b, word)[i]
  BY <1>1, <1>6, WrittenRange, ZenonT(30)
<1>7. CASE ~Given(c, word, 1)
  <2>1. \A i \in 1..4 : ~Given(c, word, i)
    <3>1. ASSUME NEW i \in 1..4 PROVE i = 1 \/ i = 2 \/ i = 3 \/ i = 4 OBVIOUS
    <3> QED BY <1>3, <1>7, <3>1 DEF PairsGiven
  <2> QED BY <2>1 DEF RangeOf, Given
<1>8. CASE Given(c, word, 1) /\ ~Given(c, word, 3)
  <2>1. Written(b, word, 2)
    <3>1. ASSUME NEW i \in 1..2 PROVE RangeIn(b, word)[i] > 0
      <4>1. i \in 1..4 /\ (i = 1 \/ i = 2) OBVIOUS
      <4> QED BY <1>3, <1>4, <1>8, <4>1 DEF PairsGiven
    <3> QED BY <3>1 DEF Written
  <2>2. \A i \in 1..2 : RangeIn(g, word)[i] = RangeIn(b, word)[i]
    <3>1. PICK m \in 1..4 : m = 2 OBVIOUS
    <3> QED BY <1>6, <2>1, <3>1
  <2>3. \A i \in 1..4 : Given(c, word, i) => i \in 1..2
    <3>1. ASSUME NEW i \in 1..4 PROVE i \in 1..2 \/ i = 3 \/ i = 4 OBVIOUS
    <3> QED BY <1>3, <1>8, <3>1 DEF PairsGiven
  <2> QED BY <1>5, <2>2, <2>3 DEF RangeOf, Given
<1>9. CASE Given(c, word, 1) /\ Given(c, word, 3)
  <2>1. Written(b, word, 4)
    <3>1. ASSUME NEW i \in 1..4 PROVE RangeIn(b, word)[i] > 0
      <4>1. i = 1 \/ i = 2 \/ i = 3 \/ i = 4 OBVIOUS
      <4> QED BY <1>3, <1>4, <1>9, <4>1 DEF PairsGiven
    <3> QED BY <3>1 DEF Written
  <2>2. \A i \in 1..4 : RangeIn(g, word)[i] = RangeIn(b, word)[i]
    <3>1. PICK m \in 1..4 : m = 4 OBVIOUS
    <3> QED BY <1>6, <2>1, <3>1
  <2> QED BY <1>5, <2>2 DEF RangeOf
<1> QED BY <1>7, <1>8, <1>9

(* What the user has written are pairs, when the file has been accepted.    *)
PairedUser == PairedRange(UsersRun.data) /\ PairedRange(UsersRun.bkg)

LEMMA NothingChosenIs ==
  NothingChosen \in AnyChoice
<1>1. PICK V : V = Int \cup {NotSet} OBVIOUS
<1>2. PICK D : D = Detectors OBVIOUS
<1>3. PICK row : row = [d \in D |-> NotSet] OBVIOUS
<1>4. row \in [D -> V] BY <1>1, <1>3
<1>5. PICK rows : rows = [r \in 0..setup.addRuns |-> row] OBVIOUS
<1>6. rows \in [0..setup.addRuns -> [D -> V]] BY <1>4, <1>5
<1>7. PICK range : range = [i \in 1..4 |-> NotSet] OBVIOUS
<1>8. range \in [1..4 -> V] BY <1>1, <1>7
<1>9. NothingChosen = [t0 |-> rows, data |-> range, bkg |-> range] BY <1>2, <1>3, <1>5, <1>7 DEF NothingChosen
<1> QED BY <1>1, <1>2, <1>6, <1>8, <1>9 DEF AnyChoice

LEMMA NothingChosenRanges ==
  ASSUME PairedUser
  PROVE  RangesComplete(NothingChosen) /\ RangesOf(UsersRun, NothingChosen)
<1>1. \A i \in 1..4 : NothingChosen.data[i] = NotSet /\ NothingChosen.bkg[i] = NotSet
  BY DEF NothingChosen
<1>2. RangesComplete(NothingChosen)
  <2>1. Pairs(NothingChosen.data, UsersRun.data) BY <1>1 DEF Pairs, PairedUser, PairedRange
  <2>2. Pairs(NothingChosen.bkg, UsersRun.bkg) BY <1>1 DEF Pairs, PairedUser, PairedRange
  <2> QED BY <2>1, <2>2 DEF RangesComplete
<1>3. ASSUME NEW word \in RangeWords PROVE RangeOf(UsersRun, NothingChosen, word)
  BY <1>1 DEF RangeOf, RangeIn, Given, PairedUser, PairedRange
<1> QED BY <1>2, <1>3 DEF RangesOf

(* GetProperT0 leaves the ranges of a block alone.                         *)
SameRanges(b, c) == c.data = b.data /\ c.bkg = b.bkg

LEMMA T0sKeepRanges ==
  ASSUME setup \in Setups, run \in Block, global \in Block
  PROVE  SameRanges(run, WithT0s(run))
<1>1. PICK n \in Nat \ {0} : n = setup.detectors BY SetupIs
<1>2. PICK f : SettingT0s(n, f) BY <1>1, SetsT0s
<1>3. PICK S : S = {m \in 0..n : SameRanges(run, f[m])} OBVIOUS
<1>4. 0 \in S BY <1>2, <1>3 DEF SettingT0s, SameRanges
<1>5. ASSUME NEW m \in 0..(n - 1), m \in S PROVE m + 1 \in S
  <2>1. PICK i \in 1..n : i = m + 1 OBVIOUS
  <2>2. i - 1 = m /\ i \in 0..n /\ m \in 0..n BY <2>1
  <2>3. PICK x, y : x = f[m] /\ y = f[i] OBVIOUS
  <2>4. x \in Block /\ (y = x \/ y = [x EXCEPT !.t0 = SetAt(@, i, T0(i))]) BY <1>2, <2>2, <2>3 DEF SettingT0s
  <2>5. PICK t : y = x \/ y = [x EXCEPT !.t0 = t] BY <2>4
  <2>6. SameRanges(x, y) BY <2>4, <2>5 DEF Block, SameRanges
  <2>7. SameRanges(run, x) BY <1>3, <1>5, <2>3
  <2>8. SameRanges(run, f[i]) BY <2>3, <2>6, <2>7 DEF SameRanges
  <2> QED BY <1>3, <2>1, <2>2, <2>8
<1>6. 0..n \subseteq S BY <1>4, <1>5, UpTo
<1>7. n \in 0..n OBVIOUS
<1>8. SameRanges(run, f[n]) BY <1>3, <1>6, <1>7
<1> QED BY <1>2, <1>8 DEF SettingT0s

LEMMA AddT0sKeepRanges ==
  ASSUME setup \in Setups, NEW b \in Block
  PROVE  SameRanges(b, WithAddT0s(b))
<1>1. PICK seq : seq = AddRunDetectors OBVIOUS
<1>2. PICK X : X = [k : 1..setup.addRuns, d : Detectors] OBVIOUS
<1>3. seq \in Seq(X) BY <1>1, <1>2, AddRunDetectorsAre
<1>4. PICK n \in Nat : n = Len(seq) /\ \A i \in 1..n : seq[i] \in X BY <1>3
<1>5. PICK f : SettingAddT0s(b, n, f) BY <1>1, <1>4, SetsAddT0s
<1>6. PICK S : S = {m \in 0..n : SameRanges(b, f[m])} OBVIOUS
<1>7. 0 \in S BY <1>5, <1>6 DEF SettingAddT0s, SameRanges
<1>8. ASSUME NEW m \in 0..(n - 1), m \in S PROVE m + 1 \in S
  <2>1. PICK i \in 1..n : i = m + 1 OBVIOUS
  <2>2. i - 1 = m /\ i \in 0..n /\ m \in 0..n BY <2>1
  <2>3. PICK x, y, k, d : x = f[m] /\ y = f[i] /\ k = seq[i].k /\ d = seq[i].d OBVIOUS
  <2>4. x \in Block /\ y = IF AddT0FromMsr(b, k, d) # None THEN x ELSE SetAddT0(x, k, d, FromData(k, d))
    BY <1>1, <1>5, <2>2, <2>3 DEF SettingAddT0s
  <2>5. PICK z : y = x \/ y = [x EXCEPT !.addT0 = z] BY <2>4 DEF SetAddT0
  <2>6. SameRanges(x, y) BY <2>4, <2>5 DEF Block, SameRanges
  <2>7. SameRanges(b, x) BY <1>6, <1>8, <2>3
  <2>8. SameRanges(b, f[i]) BY <2>3, <2>6, <2>7 DEF SameRanges
  <2> QED BY <1>6, <2>1, <2>2, <2>8
<1>9. 0..n \subseteq S BY <1>7, <1>8, UpTo
<1>10. n \in 0..n OBVIOUS
<1>11. SameRanges(b, f[n]) BY <1>6, <1>9, <1>10
<1> QED BY <1>5, <1>11 DEF SettingAddT0s

(* EstimateBkg and GetProperDataRange set no range that is given.          *)
LEMMA BkgKept ==
  ASSUME setup \in Setups, t0s \in [Detectors -> Int], NEW b \in Block, NEW c, RangesOf(b, c), RangesComplete(c)
  PROVE  RangesOf(WithBkg(b), c)
<1>1. PICK g : g = WithBkg(b) OBVIOUS
<1>2. RangeOf(b, c, "background") /\ RangeOf(b, c, "data") BY DEF RangesOf, RangeWords
<1>3. "background" \in RangeWords BY DEF RangeWords
<1>4. g.data = b.data
  <2>1. PICK t : g = b \/ g = [b EXCEPT !.bkg = t] BY <1>1 DEF WithBkg
  <2> QED BY <2>1 DEF Block
<1>5. RangeOf(g, c, "data") BY <1>2, <1>4 DEF RangeOf, RangeIn
<1>6. RangeOf(g, c, "background")
  <2>1. CASE b.bkg[1] >= 0 BY <1>1, <1>2, <2>1 DEF WithBkg
  <2>2. CASE ~(b.bkg[1] >= 0)
    <3>1. PairsGiven(c, "background") BY <1>3, PairsAre
    <3>2. ~Given(c, "background", 1)
      <4>1. SUFFICES ASSUME Given(c, "background", 1) PROVE FALSE OBVIOUS
      <4>2. 1 \in 1..4 OBVIOUS
      <4>3. RangeIn(b, "background")[1] > 0 BY <1>3, <4>1, <4>2, RangeGiven
      <4>4. b.bkg[1] > 0 BY <4>3 DEF RangeIn
      <4>5. b.bkg[1] \in Int BY RangesIs
      <4> QED BY <2>2, <4>4, <4>5
    <3>3. \A i \in 1..4 : ~Given(c, "background", i)
      <4>1. ASSUME NEW i \in 1..4 PROVE i = 1 \/ i = 2 \/ i = 3 \/ i = 4 OBVIOUS
      <4> QED BY <3>1, <3>2, <4>1 DEF PairsGiven
    <3> QED BY <3>3 DEF RangeOf, Given
  <2> QED BY <2>1, <2>2
<1> QED BY <1>1, <1>5, <1>6 DEF RangesOf, RangeWords

LEMMA DataKept ==
  ASSUME setup \in Setups, run \in Block, NEW c, RangesOf(run, c), RangesComplete(c)
  PROVE  RangesOf(WithData(run), c)
<1>1. PICK g : g = WithData(run) OBVIOUS
<1>2. RangeOf(run, c, "background") /\ RangeOf(run, c, "data") BY DEF RangesOf, RangeWords
<1>3. "data" \in RangeWords BY DEF RangeWords
<1>4. PICK t : t = [i \in 1..4 |-> IF i <= 2*Cardinality(Sides) /\ DataRange(i) < 0 THEN Estimated(i) ELSE run.data[i]]
  OBVIOUS
<1>5. g = [run EXCEPT !.data = t] BY <1>1, <1>4 DEF WithData
<1>6. g.bkg = run.bkg /\ g.data = t BY <1>5 DEF Block
<1>7. RangeOf(g, c, "background") BY <1>2, <1>6 DEF RangeOf, RangeIn
<1>8. ASSUME NEW i \in 1..4, Given(c, "data", i) PROVE g.data[i] = run.data[i]
  <2>1. RangeIn(run, "data")[i] > 0 BY <1>3, <1>8, RangeGiven
  <2>2. run.data[i] > 0 BY <2>1 DEF RangeIn
  <2>3. run.data[i] \in Int BY RangesIs
  <2>4. ~(DataRange(i) < 0) BY <2>2, <2>3 DEF DataRange
  <2> QED BY <1>4, <1>6, <2>4
<1>9. RangeOf(g, c, "data")
  <2>1. ASSUME NEW i \in 1..4, Given(c, "data", i) PROVE RangeIn(g, "data")[i] = RangeIn(run, "data")[i]
    BY <1>8, <2>1 DEF RangeIn
  <2> QED BY <1>2, <2>1 DEF RangeOf, Given
<1> QED BY <1>1, <1>7, <1>9 DEF RangesOf, RangeWords

-----------------------------------------------------------------------------
(* What GetProperT0 finds.                                                 *)

LEMMA RowGet ==
  ASSUME NEW b, b.t0 \in Seq(Int), b.addT0 \in Seq(Seq(Int)), Known(b), NEW r \in Nat, NEW d
  PROVE  /\ d \in DOMAIN Row(b, r) => /\ Row(b, r)[d] \in Int /\ Row(b, r)[d] >= 0
                                      /\ GetAt(Row(b, r), d) = Row(b, r)[d] /\ GetAt(Row(b, r), d) # None
         /\ d \notin DOMAIN Row(b, r) => GetAt(Row(b, r), d) = None
         /\ (IF r = 0 THEN GetAt(b.t0, d) ELSE GetAddT0(b, r, d)) = GetAt(Row(b, r), d)
<1>1. DOMAIN b.t0 = 1..Len(b.t0) /\ DOMAIN b.addT0 = 1..Len(b.addT0) BY LenProperties
<1>2. ASSUME d \in DOMAIN Row(b, r) PROVE Row(b, r)[d] \in Int /\ Row(b, r)[d] >= 0
  <2>1. CASE r = 0
    <3>1. d \in 1..Len(b.t0) /\ Row(b, r) = b.t0 BY <1>1, <1>2, <2>1 DEF Row
    <3> QED BY <3>1, ElementOfSeq DEF Known
  <2>2. CASE r # 0
    <3>1. r \in 1..Len(b.addT0) /\ Row(b, r) = b.addT0[r]
      <4>1. DOMAIN <<>> = {} OBVIOUS
      <4> QED BY <1>1, <1>2, <2>2, <4>1 DEF Row
    <3>2. PICK s : s = b.addT0[r] OBVIOUS
    <3>3. s \in Seq(Int) BY <3>1, <3>2, ElementOfSeq
    <3>4. d \in 1..Len(s) BY <1>2, <3>1, <3>2, <3>3, LenProperties
    <3>5. s[d] \in Int BY <3>3, <3>4, ElementOfSeq
    <3>6. s[d] >= 0 BY <3>1, <3>2, <3>4 DEF Known
    <3> QED BY <3>1, <3>2, <3>5, <3>6
  <2> QED BY <2>1, <2>2
<1>3. d \in DOMAIN Row(b, r) => GetAt(Row(b, r), d) = Row(b, r)[d] /\ GetAt(Row(b, r), d) # None
  BY <1>2 DEF GetAt, None
<1>4. d \notin DOMAIN Row(b, r) => GetAt(Row(b, r), d) = None BY DEF GetAt
<1>5. (IF r = 0 THEN GetAt(b.t0, d) ELSE GetAddT0(b, r, d)) = GetAt(Row(b, r), d)
  <2>1. CASE r = 0 BY <2>1 DEF Row
  <2>2. CASE r # 0 /\ r \in DOMAIN b.addT0 BY <2>2 DEF Row, GetAddT0
  <2>3. CASE r # 0 /\ r \notin DOMAIN b.addT0
    <3>1. DOMAIN <<>> = {} OBVIOUS
    <3> QED BY <2>3, <3>1 DEF Row, GetAddT0, GetAt
  <2> QED BY <2>1, <2>2, <2>3
<1> QED BY <1>2, <1>3, <1>4, <1>5

UsersTyped ==
  /\ UsersRun.t0 \in Seq(Int) /\ UsersRun.addT0 \in Seq(Seq(Int)) /\ UsersGlobal.t0 \in Seq(Int)
  /\ Known(UsersRun) /\ Known(UsersGlobal)

LEMMA MeantIs ==
  ASSUME UsersTyped, NEW r \in Nat, NEW d
  PROVE  /\ d \in DOMAIN Row(UsersRun, r) => MeantT0(r, d) = Row(UsersRun, r)[d]
         /\ d \notin DOMAIN Row(UsersRun, r) =>
              MeantT0(r, d) = IF r = 0 /\ GetAt(UsersGlobal.t0, d) # None THEN GetAt(UsersGlobal.t0, d)
                                ELSE FromData(r, d)
<1>1. UsersRun.t0 \in Seq(Int) /\ UsersRun.addT0 \in Seq(Seq(Int)) /\ Known(UsersRun) BY DEF UsersTyped
<1>2. PICK u : u = UsersRun OBVIOUS
<1>3. /\ d \in DOMAIN Row(u, r) => /\ GetAt(Row(u, r), d) = Row(u, r)[d] /\ GetAt(Row(u, r), d) # None
      /\ d \notin DOMAIN Row(u, r) => GetAt(Row(u, r), d) = None
      /\ (IF r = 0 THEN GetAt(u.t0, d) ELSE GetAddT0(u, r, d)) = GetAt(Row(u, r), d)
  BY <1>1, <1>2, RowGet
<1>4. MeantT0(r, d) =
        IF GetAt(Row(u, r), d) # None THEN GetAt(Row(u, r), d)
        ELSE IF (IF r = 0 THEN GetAt(UsersGlobal.t0, d) ELSE None) # None
             THEN (IF r = 0 THEN GetAt(UsersGlobal.t0, d) ELSE None) ELSE FromData(r, d)
  BY <1>2, <1>3 DEF MeantT0
<1> QED BY <1>2, <1>3, <1>4

(* The t0's are complete in the file too.                                  *)
LEMMA CompleteRows ==
  ASSUME setup \in Setups, UsersTyped, Complete, NEW b \in Block, UsersT0s(b)
  PROVE  /\ UsersRun.t0 # <<>> => Detectors \subseteq 1..Len(b.t0)
         /\ UsersRun.t0 = <<>> => UsersRun.addT0 = <<>> /\ Len(UsersGlobal.t0) \in {0, setup.detectors}
<1>1. setup.addRuns \in Nat /\ Detectors = 1..setup.detectors BY SetupIs
<1>2. UsersRun.t0 = <<>> => UsersRun.addT0 = <<>> /\ Len(UsersGlobal.t0) \in {0, setup.detectors}
  BY DEF Complete
<1>3. ASSUME UsersRun.t0 # <<>>, NEW d \in Detectors PROVE d \in 1..Len(b.t0)
  <2>1. UsersRun.t0 \in Seq(Int) BY DEF UsersTyped
  <2>2. Len(UsersRun.t0) = setup.detectors
    <3>1. Len(UsersRun.t0) # 0 BY <1>3, <2>1, EmptySeq
    <3> QED BY <3>1 DEF Complete
  <2>3. d \in DOMAIN UsersRun.t0 BY <1>1, <2>1, <2>2, LenProperties
  <2>4. d \in DOMAIN Row(UsersRun, 0) BY <2>3 DEF Row
  <2>5. 0 \in 0..setup.addRuns BY <1>1
  <2>6. d \in DOMAIN Row(b, 0) BY <2>4, <2>5 DEF UsersT0s
  <2>7. d \in DOMAIN b.t0 BY <2>6 DEF Row
  <2> QED BY <2>7, BlockIs, LenProperties
<1> QED BY <1>2, <1>3

(* Before GetProperT0: the block is that of the file, which is what the     *)
(* user has written, with the choice w.                                    *)
ReadChoice(w) ==
  /\ setup \in Setups /\ UsersTyped
  /\ run \in Block /\ Known(run) /\ AddT0sMatch(setup.addRuns, run)
  /\ global \in Block /\ global.t0 = UsersGlobal.t0
  /\ T0sOf(run, w) /\ (w = NothingChosen \/ NoGaps(w))

T0Found(r, d) == IF r = 0 THEN T0(d) ELSE AddT0Of(WithT0s(run), r, d)

FoundAs(w, r, d) ==
  /\ CanPlace /\ w.t0[r][d] # NotSet => T0Found(r, d) = w.t0[r][d]
  /\ Complete /\ w.t0[r][d] = NotSet => T0Found(r, d) = MeantT0(r, d)

LEMMA FoundT0 ==
  ASSUME NEW w, ReadChoice(w), NEW d \in Detectors
  PROVE  FoundAs(w, 0, d)
<1>1. /\ setup \in Setups /\ UsersTyped /\ run \in Block /\ Known(run) /\ global.t0 = UsersGlobal.t0 /\ T0sOf(run, w)
  BY DEF ReadChoice
<1>2. 0 \in 0..setup.addRuns /\ 0 \in Nat BY <1>1, SetupIs
<1>3. run.t0 \in Seq(Int) /\ run.addT0 \in Seq(Seq(Int)) BY <1>1, BlockIs
<1>4. PICK b : b = run OBVIOUS
<1>5. Row(b, 0) = b.t0 BY DEF Row
<1>6. /\ d \in DOMAIN b.t0 => GetAt(b.t0, d) = b.t0[d] /\ GetAt(b.t0, d) # None
      /\ d \notin DOMAIN b.t0 => GetAt(b.t0, d) = None
  <2>1. b.t0 \in Seq(Int) /\ b.addT0 \in Seq(Seq(Int)) /\ Known(b) BY <1>1, <1>3, <1>4
  <2> QED BY <1>2, <1>5, <2>1, RowGet
<1>7. d \in DOMAIN run.t0 => T0(d) = run.t0[d] BY <1>4, <1>6 DEF T0, FromMsr
<1>8. d \notin DOMAIN run.t0 => T0(d) = IF GetAt(UsersGlobal.t0, d) # None THEN GetAt(UsersGlobal.t0, d) ELSE FromData(0, d)
  BY <1>1, <1>4, <1>6 DEF T0, FromMsr
<1>9. ASSUME CanPlace, w.t0[0][d] # NotSet PROVE T0(d) = w.t0[0][d]
  <2>1. KeptT0s(b, w) BY <1>1, <1>4, <1>9 DEF T0sOf
  <2>2. d \in DOMAIN Row(b, 0) /\ Row(b, 0)[d] = w.t0[0][d] BY <1>2, <1>9, <2>1 DEF KeptT0s
  <2> QED BY <1>4, <1>5, <1>7, <2>2
<1>10. ASSUME Complete, w.t0[0][d] = NotSet PROVE T0(d) = MeantT0(0, d)
  <2>1. TheirT0s(b, w) /\ UsersT0s(b) BY <1>1, <1>4, <1>10 DEF T0sOf
  <2>2. CASE d \in DOMAIN b.t0
    <3>1. Row(b, 0)[d] = MeantT0(0, d) BY <1>2, <1>5, <1>10, <2>1, <2>2 DEF TheirT0s
    <3> QED BY <1>4, <1>5, <1>7, <2>2, <3>1
  <2>3. CASE d \notin DOMAIN b.t0
    <3>1. d \notin DOMAIN Row(UsersRun, 0) BY <1>2, <1>5, <2>1, <2>3 DEF UsersT0s
    <3>2. MeantT0(0, d) = IF 0 = 0 /\ GetAt(UsersGlobal.t0, d) # None THEN GetAt(UsersGlobal.t0, d) ELSE FromData(0, d)
      BY <1>1, <1>2, <3>1, MeantIs
    <3> QED BY <1>4, <1>8, <2>3, <3>2
  <2> QED BY <2>2, <2>3
<1> QED BY <1>9, <1>10 DEF FoundAs, T0Found

LEMMA FoundAddT0 ==
  ASSUME NEW w, ReadChoice(w), NEW k \in 1..setup.addRuns, NEW d \in Detectors
  PROVE  FoundAs(w, k, d)
<1>1. /\ setup \in Setups /\ UsersTyped /\ run \in Block /\ Known(run) /\ T0sOf(run, w) /\ global \in Block
      /\ (w = NothingChosen \/ NoGaps(w))
  BY DEF ReadChoice
<1>2. k \in 0..setup.addRuns /\ 0 \in 0..setup.addRuns /\ k \in Nat /\ k # 0 /\ setup.addRuns \in Nat
  BY <1>1, SetupIs
<1>3. PICK b, a : b = WithT0s(run) /\ a = run OBVIOUS
<1>4. b \in Block /\ b.addT0 = a.addT0 BY <1>1, <1>3, T0sSet
<1>5. PICK n \in Nat, m \in Nat : n = Len(a.t0) /\ m = Len(b.t0) /\ n <= m
  <2>1. \A j \in 1..Len(run.t0) : run.t0[j] >= 0 BY <1>1 DEF Known
  <2>2. Len(b.t0) >= Len(run.t0) BY <1>1, <1>3, <2>1, T0sStored
  <2>3. Len(b.t0) \in Nat /\ Len(run.t0) \in Nat BY <1>1, <1>4, BlockIs
  <2> QED BY <1>3, <2>2, <2>3
<1>6. a.t0 \in Seq(Int) /\ a.addT0 \in Seq(Seq(Int)) /\ Known(a) /\ DOMAIN a.t0 = 1..n
  BY <1>1, <1>3, <1>5, BlockIs, LenProperties
<1>7. Row(b, k) = Row(a, k) BY <1>2, <1>4 DEF Row
<1>8. /\ d \in DOMAIN Row(a, k) => GetAddT0(b, k, d) = Row(a, k)[d] /\ GetAddT0(b, k, d) # None
      /\ d \notin DOMAIN Row(a, k) => GetAddT0(b, k, d) = None
  <2>1. /\ d \in DOMAIN Row(a, k) => GetAt(Row(a, k), d) = Row(a, k)[d] /\ GetAt(Row(a, k), d) # None
        /\ d \notin DOMAIN Row(a, k) => GetAt(Row(a, k), d) = None
        /\ (IF k = 0 THEN GetAt(a.t0, d) ELSE GetAddT0(a, k, d)) = GetAt(Row(a, k), d)
    BY <1>2, <1>6, RowGet
  <2>2. GetAddT0(b, k, d) = GetAddT0(a, k, d) BY <1>4 DEF GetAddT0
  <2> QED BY <1>2, <2>1, <2>2
<1>9. T0Found(k, d) = AddT0Of(b, k, d) BY <1>2, <1>3 DEF T0Found
<1>10. d \in Nat BY <1>1, SetupIs
<1>11. d \in DOMAIN Row(a, k) /\ (setup.single => d <= n) => T0Found(k, d) = Row(a, k)[d]
  <2>1. SUFFICES ASSUME d \in DOMAIN Row(a, k), setup.single => d <= n PROVE AddT0Of(b, k, d) = Row(a, k)[d]
    BY <1>9
  <2>2. ~(setup.single /\ d > Len(b.t0)) BY <1>5, <1>10, <2>1
  <2>3. AddT0FromMsr(b, k, d) = GetAddT0(b, k, d) BY <2>2 DEF AddT0FromMsr
  <2> QED BY <1>8, <2>1, <2>3 DEF AddT0Of
<1>12. UsersT0s(a) BY <1>1, <1>3 DEF T0sOf
<1>13. ASSUME CanPlace, w.t0[k][d] # NotSet PROVE T0Found(k, d) = w.t0[k][d]
  <2>1. KeptT0s(a, w) BY <1>1, <1>3, <1>13 DEF T0sOf
  <2>2. d \in DOMAIN Row(a, k) /\ Row(a, k)[d] = w.t0[k][d] BY <1>2, <1>13, <2>1 DEF KeptT0s
  <2>3. ASSUME setup.single PROVE d <= n
    <3>1. NoGaps(w)
      <4>1. NothingChosen.t0[k][d] = NotSet BY <1>2 DEF NothingChosen
      <4> QED BY <1>1, <1>13, <4>1
    <3>2. d \in T0Set(w, k) BY <1>13 DEF T0Set
    <3>3. d \in T0Set(w, 0) BY <2>3, <3>1, <3>2 DEF NoGaps
    <3>4. w.t0[0][d] # NotSet \/ d \in DOMAIN Row(UsersRun, 0) BY <1>2, <3>3, T0SetIs
    <3>5. d \in DOMAIN Row(a, 0) BY <1>2, <1>12, <2>1, <3>4 DEF KeptT0s, UsersT0s
    <3>6. d \in DOMAIN a.t0 BY <3>5 DEF Row
    <3> QED BY <1>6, <3>6
  <2> QED BY <1>11, <2>2, <2>3
<1>14. ASSUME Complete, w.t0[k][d] = NotSet PROVE T0Found(k, d) = MeantT0(k, d)
  <2>1. TheirT0s(a, w) BY <1>1, <1>3, <1>14 DEF T0sOf
  <2>2. CASE d \in DOMAIN Row(a, k) /\ (setup.single => d <= n)
    <3>1. Row(a, k)[d] = MeantT0(k, d) BY <1>2, <1>14, <2>1, <2>2 DEF TheirT0s
    <3> QED BY <1>11, <2>2, <3>1
  <2>3. CASE ~(d \in DOMAIN Row(a, k) /\ (setup.single => d <= n))
    <3>1. UsersRun.t0 # <<>> => d <= n
      <4>1. a \in Block BY <1>1, <1>3
      <4>2. UsersRun.t0 # <<>> => Detectors \subseteq 1..Len(a.t0)
        BY <1>1, <1>12, <1>14, <4>1, CompleteRows
      <4> QED BY <1>5, <4>2
    <3>2. d \notin DOMAIN Row(UsersRun, k)
      <4>1. SUFFICES ASSUME d \in DOMAIN Row(UsersRun, k) PROVE FALSE OBVIOUS
      <4>2. d \in DOMAIN Row(a, k) BY <1>2, <1>12, <4>1 DEF UsersT0s
      <4>3. UsersRun.t0 = <<>> BY <2>3, <3>1, <4>2
      <4>4. UsersRun.addT0 = <<>> BY <1>14, <4>3 DEF Complete
      <4>5. DOMAIN <<>> = {} OBVIOUS
      <4>6. Row(UsersRun, k) = <<>> BY <1>2, <4>4, <4>5 DEF Row
      <4> QED BY <4>1, <4>5, <4>6
    <3>3. MeantT0(k, d) = FromData(k, d)
      <4>1. MeantT0(k, d) = IF k = 0 /\ GetAt(UsersGlobal.t0, d) # None THEN GetAt(UsersGlobal.t0, d) ELSE FromData(k, d)
        BY <1>1, <1>2, <3>2, MeantIs
      <4> QED BY <1>2, <4>1
    <3>4. CASE AddT0FromMsr(b, k, d) = None BY <1>9, <3>3, <3>4 DEF AddT0Of
    <3>5. CASE AddT0FromMsr(b, k, d) # None
      <4>1. AddT0FromMsr(b, k, d) = GetAddT0(b, k, d) BY <3>5 DEF AddT0FromMsr
      <4>2. d \in DOMAIN Row(a, k) BY <1>8, <3>5, <4>1
      <4>3. Row(a, k)[d] = MeantT0(k, d) BY <1>2, <1>14, <2>1, <4>2 DEF TheirT0s
      <4> QED BY <1>8, <1>9, <3>5, <4>1, <4>2, <4>3 DEF AddT0Of
    <3> QED BY <3>4, <3>5
  <2> QED BY <2>2, <2>3
<1> QED BY <1>13, <1>14 DEF FoundAs

(* What GetProperT0 stores in the block is as it has been.                 *)
LEMMA FoundT0sOf ==
  ASSUME NEW w, ReadChoice(w), NEW c, c = WithAddT0s(WithT0s(run))
  PROVE  c \in Block /\ NoEmpty(c.addT0) /\ Len(c.addT0) >= setup.addRuns /\ T0sOf(c, w)
<1>1. /\ setup \in Setups /\ UsersTyped /\ run \in Block /\ Known(run) /\ AddT0sMatch(setup.addRuns, run)
      /\ global \in Block /\ global.t0 = UsersGlobal.t0 /\ T0sOf(run, w)
  BY DEF ReadChoice
<1>2. setup.addRuns \in Nat /\ 0 \in 0..setup.addRuns /\ setup.detectors \in Nat \ {0} /\ Detectors = 1..setup.detectors
  BY <1>1, SetupIs
<1>3. PICK b, a : b = WithT0s(run) /\ a = run OBVIOUS
<1>4. b \in Block /\ b.addT0 = a.addT0 BY <1>1, <1>3, T0sSet
<1>5. /\ c \in Block /\ NoEmpty(c.addT0) /\ Len(c.addT0) >= setup.addRuns
      /\ \A k \in 1..setup.addRuns, d \in Detectors : Stored(c, k, d, AddT0Of(b, k, d))
  <2>1. NoEmpty(b.addT0) BY <1>1, <1>3, <1>4 DEF Known
  <2>2. AddT0sMatch(setup.addRuns, b) BY <1>1, <1>3, <1>4 DEF AddT0sMatch
  <2>3. c = WithAddT0s(b) BY <1>3
  <2> QED BY <1>1, <1>4, <2>1, <2>2, <2>3, AddT0sStored
<1>6. c.t0 = b.t0 BY <1>1, <1>3, <1>4, AddT0sLonger
<1>7. /\ Len(b.t0) >= Len(a.t0) /\ \A d \in 1..Len(a.t0) : b.t0[d] = a.t0[d]
      /\ (\A d \in Detectors : FromMsr(d) = None \/ d \in 1..Len(a.t0)) =>
           \A d \in Detectors : d \in 1..Len(b.t0) => b.t0[d] = T0(d)
  <2>1. \A d \in 1..Len(run.t0) : run.t0[d] >= 0 BY <1>1 DEF Known
  <2> QED BY <1>1, <1>3, <2>1, T0sStored
<1>8. PICK n \in Nat, m \in Nat : n = Len(a.t0) /\ m = Len(b.t0) /\ DOMAIN a.t0 = 1..n /\ DOMAIN b.t0 = 1..m /\ n <= m
  <2>1. a \in Block BY <1>1, <1>3
  <2> QED BY <1>4, <1>7, <2>1, BlockIs, LenProperties
<1>9. Row(c, 0) = b.t0 /\ Row(a, 0) = a.t0 BY <1>6 DEF Row
<1>10. ASSUME NEW k \in 1..setup.addRuns, NEW d \in Detectors
       PROVE  d \in DOMAIN Row(c, k) /\ Row(c, k)[d] = T0Found(k, d)
  <2>1. Stored(c, k, d, AddT0Of(b, k, d)) BY <1>5
  <2>2. k # 0 OBVIOUS
  <2>3. c.addT0 \in Seq(Seq(Int)) /\ DOMAIN c.addT0 = 1..Len(c.addT0) BY <1>5, BlockIs, LenProperties
  <2>4. k \in 1..Len(c.addT0) BY <2>1 DEF Stored
  <2>5. Row(c, k) = c.addT0[k] BY <2>2, <2>3, <2>4 DEF Row
  <2>6. c.addT0[k] \in Seq(Int) BY <2>3, <2>4, ElementOfSeq
  <2>7. d \in DOMAIN Row(c, k) BY <2>1, <2>5, <2>6, LenProperties DEF Stored
  <2>8. Row(c, k)[d] = AddT0Of(b, k, d) BY <2>1, <2>5 DEF Stored
  <2> QED BY <1>3, <2>2, <2>7, <2>8 DEF T0Found
<1>11. UsersT0s(a) BY <1>1, <1>3 DEF T0sOf
<1>12. UsersT0s(c)
  <2>1. SUFFICES ASSUME NEW r \in 0..setup.addRuns, NEW d \in Detectors, d \in DOMAIN Row(UsersRun, r)
                 PROVE  d \in DOMAIN Row(c, r)
    BY DEF UsersT0s
  <2>2. CASE r = 0
    <3>1. d \in DOMAIN Row(a, 0) BY <1>11, <2>1, <2>2 DEF UsersT0s
    <3> QED BY <1>8, <1>9, <2>2, <3>1
  <2>3. CASE r # 0
    <3>1. r \in 1..setup.addRuns BY <1>2, <2>3
    <3> QED BY <1>10, <3>1
  <2> QED BY <2>2, <2>3
<1>13. ASSUME CanPlace PROVE KeptT0s(c, w)
  <2>1. SUFFICES ASSUME NEW r \in 0..setup.addRuns, NEW d \in Detectors, w.t0[r][d] # NotSet
                 PROVE  d \in DOMAIN Row(c, r) /\ Row(c, r)[d] = w.t0[r][d]
    BY DEF KeptT0s
  <2>2. CASE r = 0
    <3>1. KeptT0s(a, w) BY <1>1, <1>3, <1>13 DEF T0sOf
    <3>2. d \in DOMAIN Row(a, 0) /\ Row(a, 0)[d] = w.t0[0][d] BY <2>1, <2>2, <3>1 DEF KeptT0s
    <3>3. d \in 1..n BY <1>8, <1>9, <3>2
    <3> QED BY <1>7, <1>8, <1>9, <2>2, <3>2, <3>3
  <2>3. CASE r # 0
    <3>1. r \in 1..setup.addRuns BY <1>2, <2>3
    <3>2. FoundAs(w, r, d) BY <3>1, FoundAddT0
    <3> QED BY <1>10, <1>13, <2>1, <3>1, <3>2 DEF FoundAs
  <2> QED BY <2>2, <2>3
<1>14. ASSUME Complete PROVE TheirT0s(c, w)
  <2>1. SUFFICES ASSUME NEW r \in 0..setup.addRuns, NEW d \in Detectors, w.t0[r][d] = NotSet, d \in DOMAIN Row(c, r)
                 PROVE  Row(c, r)[d] = MeantT0(r, d)
    BY DEF TheirT0s
  <2>2. CASE r = 0 /\ d \in 1..n
    <3>1. TheirT0s(a, w) BY <1>1, <1>3, <1>14 DEF T0sOf
    <3>2. Row(a, 0)[d] = MeantT0(0, d) BY <1>8, <1>9, <2>1, <2>2, <3>1 DEF TheirT0s
    <3> QED BY <1>7, <1>8, <1>9, <2>2, <3>2
  <2>3. CASE r = 0 /\ d \notin 1..n
    <3>1. d \in 1..m BY <1>8, <1>9, <2>1, <2>3
    <3>2. a \in Block BY <1>1, <1>3
    <3>3. UsersRun.t0 = <<>> /\ Len(UsersGlobal.t0) \in {0, setup.detectors}
      <4>1. UsersRun.t0 # <<>> => Detectors \subseteq 1..Len(a.t0) BY <1>1, <1>11, <1>14, <3>2, CompleteRows
      <4>2. UsersRun.t0 = <<>> BY <1>8, <2>3, <4>1
      <4> QED BY <1>1, <1>11, <1>14, <3>2, <4>2, CompleteRows
    <3>4. UsersGlobal.t0 \in Seq(Int) /\ Known(UsersGlobal) BY <1>1 DEF UsersTyped
    <3>5. CASE Len(UsersGlobal.t0) = setup.detectors
      <4>1. ASSUME NEW e \in Detectors PROVE FromMsr(e) # None
        <5>1. e \in 1..Len(UsersGlobal.t0) BY <1>2, <3>5
        <5>2. UsersGlobal.t0[e] >= 0 BY <3>4, <5>1 DEF Known
        <5>3. GetAt(global.t0, e) # None
          <6>1. GetAt(UsersGlobal.t0, e) = UsersGlobal.t0[e] BY <3>4, <5>1, GetAtIs
          <6> QED BY <1>1, <5>2, <6>1 DEF None
        <5>4. GetAt(run.t0, e) # None => run.t0[e] # None
          <6>1. e \in DOMAIN run.t0 => GetAt(run.t0, e) = run.t0[e] BY DEF GetAt
          <6>2. e \notin DOMAIN run.t0 => GetAt(run.t0, e) = None BY DEF GetAt
          <6> QED BY <6>1, <6>2
        <5> QED BY <5>3, <5>4 DEF FromMsr
      <4>2. WithT0s(run).t0 = run.t0 BY <1>1, <4>1, T0sSet
      <4> QED BY <1>3, <1>8, <2>3, <3>1, <4>2
    <3>6. CASE Len(UsersGlobal.t0) = 0
      <4>1. ASSUME NEW e \in Detectors PROVE FromMsr(e) = None \/ e \in 1..Len(a.t0)
        <5>1. GetAt(global.t0, e) = None
          <6>1. DOMAIN UsersGlobal.t0 = 1..0 BY <3>4, <3>6, LenProperties
          <6> QED BY <1>1, <6>1 DEF GetAt
        <5>2. e \notin DOMAIN run.t0 => GetAt(run.t0, e) = None BY DEF GetAt
        <5> QED BY <1>3, <1>8, <5>1, <5>2 DEF FromMsr
      <4>2. b.t0[d] = T0(d) BY <1>7, <1>8, <3>1, <4>1
      <4>3. FoundAs(w, 0, d) BY FoundT0
      <4>4. T0(d) = MeantT0(0, d) BY <1>14, <2>1, <2>3, <4>3 DEF FoundAs, T0Found
      <4> QED BY <1>9, <2>3, <4>2, <4>4
    <3> QED BY <3>3, <3>5, <3>6
  <2>4. CASE r # 0
    <3>1. r \in 1..setup.addRuns BY <1>2, <2>4
    <3>2. FoundAs(w, r, d) BY <3>1, FoundAddT0
    <3> QED BY <1>10, <1>14, <2>1, <3>1, <3>2 DEF FoundAs
  <2> QED BY <2>2, <2>3, <2>4
<1> QED BY <1>5, <1>12, <1>13, <1>14 DEF T0sOf

-----------------------------------------------------------------------------
(* What holds whatever is set and left out, fit after fit and window after *)
(* window: the kinds; that the lines of the file stay the lines they are;  *)
(* and that a file that has been accepted once has its ranges in pairs.    *)

RunFile == ReadBlock(file.run)

WindowTyped ==
  /\ FilesTyped /\ session \in 1..MaxSessions /\ UsersFile
  /\ Known(UsersRun) /\ Known(UsersGlobal)
  /\ run \in Block /\ global \in Block /\ Writable(file.run, run)
  /\ Known(RunFile) /\ RunFile \in Block

Kinds ==
  /\ IF phase \in T0Phases THEN WindowTyped ELSE Sessions
  /\ chosen \in AnyChoice /\ written \in AnyChoice
  /\ phase \in T0Phases => item \in 1..Len(Items)

FileOnce ==
  /\ Once(file.run, {"t0"}) /\ Once(file.run, FitWords)
  /\ HasAny(file.run, FitWords) <=> HasPlace

FileAccepted ==
  /\ phase \in Busy \cup T0Phases => AddT0sMatch(setup.addRuns, RunFile)
  /\ session > 1 \/ phase \in Busy \cup T0Phases => PairedUser

Whole ==
  /\ "t0" \notin gaps => written = NothingChosen \/ NoGaps(written)
  /\ "range" \notin gaps /\ PairedUser => RangesComplete(written)

(* The t0's and ranges in the file are those that have been written, *)
FileT0s ==
  "t0" \notin gaps /\ Known(UsersRun) /\ AddT0sMatch(setup.addRuns, RunFile) => T0sOf(RunFile, written)

FileRanges ==
  "range" \notin gaps /\ HasPlace /\ PairedUser => RangesOf(RunFile, written)

(* so are those in the block, and those a fit uses, *)
Used(r, d) == IF r = 0 THEN t0s[d] ELSE addT0s[r][d]

UsedAs(r, d) ==
  /\ CanPlace /\ written.t0[r][d] # NotSet => Used(r, d) = written.t0[r][d]
  /\ Complete /\ written.t0[r][d] = NotSet => Used(r, d) = MeantT0(r, d)

AllUsed == \A r \in 0..setup.addRuns : \A d \in Detectors : UsedAs(r, d)

RunT0s ==
  phase \in Prepared =>
    /\ NoEmpty(run.addT0) /\ Len(run.addT0) >= setup.addRuns
    /\ "t0" \notin gaps => T0sOf(run, written) /\ AllUsed

RunRanges ==
  "range" \notin gaps /\ HasPlace =>
    /\ phase \in Busy => RangesOf(run, written)
    /\ phase \in T0Phases => RangesOf(run, chosen)

(* and while musrt0 runs the block is that of the file with what is set.   *)
SetAgain ==
  \A r \in 0..setup.addRuns : \A d \in Detectors : written.t0[r][d] # NotSet => chosen.t0[r][d] # NotSet

WindowT0s ==
  phase \in T0Phases =>
    /\ Grown(RunFile, run, chosen) /\ SetAgain
    /\ "t0" \notin gaps /\ CanPlace => KeptT0s(run, chosen)

FilePart == FileOnce /\ Whole /\ FileT0s /\ FileRanges
RunPart == RunT0s /\ RunRanges /\ WindowT0s
T0Inv == Kinds /\ FileAccepted /\ FilePart /\ RunPart

(* Only the setup and the user's file matter to what these say of a block   *)
(* and a choice.                                                           *)
Fixed == setup' = setup /\ user' = user

LEMMA FixedIs ==
  ASSUME Fixed
  PROVE  /\ (HasPlace' <=> HasPlace) /\ (CanPlace' <=> CanPlace) /\ (PairedUser' <=> PairedUser)
         /\ Detectors' = Detectors /\ NothingChosen' = NothingChosen /\ AnyChoice' = AnyChoice
         /\ UsersRun' = UsersRun /\ UsersGlobal' = UsersGlobal /\ (Complete' <=> Complete)
<1>1. /\ UsersRun' = UsersRun /\ UsersGlobal' = UsersGlobal /\ Detectors' = Detectors
      /\ Complete' <=> Complete
  BY UsersSame DEF Fixed
<1>2. HasPlace' <=> HasPlace BY DEF HasPlace, Fixed
<1>3. CanPlace' <=> CanPlace BY <1>2 DEF CanPlace, Fixed
<1>4. PairedUser' <=> PairedUser BY <1>1 DEF PairedUser
<1>5. NothingChosen' = NothingChosen BY <1>1 DEF NothingChosen, Fixed
<1>6. AnyChoice' = AnyChoice BY <1>1 DEF AnyChoice, Fixed
<1> QED BY <1>1, <1>2, <1>3, <1>4, <1>5, <1>6

LEMMA ItemsFixed ==
  ASSUME Fixed PROVE Items' = Items
BY DEF Fixed, Items, SideSeq, T0Items, RangeItems, Plain, Histos, GroupOf, Detectors

LEMMA WrittenIs ==
  ASSUME Fixed, NEW w, w = written'
  PROVE  /\ NoGaps(written)' <=> NoGaps(w)
         /\ RangesComplete(written)' <=> RangesComplete(w)
<1>1. UsersRun' = UsersRun /\ Detectors' = Detectors BY FixedIs
<1>2. NoGaps(written)' <=> NoGaps(w) BY <1>1 DEF Fixed, NoGaps, T0Set, Prefix
<1>3. RangesComplete(written)' <=> RangesComplete(w) BY <1>1 DEF RangesComplete, Pairs
<1> QED BY <1>2, <1>3

LEMMA T0sOfRun ==
  ASSUME Fixed, NEW b, b = run', NEW w, w = written', T0sOf(b, w)
  PROVE  T0sOf(run, written)'
<1>1. /\ UsersRun' = UsersRun /\ Detectors' = Detectors /\ (CanPlace' <=> CanPlace) /\ (Complete' <=> Complete)
      /\ \A r, d : MeantT0(r, d)' = MeantT0(r, d)
  BY FixedIs, UsersSame DEF Fixed
<1>2. UsersT0s(run)' BY <1>1 DEF Fixed, T0sOf, UsersT0s, Row
<1>3. CanPlace => KeptT0s(run, written)' BY <1>1 DEF Fixed, T0sOf, KeptT0s, Row
<1>4. Complete => TheirT0s(run, written)' BY <1>1 DEF Fixed, T0sOf, TheirT0s, Row
<1> QED BY <1>1, <1>2, <1>3, <1>4 DEF T0sOf

LEMMA T0sOfFile ==
  ASSUME Fixed, NEW b, b = RunFile', NEW w, w = written', T0sOf(b, w)
  PROVE  T0sOf(RunFile, written)'
<1>1. /\ UsersRun' = UsersRun /\ Detectors' = Detectors /\ (CanPlace' <=> CanPlace) /\ (Complete' <=> Complete)
      /\ \A r, d : MeantT0(r, d)' = MeantT0(r, d)
  BY FixedIs, UsersSame DEF Fixed
<1>2. UsersT0s(RunFile)' BY <1>1 DEF Fixed, T0sOf, UsersT0s, Row
<1>3. CanPlace => KeptT0s(RunFile, written)' BY <1>1 DEF Fixed, T0sOf, KeptT0s, Row
<1>4. Complete => TheirT0s(RunFile, written)' BY <1>1 DEF Fixed, T0sOf, TheirT0s, Row
<1> QED BY <1>1, <1>2, <1>3, <1>4 DEF T0sOf

LEMMA KeptByRun ==
  ASSUME Fixed, NEW b, b = run', NEW x, x = chosen'
  PROVE  /\ KeptT0s(b, x) => KeptT0s(run, chosen)'
         /\ RangesOf(b, x) => RangesOf(run, chosen)'
<1>1. UsersRun' = UsersRun /\ Detectors' = Detectors BY FixedIs
<1>2. KeptT0s(b, x) => KeptT0s(run, chosen)' BY <1>1 DEF Fixed, KeptT0s, Row
<1>3. RangesOf(b, x) => RangesOf(run, chosen)' BY <1>1 DEF RangesOf, RangeOf, RangeIn, Given
<1> QED BY <1>2, <1>3

LEMMA RangesOfRun ==
  ASSUME Fixed, NEW b, b = run', NEW w, w = written', RangesOf(b, w)
  PROVE  RangesOf(run, written)'
<1>1. UsersRun' = UsersRun BY FixedIs
<1> QED BY <1>1 DEF RangesOf, RangeOf, RangeIn, Given

LEMMA RangesOfFile ==
  ASSUME Fixed, NEW b, b = RunFile', NEW w, w = written', RangesOf(b, w)
  PROVE  RangesOf(RunFile, written)'
<1>1. UsersRun' = UsersRun BY FixedIs
<1> QED BY <1>1 DEF RangesOf, RangeOf, RangeIn, Given

LEMMA GrownInFile ==
  ASSUME Fixed, NEW f, f = RunFile', NEW b, b = run', NEW x, x = chosen', Grown(f, b, x)
  PROVE  Grown(RunFile, run, chosen)'
<1>1. Detectors' = Detectors BY FixedIs
<1> QED BY <1>1 DEF Fixed, Grown, Row

LEMMA GrownNothing ==
  ASSUME setup \in Setups, NEW f \in Block, NEW x
  PROVE  Grown(f, f, x)
<1>1. setup.addRuns \in Nat BY SetupIs
<1>2. ASSUME NEW r \in 0..setup.addRuns
      PROVE  Len(Row(f, r)) \in Nat /\ DOMAIN Row(f, r) = 1..Len(Row(f, r))
  <2>1. r \in Nat BY <1>1
  <2> QED BY <2>1, RowIs
<1>3. Len(f.addT0) \in Nat /\ DOMAIN f.addT0 = 1..Len(f.addT0) BY BlockIs, LenProperties
<1> QED BY <1>2, <1>3 DEF Grown

(* A step that leaves the file and what has been written as they are.      *)
LEMMA FileKeeps ==
  ASSUME Fixed, file' = file, written' = written, gaps' = gaps, FilePart
  PROVE  FilePart'
<1>1. /\ (HasPlace' <=> HasPlace) /\ (PairedUser' <=> PairedUser)
      /\ NothingChosen' = NothingChosen /\ UsersRun' = UsersRun
  BY FixedIs
<1>2. RunFile' = RunFile BY DEF RunFile
<1>3. PICK f, w : f = RunFile' /\ w = written' OBVIOUS
<1>4. f = RunFile /\ w = written BY <1>2, <1>3
<1>5. FileOnce' BY <1>1 DEF FilePart, FileOnce, Once, HasAny
<1>6. Whole' BY <1>1, <1>3, <1>4, WrittenIs DEF FilePart, Whole
<1>7. FileT0s'
  <2>1. SUFFICES ASSUME "t0" \notin gaps, Known(UsersRun), AddT0sMatch(setup.addRuns, f)
                 PROVE  T0sOf(RunFile, written)'
    BY <1>1, <1>2, <1>4 DEF FileT0s, Fixed
  <2>2. T0sOf(f, w) BY <1>4, <2>1 DEF FilePart, FileT0s
  <2> QED BY <1>3, <2>2, T0sOfFile
<1>8. FileRanges'
  <2>1. SUFFICES ASSUME "range" \notin gaps, HasPlace, PairedUser PROVE RangesOf(RunFile, written)'
    BY <1>1 DEF FileRanges
  <2>2. RangesOf(f, w) BY <1>4, <2>1 DEF FilePart, FileRanges
  <2> QED BY <1>3, <2>2, RangesOfFile
<1> QED BY <1>5, <1>6, <1>7, <1>8 DEF FilePart

LEMMA UsersAre ==
  ASSUME FilesTyped
  PROVE  /\ UsersRun.t0 \in Seq(Int) /\ UsersRun.addT0 \in Seq(Seq(Int)) /\ UsersGlobal.t0 \in Seq(Int)
         /\ UsersRun.data \in [1..4 -> Int] /\ UsersRun.bkg \in [1..4 -> Int]
<1>1. PICK r, g : r = user.run /\ g = user.global /\ r \in Seq(Lines) /\ g \in Seq(Lines)
  BY DEF FilesTyped
<1>2. UsersRun \in Blocks(r) /\ UsersGlobal \in Blocks(g)
  BY <1>1, ReadBlockIs DEF UsersRun, UsersGlobal
<1>3. PICK T, A, R : T = Seq(Int) /\ A = Seq(T) /\ R = [1..4 -> Int]
  OBVIOUS
<1>4. /\ UsersRun.t0 \in T /\ UsersRun.addT0 \in A /\ UsersGlobal.t0 \in T
      /\ UsersRun.data \in R /\ UsersRun.bkg \in R
  BY <1>2, <1>3 DEF Blocks
<1> QED BY <1>3, <1>4

(* Before anything is set the t0's are the user's. *)
LEMMA NothingChosenT0s ==
  ASSUME setup \in Setups, FilesTyped, Known(UsersRun)
  PROVE  T0sOf(UsersRun, NothingChosen)
<1>1. setup.addRuns \in Nat BY SetupIs
<1>2. ASSUME NEW r \in 0..setup.addRuns, NEW d \in Detectors PROVE NothingChosen.t0[r][d] = NotSet
  BY DEF NothingChosen
<1>3. UsersT0s(UsersRun) /\ KeptT0s(UsersRun, NothingChosen) BY <1>2 DEF UsersT0s, KeptT0s
<1>4. TheirT0s(UsersRun, NothingChosen)
  <2>1. SUFFICES ASSUME NEW r \in 0..setup.addRuns, NEW d \in Detectors, d \in DOMAIN Row(UsersRun, r)
                 PROVE  Row(UsersRun, r)[d] = MeantT0(r, d)
    BY DEF TheirT0s
  <2>2. r \in Nat BY <1>1
  <2>3. PICK u : u = UsersRun OBVIOUS
  <2>4. u.t0 \in Seq(Int) /\ u.addT0 \in Seq(Seq(Int)) /\ Known(u) BY <2>3, UsersAre
  <2>5. /\ GetAt(Row(u, r), d) = Row(u, r)[d] /\ GetAt(Row(u, r), d) # None
        /\ (IF r = 0 THEN GetAt(u.t0, d) ELSE GetAddT0(u, r, d)) = GetAt(Row(u, r), d)
    BY <2>1, <2>2, <2>3, <2>4, RowGet
  <2> QED BY <2>3, <2>5 DEF MeantT0
<1> QED BY <1>3, <1>4 DEF T0sOf

LEMMA T0InvInit ==
  T0Init => T0Inv
<1> SUFFICES ASSUME T0Init PROVE T0Inv
  OBVIOUS
<1>1. /\ Init /\ setup \in Setups /\ user \in UserFiles[setup] /\ file = user /\ phase = "start" /\ session = 1
      /\ chosen = NothingChosen /\ written = NothingChosen /\ gaps = {}
  BY DEF T0Init, Init
<1>2. Sessions BY <1>1, SessionsInit
<1>3. FilesTyped BY <1>2 DEF Sessions
<1>4. phase \notin T0Phases /\ phase \notin Busy /\ phase \notin Prepared BY <1>1 DEF T0Phases, Busy, Prepared
<1>5. Kinds BY <1>1, <1>2, <1>4, NothingChosenIs DEF Kinds
<1>6. FileAccepted BY <1>1, <1>4 DEF FileAccepted
<1>7. RunPart BY <1>4 DEF RunPart, RunT0s, RunRanges, WindowT0s
<1>8. FileOnce
  <2>1. Once(user.run, {"t0"}) /\ Once(user.run, {"fit", "fit fgb"}) BY <1>1, OnceAssumption
  <2>2. HasAny(user.run, FitWords) <=> HasPlace BY DEF HasAny, HasPlace, Has, FitWords
  <2> QED BY <1>1, <2>1, <2>2 DEF FileOnce, FitWords
<1>9. RunFile = UsersRun BY <1>1 DEF RunFile, UsersRun
<1>10. PairedUser => RangesComplete(NothingChosen) /\ RangesOf(UsersRun, NothingChosen)
  BY NothingChosenRanges
<1>11. Whole BY <1>1, <1>10 DEF Whole
<1>12. FileT0s
  <2>1. Known(UsersRun) => T0sOf(UsersRun, NothingChosen) BY <1>1, <1>3, NothingChosenT0s
  <2> QED BY <1>1, <1>9, <2>1 DEF FileT0s
<1>13. FileRanges BY <1>1, <1>9, <1>10 DEF FileRanges
<1> QED BY <1>5, <1>6, <1>7, <1>8, <1>11, <1>12, <1>13 DEF T0Inv, FilePart

-----------------------------------------------------------------------------
(* The steps of a fit.                                                     *)

LEMMA FitIs ==
  ASSUME Kinds, Next
  PROVE  /\ Fixed /\ phase \notin T0Phases /\ phase' \notin T0Phases /\ Sessions /\ Sessions'
<1>1. Fixed
  BY DEF Fixed, Next, Prepare, Read, GetProperT0, EstimateBkg, GetProperDataRange, GetProperFitRange,
         PrepareFitData, CalcNoOfFitBins, FitRangeBin, WriteMsrLogFile, Terminated, vars
<1>2. phase \notin T0Phases
  BY DEF T0Phases, Next, Prepare, Read, GetProperT0, EstimateBkg, GetProperDataRange, GetProperFitRange,
         PrepareFitData, CalcNoOfFitBins, FitRangeBin, WriteMsrLogFile, Terminated
<1>3. Sessions BY <1>2 DEF Kinds
<1>4. Sessions' BY <1>3, SessionsStep
<1>5. phase' \notin T0Phases BY <1>4 DEF Sessions, SessionsTyped, T0Phases, Busy
<1> QED BY <1>1, <1>2, <1>3, <1>4, <1>5

LEMMA FitKinds ==
  ASSUME Kinds, Next, UNCHANGED t0vars
  PROVE  Kinds'
<1>1. Fixed /\ phase' \notin T0Phases /\ Sessions' BY FitIs
<1>2. chosen' = chosen /\ written' = written BY DEF t0vars
<1>3. AnyChoice' = AnyChoice BY <1>1, FixedIs
<1>4. phase' \notin T0Phases => (phase \notin T0Phases)' BY DEF T0Phases
<1> QED BY <1>1, <1>2, <1>3, <1>4 DEF Kinds, T0Phases

(* A file that is accepted has its ranges in pairs. *)
LEMMA AcceptedIs ==
  ASSUME FilesTyped, UsersFile, phase = "start", session \in Nat \ {0}, FileAccepted,
         Legal(file, setup.single, setup.addRuns)
  PROVE  /\ PairedUser /\ AddT0sMatch(setup.addRuns, RunFile)
         /\ Known(UsersRun) /\ Known(UsersGlobal)
         /\ RunFile \in Block /\ Known(RunFile) /\ Writable(file.run, RunFile)
         /\ ReadBlock(file.global) \in Block
<1>1. PICK r, g : r = file.run /\ g = file.global /\ r \in Seq(Lines) /\ g \in Seq(Lines)
  BY DEF FilesTyped
<1>2. /\ \A i \in DOMAIN r : LegalLine(r[i])
      /\ \A i \in DOMAIN g : LegalGlobalLine(g[i])
      /\ AddT0sMatch(setup.addRuns, RunFile)
  BY <1>1 DEF Legal, RunFile
<1>3. ReadBlock(r) \in Block /\ Known(ReadBlock(r))
  BY <1>1, <1>2, ReadFile
<1>4. ReadBlock(g) \in Block /\ Known(ReadBlock(g))
  BY <1>1, <1>2, ReadFile
<1>5. Writable(r, ReadBlock(r))
  <2>1. Len(ReadBlock(r).addT0) = AddT0LinesBefore(r, Len(r) + 1)
    BY <1>1, AddT0sCounted
  <2>2. Len(ReadBlock(r).addT0) \in Nat
    BY <1>3, BlockIs
  <2> QED BY <1>3, <2>1, <2>2 DEF Writable
<1>6. CASE session = 1
  <2>1. UsersRun = ReadBlock(r) /\ UsersGlobal = ReadBlock(g)
    BY <1>1, <1>6 DEF UsersFile, UsersRun, UsersGlobal
  <2>2. "data" \in RangeWords /\ "background" \in RangeWords BY DEF RangeWords
  <2>3. PairedRange(RangeIn(ReadBlock(r), "data")) /\ PairedRange(RangeIn(ReadBlock(r), "background"))
    BY <1>1, <1>2, <2>2, LegalRanges
  <2>4. PairedUser BY <2>1, <2>3 DEF RangeIn, PairedUser
  <2> QED BY <1>1, <1>2, <1>3, <1>4, <1>5, <2>1, <2>4 DEF RunFile
<1>7. CASE session > 1
  <2>1. PairedUser BY <1>7 DEF FileAccepted
  <2>2. Known(UsersRun) /\ Known(UsersGlobal) BY <1>7 DEF UsersFile
  <2> QED BY <1>1, <1>2, <1>3, <1>4, <1>5, <2>1, <2>2 DEF RunFile
<1> QED BY <1>6, <1>7

LEMMA ReadKeeps ==
  ASSUME T0Inv, Read, UNCHANGED t0vars
  PROVE  FileAccepted' /\ FilePart' /\ RunPart'
<1>1. /\ phase = "start" /\ setup' = setup /\ user' = user /\ file' = file /\ session' = session
      /\ phase' \in {"t0", "refused"}
      /\ phase' = "t0" => Legal(file, setup.single, setup.addRuns) /\ run' = RunFile
      /\ written' = written /\ gaps' = gaps
  BY DEF Read, t0vars, RunFile
<1>2. Kinds /\ FileAccepted /\ FilePart BY DEF T0Inv
<1>3. Fixed /\ Sessions BY <1>1, <1>2 DEF Fixed, Kinds, T0Phases
<1>4. FilePart' BY <1>1, <1>2, <1>3, FileKeeps
<1>5. FilesTyped /\ UsersFile /\ session \in Nat \ {0} BY <1>3 DEF Sessions, SessionsTyped
<1>6. phase' = "t0" => PairedUser /\ AddT0sMatch(setup.addRuns, RunFile)
  BY <1>1, <1>2, <1>5, AcceptedIs
<1>7. RunFile' = RunFile BY <1>1 DEF RunFile
<1>8. (PairedUser' <=> PairedUser) /\ (HasPlace' <=> HasPlace) BY <1>3, FixedIs
<1>9. phase' \notin T0Phases /\ phase' \notin Prepared /\ (phase' \in Busy => phase' = "t0")
  BY <1>1 DEF T0Phases, Prepared, Busy
<1>10. FileAccepted'
  <2>1. phase' \in Busy \cup T0Phases => AddT0sMatch(setup'.addRuns, RunFile') BY <1>1, <1>6, <1>7, <1>9
  <2>2. session' > 1 \/ phase' \in Busy \cup T0Phases => PairedUser' BY <1>1, <1>2, <1>6, <1>8, <1>9 DEF FileAccepted
  <2> QED BY <2>1, <2>2 DEF FileAccepted, Busy, T0Phases
<1>11. RunT0s' /\ WindowT0s' BY <1>9 DEF RunT0s, WindowT0s, Prepared, T0Phases
<1>12. RunRanges'
  <2>1. ASSUME "range" \notin gaps, HasPlace, phase' \in Busy PROVE RangesOf(run, written)'
    <3>1. phase' = "t0" /\ PairedUser BY <1>6, <1>9, <2>1
    <3>2. RangesOf(RunFile, written) BY <1>2, <2>1, <3>1 DEF FilePart, FileRanges
    <3>3. PICK b, w : b = run' /\ w = written' OBVIOUS
    <3>4. RangesOf(b, w) BY <1>1, <3>1, <3>2, <3>3
    <3> QED BY <1>3, <3>3, <3>4, RangesOfRun
  <2> QED BY <1>1, <1>8, <1>9, <2>1 DEF RunRanges, Busy, T0Phases
<1> QED BY <1>4, <1>10, <1>11, <1>12 DEF RunPart

(* A step from a block that has been read to one that has.                 *)
LEMMA AcceptedKept ==
  ASSUME Fixed, file' = file, session' = session, phase \in Busy, phase' \in Busy, FileAccepted
  PROVE  FileAccepted'
<1>1. PairedUser' <=> PairedUser BY FixedIs
<1>2. RunFile' = RunFile BY DEF RunFile
<1> QED BY <1>1, <1>2 DEF FileAccepted, Fixed, Busy

(* A step that leaves the t0's as they are.                                *)
LEMMA RunT0sKept ==
  ASSUME Fixed, run'.t0 = run.t0, run'.addT0 = run.addT0, t0s' = t0s, addT0s' = addT0s,
         written' = written, gaps' = gaps, phase \in Prepared, RunT0s
  PROVE  RunT0s'
<1>1. /\ Detectors' = Detectors /\ (CanPlace' <=> CanPlace) /\ (Complete' <=> Complete)
      /\ \A r, d : MeantT0(r, d)' = MeantT0(r, d)
  BY FixedIs, UsersSame DEF Fixed
<1>2. NoEmpty(run'.addT0) /\ Len(run'.addT0) >= setup'.addRuns BY DEF RunT0s, Fixed
<1>3. ASSUME "t0" \notin gaps PROVE T0sOf(run, written)'
  <2>1. PICK b, w : b = run' /\ w = written' OBVIOUS
  <2>2. T0sOf(run, written) BY <1>3 DEF RunT0s
  <2>3. b.t0 = run.t0 /\ b.addT0 = run.addT0 /\ w = written BY <2>1
  <2>4. T0sOf(b, w) BY <2>2, <2>3 DEF T0sOf, UsersT0s, KeptT0s, TheirT0s, Row
  <2> QED BY <2>1, <2>4, T0sOfRun
<1>4. ASSUME "t0" \notin gaps PROVE AllUsed'
  <2>1. AllUsed BY <1>4 DEF RunT0s
  <2> QED BY <1>1, <2>1 DEF AllUsed, UsedAs, Used, Fixed
<1> QED BY <1>2, <1>3, <1>4 DEF RunT0s

LEMMA GetProperT0Keeps ==
  ASSUME T0Inv, GetProperT0, UNCHANGED t0vars
  PROVE  FileAccepted' /\ FilePart' /\ RunPart'
<1>1. /\ phase = "t0" /\ phase' \in {"data", "background", "failed"}
      /\ setup' = setup /\ user' = user /\ file' = file /\ session' = session
      /\ run' = WithAddT0s(WithT0s(run))
      /\ t0s' = [d \in Detectors |-> T0(d)]
      /\ addT0s' = [k \in 1..setup.addRuns |-> [d \in Detectors |-> AddT0Of(WithT0s(run), k, d)]]
      /\ written' = written /\ gaps' = gaps
  BY DEF GetProperT0, t0vars
<1>2. /\ Kinds /\ FileAccepted /\ FilePart /\ Sessions /\ phase \in Busy /\ phase' \in Busy
      /\ phase' \in Prepared /\ phase' \notin T0Phases
  BY <1>1 DEF T0Inv, Kinds, T0Phases, Busy, Prepared
<1>3. Fixed BY <1>1 DEF Fixed
<1>4. FilePart' BY <1>1, <1>2, <1>3, FileKeeps
<1>5. FileAccepted' BY <1>1, <1>2, <1>3, AcceptedKept
<1>6. WindowT0s' BY <1>1 DEF WindowT0s, T0Phases
<1>7. /\ setup \in Setups /\ FilesTyped /\ run \in Block /\ global \in Block /\ global.t0 = UsersGlobal.t0
      /\ Known(run) /\ AddT0sMatch(setup.addRuns, run) /\ run = RunFile
      /\ Known(UsersRun) /\ Known(UsersGlobal) /\ PairedUser
  BY <1>1, <1>2 DEF Sessions, FilesTyped, BlocksTyped, ReadBefore, UsersFile, RunFile, FileAccepted
<1>8. PICK b, c : b = WithT0s(run) /\ c = run' OBVIOUS
<1>9. b \in Block /\ b.addT0 = run.addT0 BY <1>7, <1>8, T0sSet
<1>10. c = WithAddT0s(b) BY <1>1, <1>8
<1>11. c \in Block /\ NoEmpty(c.addT0) /\ Len(c.addT0) >= setup.addRuns
  <2>1. NoEmpty(b.addT0) BY <1>7, <1>9 DEF Known
  <2>2. AddT0sMatch(setup.addRuns, b) BY <1>7, <1>9 DEF AddT0sMatch
  <2> QED BY <1>7, <1>9, <1>10, <2>1, <2>2, AddT0sStored
<1>12. PICK w : w = written OBVIOUS
<1>13. ASSUME "t0" \notin gaps PROVE ReadChoice(w)
  <2>1. UsersTyped BY <1>7, UsersAre DEF UsersTyped
  <2>2. T0sOf(RunFile, written) BY <1>2, <1>7, <1>13 DEF FilePart, FileT0s
  <2>3. T0sOf(run, w) BY <1>7, <1>12, <2>2
  <2>4. w = NothingChosen \/ NoGaps(w) BY <1>2, <1>12, <1>13 DEF FilePart, Whole
  <2> QED BY <1>7, <2>1, <2>3, <2>4 DEF ReadChoice
<1>14. ASSUME "t0" \notin gaps PROVE T0sOf(run, written)'
  <2>1. T0sOf(c, w)
    <3>1. ReadChoice(w) BY <1>13, <1>14
    <3>2. c = WithAddT0s(WithT0s(run)) BY <1>1, <1>8
    <3> QED BY <3>1, <3>2, FoundT0sOf
  <2>2. w = written' BY <1>1, <1>12
  <2> QED BY <1>3, <1>8, <2>1, <2>2, T0sOfRun
<1>15. ASSUME "t0" \notin gaps PROVE AllUsed'
  <2>1. ReadChoice(w) BY <1>13, <1>15
  <2>2. /\ Detectors' = Detectors /\ (CanPlace' <=> CanPlace) /\ (Complete' <=> Complete)
        /\ \A r, d : MeantT0(r, d)' = MeantT0(r, d)
    BY <1>3, FixedIs, UsersSame DEF Fixed
  <2>3. setup.addRuns \in Nat BY <1>7, SetupIs
  <2>4. PICK t, a : t = t0s' /\ a = addT0s' OBVIOUS
  <2>5. ASSUME NEW r \in 0..setup.addRuns, NEW d \in Detectors
        PROVE  /\ CanPlace /\ w.t0[r][d] # NotSet => (IF r = 0 THEN t[d] ELSE a[r][d]) = w.t0[r][d]
               /\ Complete /\ w.t0[r][d] = NotSet => (IF r = 0 THEN t[d] ELSE a[r][d]) = MeantT0(r, d)
    <3>1. CASE r = 0
      <4>1. FoundAs(w, 0, d) BY <2>1, FoundT0
      <4>2. t[d] = T0(d) BY <1>1, <2>4
      <4> QED BY <3>1, <4>1, <4>2 DEF FoundAs, T0Found
    <3>2. CASE r # 0
      <4>1. r \in 1..setup.addRuns BY <2>3, <3>2
      <4>2. FoundAs(w, r, d) BY <2>1, <4>1, FoundAddT0
      <4>3. a[r][d] = AddT0Of(WithT0s(run), r, d) BY <1>1, <2>4, <4>1
      <4> QED BY <3>2, <4>2, <4>3 DEF FoundAs, T0Found
    <3> QED BY <3>1, <3>2
  <2> QED BY <1>1, <1>12, <2>2, <2>4, <2>5 DEF AllUsed, UsedAs, Used
<1>16. RunT0s'
  <2>1. NoEmpty(run'.addT0) /\ Len(run'.addT0) >= setup'.addRuns BY <1>1, <1>8, <1>11
  <2> QED BY <1>1, <1>14, <1>15, <2>1 DEF RunT0s
<1>17. RunRanges'
  <2>1. ASSUME "range" \notin gaps, HasPlace PROVE RangesOf(run, written)'
    <3>1. RangesOf(RunFile, written) BY <1>2, <1>7, <2>1 DEF FilePart, FileRanges
    <3>2. SameRanges(run, b) BY <1>7, <1>8, T0sKeepRanges
    <3>3. SameRanges(b, c) BY <1>7, <1>9, <1>10, AddT0sKeepRanges
    <3>4. c.data = run.data /\ c.bkg = run.bkg BY <3>2, <3>3 DEF SameRanges
    <3>5. RangesOf(run, w) BY <1>7, <1>12, <3>1
    <3>6. RangesOf(c, w) BY <3>4, <3>5 DEF RangesOf, RangeOf, RangeIn
    <3>7. w = written' BY <1>1, <1>12
    <3> QED BY <1>3, <1>8, <3>6, <3>7, RangesOfRun
  <2>2. HasPlace' <=> HasPlace BY <1>3, FixedIs
  <2> QED BY <1>1, <2>1, <2>2 DEF RunRanges, T0Phases
<1> QED BY <1>4, <1>5, <1>6, <1>16, <1>17 DEF RunPart

LEMMA RangeStepsKeep ==
  ASSUME T0Inv, EstimateBkg \/ GetProperDataRange, UNCHANGED t0vars
  PROVE  FileAccepted' /\ FilePart' /\ RunPart'
<1>1. /\ phase \in {"background", "data"} /\ phase' \in {"bins", "data", "range", "failed"}
      /\ setup' = setup /\ user' = user /\ file' = file /\ session' = session
      /\ t0s' = t0s /\ addT0s' = addT0s /\ run' \in {run, WithBkg(run), WithData(run)}
      /\ written' = written /\ gaps' = gaps
  BY DEF EstimateBkg, GetProperDataRange, t0vars
<1>2. /\ Kinds /\ FileAccepted /\ FilePart /\ Sessions /\ phase \in Busy /\ phase' \in Busy
      /\ phase \in Prepared /\ phase' \in Prepared /\ phase' \notin T0Phases /\ RunT0s /\ RunRanges
  BY <1>1 DEF T0Inv, Kinds, T0Phases, Busy, Prepared, RunPart
<1>3. Fixed BY <1>1 DEF Fixed
<1>4. FilePart' BY <1>1, <1>2, <1>3, FileKeeps
<1>5. FileAccepted' BY <1>1, <1>2, <1>3, AcceptedKept
<1>6. WindowT0s' BY <1>1 DEF WindowT0s, T0Phases
<1>7. run'.t0 = run.t0 /\ run'.addT0 = run.addT0 BY <1>2, EstimateBkgSessions, DataRangeSessions
<1>8. RunT0s' BY <1>1, <1>2, <1>3, <1>7, RunT0sKept
<1>9. /\ setup \in Setups /\ run \in Block /\ t0s \in [Detectors -> Int] /\ PairedUser
  BY <1>2 DEF Sessions, FilesTyped, BlocksTyped, T0sTyped, FileAccepted
<1>10. RunRanges'
  <2>1. ASSUME "range" \notin gaps, HasPlace PROVE RangesOf(run, written)'
    <3>1. PICK c, w : c = run' /\ w = written OBVIOUS
    <3>2. RangesOf(run, w) BY <1>2, <2>1, <3>1 DEF RunRanges
    <3>3. RangesComplete(w) BY <1>2, <1>9, <2>1, <3>1 DEF FilePart, Whole
    <3>4. RangesOf(WithBkg(run), w) BY <1>9, <3>2, <3>3, BkgKept
    <3>5. RangesOf(WithData(run), w) BY <1>9, <3>2, <3>3, DataKept
    <3>6. RangesOf(c, w) BY <1>1, <3>1, <3>2, <3>4, <3>5
    <3>7. w = written' BY <1>1, <3>1
    <3> QED BY <1>3, <3>1, <3>6, <3>7, RangesOfRun
  <2>2. HasPlace' <=> HasPlace BY <1>3, FixedIs
  <2> QED BY <1>1, <2>1, <2>2 DEF RunRanges, T0Phases
<1> QED BY <1>4, <1>5, <1>6, <1>8, <1>10 DEF RunPart

LEMMA OtherStepsKeep ==
  ASSUME T0Inv, GetProperFitRange \/ PrepareFitData \/ CalcNoOfFitBins \/ FitRangeBin, UNCHANGED t0vars
  PROVE  FileAccepted' /\ FilePart' /\ RunPart'
<1>1. /\ phase \in {"range", "bins", "commanded", "done"} /\ phase' \in {"background", "bins", "done", "commanded"}
      /\ setup' = setup /\ user' = user /\ file' = file /\ session' = session
      /\ t0s' = t0s /\ addT0s' = addT0s /\ run' = run
      /\ written' = written /\ gaps' = gaps
  BY DEF GetProperFitRange, PrepareFitData, CalcNoOfFitBins, FitRangeBin, t0vars
<1>2. /\ FileAccepted /\ FilePart /\ phase \in Busy /\ phase' \in Busy
      /\ phase \in Prepared /\ phase' \notin T0Phases /\ RunT0s /\ RunRanges
  BY <1>1 DEF T0Inv, T0Phases, Busy, Prepared, RunPart
<1>3. Fixed BY <1>1 DEF Fixed
<1>4. FilePart' BY <1>1, <1>2, <1>3, FileKeeps
<1>5. FileAccepted' BY <1>1, <1>2, <1>3, AcceptedKept
<1>6. WindowT0s' BY <1>1 DEF WindowT0s, T0Phases
<1>7. RunT0s' BY <1>1, <1>2, <1>3, RunT0sKept
<1>8. RunRanges'
  <2>1. ASSUME "range" \notin gaps, HasPlace PROVE RangesOf(run, written)'
    <3>1. PICK c, w : c = run /\ w = written OBVIOUS
    <3>2. RangesOf(c, w) BY <1>2, <2>1, <3>1 DEF RunRanges
    <3>3. c = run' /\ w = written' BY <1>1, <3>1
    <3> QED BY <1>3, <3>2, <3>3, RangesOfRun
  <2>2. HasPlace' <=> HasPlace BY <1>3, FixedIs
  <2> QED BY <1>1, <2>1, <2>2 DEF RunRanges, T0Phases
<1> QED BY <1>4, <1>5, <1>6, <1>7, <1>8 DEF RunPart

(* A file that is written, by the fit or by musrt0, for the choice w.      *)
LEMMA FileWritten ==
  ASSUME Fixed, FileOnce, setup \in Setups, file.run \in Seq(Lines), Writable(file.run, run),
         PairedUser, Known(UsersRun), file'.run = WriteRun(file.run, run, setup.isis),
         NEW w, w = written',
         "t0" \notin gaps' => /\ T0sOf(run, w) /\ Ready(RunFile, run) /\ UsersT0s(RunFile)
                              /\ w = NothingChosen \/ NoGaps(w),
         "range" \notin gaps' => RangesComplete(w) /\ (HasPlace => RangesOf(run, w))
  PROVE  FilePart'
<1>1. setup.isis \in BOOLEAN BY SetupIs
<1>2. PICK lines, b, s, f, g :
        /\ lines = file.run /\ b = run /\ s = WriteRun(lines, b, setup.isis)
        /\ f = RunFile /\ g = ReadBlock(s)
  OBVIOUS
<1>3. Once(lines, {"t0"}) /\ Once(lines, FitWords) /\ (HasAny(lines, FitWords) <=> HasPlace)
  BY <1>2 DEF FileOnce
<1>4. lines \in Seq(Lines) /\ Writable(lines, b) BY <1>2
<1>5. /\ (HasPlace' <=> HasPlace) /\ (PairedUser' <=> PairedUser) /\ NothingChosen' = NothingChosen
      /\ UsersRun' = UsersRun
  BY FixedIs
<1>6. file'.run = s /\ RunFile' = g BY <1>2 DEF RunFile
<1>7. FileOnce'
  <2>1. WrittenAgain(lines, b, setup.isis, Len(lines), s)
    BY <1>1, <1>2, <1>3, <1>4, WrittenOnce
  <2>2. DOMAIN lines = 1..Len(lines) BY <1>4, LenProperties
  <2>3. Once(s, {"t0"}) /\ Once(s, FitWords) BY <2>1 DEF WrittenAgain
  <2>4. HasAny(s, FitWords) <=> HasPlace BY <1>3, <2>1, <2>2 DEF WrittenAgain, HasAny
  <2>5. Once(file'.run, {"t0"}) /\ Once(file'.run, FitWords) /\ (HasAny(file'.run, FitWords) <=> HasPlace)
    BY <1>6, <2>3, <2>4
  <2> QED BY <1>5, <2>5 DEF FileOnce, Once, HasAny
<1>8. Whole' BY <1>5, WrittenIs DEF Whole
<1>9. FileT0s'
  <2>1. SUFFICES ASSUME "t0" \notin gaps', AddT0sMatch(setup.addRuns, g) PROVE T0sOf(RunFile, written)'
    BY <1>6 DEF FileT0s, Fixed
  <2>2. f = ReadBlock(lines) BY <1>2 DEF RunFile
  <2>3. Ready(f, b) BY <1>2, <2>1
  <2>4. \A r \in 0..setup.addRuns : RowWritten(f, b, g, r)
    BY <1>2, <1>3, <1>4, <2>1, <2>2, <2>3, RowsWritten
  <2>5. UsersT0s(f) /\ T0sOf(b, w) BY <1>2, <2>1
  <2>6. T0sOf(g, w) BY <2>4, <2>5, WrittenT0sOf
  <2> QED BY <1>6, <2>6, T0sOfFile
<1>10. FileRanges'
  <2>1. SUFFICES ASSUME "range" \notin gaps', HasPlace PROVE RangesOf(RunFile, written)'
    BY <1>5 DEF FileRanges
  <2>2. RangesOf(b, w) /\ RangesComplete(w) BY <1>2, <2>1
  <2>3. HasAny(lines, FitWords) BY <1>3, <2>1
  <2>4. RangesOf(ReadBlock(WriteRun(lines, b, setup.isis)), w) BY <1>1, <1>4, <2>2, <2>3, WrittenRangesOf
  <2>5. RangesOf(g, w) BY <1>2, <2>4
  <2> QED BY <1>6, <2>5, RangesOfFile
<1> QED BY <1>7, <1>8, <1>9, <1>10 DEF FilePart

LEMMA WriteKeeps ==
  ASSUME T0Inv, WriteMsrLogFile, UNCHANGED t0vars
  PROVE  FileAccepted' /\ FilePart' /\ RunPart'
<1>1. /\ phase = "done" /\ phase' = "start" /\ setup' = setup /\ user' = user
      /\ file'.run = WriteRun(file.run, run, setup.isis)
      /\ written' = written /\ gaps' = gaps
  BY DEF WriteMsrLogFile, t0vars
<1>2. /\ FileAccepted /\ FilePart /\ Sessions /\ phase \in Busy /\ phase \in Prepared /\ RunT0s /\ RunRanges
      /\ phase' \notin Busy /\ phase' \notin T0Phases /\ phase' \notin Prepared
  BY <1>1 DEF T0Inv, Kinds, T0Phases, Busy, Prepared, RunPart
<1>3. Fixed BY <1>1 DEF Fixed
<1>4. PairedUser /\ AddT0sMatch(setup.addRuns, RunFile) BY <1>2 DEF FileAccepted
<1>5. setup \in Setups /\ file.run \in Seq(Lines) /\ Writable(file.run, run) /\ Known(UsersRun)
  BY <1>2 DEF Sessions, FilesTyped, BlocksTyped, UsersFile
<1>6. ASSUME "t0" \notin gaps
      PROVE  T0sOf(run, written) /\ Ready(RunFile, run) /\ UsersT0s(RunFile) /\ (written = NothingChosen \/ NoGaps(written))
  <2>1. T0sOf(RunFile, written) BY <1>2, <1>4, <1>5, <1>6 DEF FilePart, FileT0s
  <2>2. UsersT0s(RunFile) BY <2>1 DEF T0sOf
  <2>3. T0sOf(run, written) /\ NoEmpty(run.addT0) /\ Len(run.addT0) >= setup.addRuns BY <1>2, <1>6 DEF RunT0s
  <2>4. Ready(RunFile, run) BY <2>3 DEF Ready
  <2>5. written = NothingChosen \/ NoGaps(written) BY <1>2, <1>6 DEF FilePart, Whole
  <2> QED BY <2>2, <2>3, <2>4, <2>5
<1>7. ASSUME "range" \notin gaps PROVE RangesComplete(written) /\ (HasPlace => RangesOf(run, written))
  BY <1>2, <1>4, <1>7 DEF FilePart, Whole, RunRanges
<1>8. FilePart'
  <2>1. PICK w : w = written OBVIOUS
  <2>2. w = written' BY <1>1, <2>1
  <2>3. "t0" \notin gaps' => /\ T0sOf(run, w) /\ Ready(RunFile, run) /\ UsersT0s(RunFile)
                             /\ w = NothingChosen \/ NoGaps(w)
    BY <1>1, <1>6, <2>1
  <2>4. "range" \notin gaps' => RangesComplete(w) /\ (HasPlace => RangesOf(run, w)) BY <1>1, <1>7, <2>1
  <2>5. FileOnce BY <1>2 DEF FilePart
  <2> QED BY <1>1, <1>3, <1>4, <1>5, <2>2, <2>3, <2>4, <2>5, FileWritten
<1>9. PairedUser' BY <1>3, <1>4, FixedIs
<1>10. FileAccepted' BY <1>1, <1>9 DEF FileAccepted, Busy, T0Phases
<1>11. RunPart' BY <1>1 DEF RunPart, RunT0s, RunRanges, WindowT0s, Busy, T0Phases, Prepared
<1> QED BY <1>8, <1>10, <1>11

(* Nothing changes. *)
LEMMA UnchangedKeeps ==
  ASSUME T0Inv, UNCHANGED allvars
  PROVE  T0Inv'
<1>1. /\ setup' = setup /\ user' = user /\ file' = file /\ run' = run /\ global' = global /\ phase' = phase
      /\ session' = session /\ t0s' = t0s /\ addT0s' = addT0s /\ chosen' = chosen /\ written' = written
      /\ gaps' = gaps /\ item' = item
  BY DEF allvars, vars, t0vars
<1>2. Fixed BY <1>1 DEF Fixed
<1>3. Kinds /\ FileAccepted /\ FilePart /\ RunPart BY DEF T0Inv
<1>4. FilePart' BY <1>1, <1>2, <1>3, FileKeeps
<1>5. PairedUser' <=> PairedUser BY <1>2, FixedIs
<1>6. RunFile' = RunFile BY <1>1 DEF RunFile
<1>7. FileAccepted' BY <1>1, <1>3, <1>5, <1>6 DEF FileAccepted, Busy, T0Phases
<1>8. AnyChoice' = AnyChoice /\ Items' = Items /\ UsersRun' = UsersRun /\ UsersGlobal' = UsersGlobal
  BY <1>2, FixedIs, ItemsFixed
<1>9. Kinds'
  <2>1. phase \notin T0Phases => Sessions'
    <3>1. [Next]_vars BY DEF allvars
    <3> QED BY <1>3, <3>1, SessionsStep DEF Kinds
  <2>2. phase \in T0Phases => WindowTyped'
    <3>1. phase \in T0Phases => WindowTyped BY <1>3 DEF Kinds
    <3>2. WindowTyped => WindowTyped'
      BY <1>1, <1>6, <1>8 DEF WindowTyped, FilesTyped, UsersFile, Busy
    <3> QED BY <3>1, <3>2
  <2> QED BY <1>1, <1>3, <1>8, <2>1, <2>2 DEF Kinds, T0Phases
<1>10. PICK b, w, x, f : b = run' /\ w = written' /\ x = chosen' /\ f = RunFile' OBVIOUS
<1>11. b = run /\ w = written /\ x = chosen /\ f = RunFile BY <1>1, <1>6, <1>10
<1>12. (HasPlace' <=> HasPlace) /\ (CanPlace' <=> CanPlace) /\ Detectors' = Detectors BY <1>2, FixedIs
<1>13. RunT0s'
  <2>1. CASE phase \in Prepared BY <1>1, <1>2, <1>3, <2>1, RunT0sKept DEF RunPart
  <2>2. CASE phase \notin Prepared BY <1>1, <2>2 DEF RunT0s, Prepared
  <2> QED BY <2>1, <2>2
<1>14. RunRanges'
  <2>1. RangesOf(run, written) => RangesOf(run, written)' BY <1>2, <1>10, <1>11, RangesOfRun
  <2>2. RangesOf(run, chosen) => RangesOf(run, chosen)' BY <1>2, <1>10, <1>11, KeptByRun
  <2> QED BY <1>1, <1>3, <1>12, <2>1, <2>2 DEF RunPart, RunRanges, Busy, T0Phases
<1>15. WindowT0s'
  <2>1. Grown(RunFile, run, chosen) => Grown(RunFile, run, chosen)' BY <1>2, <1>10, <1>11, GrownInFile
  <2>2. KeptT0s(run, chosen) => KeptT0s(run, chosen)' BY <1>2, <1>10, <1>11, KeptByRun
  <2>3. SetAgain => SetAgain' BY <1>1, <1>12 DEF SetAgain
  <2> QED BY <1>1, <1>3, <1>12, <2>1, <2>2, <2>3 DEF RunPart, WindowT0s, T0Phases
<1> QED BY <1>4, <1>7, <1>9, <1>13, <1>14, <1>15 DEF T0Inv, RunPart

-----------------------------------------------------------------------------
(* The steps of musrt0.                                                    *)

LEMMA StartKeeps ==
  ASSUME T0Inv, Start
  PROVE  T0Inv'
<1>1. /\ phase = "start" /\ session <= MaxSessions /\ setup' = setup /\ user' = user /\ file' = file
      /\ t0s' = t0s /\ addT0s' = addT0s /\ good' = good /\ fitTime' = fitTime /\ bins' = bins
      /\ session' = session /\ written' = written /\ gaps' = gaps /\ chosen' = written /\ item' = 1
      /\ \/ /\ phase' \in T0Phases /\ Legal(file, setup.single, setup.addRuns)
            /\ run' = RunFile /\ global' = ReadBlock(file.global)
         \/ phase' = "refused"
  BY DEF Start, T0Phases, RunFile
<1>2. Kinds /\ FileAccepted /\ FilePart /\ Sessions BY <1>1 DEF T0Inv, Kinds, T0Phases
<1>3. Fixed BY <1>1 DEF Fixed
<1>4. FilePart' BY <1>1, <1>2, <1>3, FileKeeps
<1>5. FilesTyped /\ UsersFile /\ session \in Nat \ {0} /\ session \in 1..MaxSessions /\ BinsTyped /\ setup \in Setups
  BY <1>1, <1>2, BinsAssumption DEF Sessions, SessionsTyped, FilesTyped
<1>6. ASSUME phase' \in T0Phases
      PROVE  /\ PairedUser /\ AddT0sMatch(setup.addRuns, RunFile)
             /\ Known(UsersRun) /\ Known(UsersGlobal)
             /\ RunFile \in Block /\ Known(RunFile) /\ Writable(file.run, RunFile)
             /\ ReadBlock(file.global) \in Block
             /\ run' = RunFile /\ global' = ReadBlock(file.global)
  <2>1. "refused" \notin T0Phases BY DEF T0Phases
  <2>2. Legal(file, setup.single, setup.addRuns) /\ run' = RunFile /\ global' = ReadBlock(file.global)
    BY <1>1, <1>6, <2>1
  <2> QED BY <1>1, <1>2, <1>5, <2>2, AcceptedIs
<1>7. /\ RunFile' = RunFile /\ UsersRun' = UsersRun /\ UsersGlobal' = UsersGlobal /\ AnyChoice' = AnyChoice
      /\ Items' = Items /\ Detectors' = Detectors
      /\ (PairedUser' <=> PairedUser) /\ (HasPlace' <=> HasPlace) /\ (CanPlace' <=> CanPlace)
  BY <1>1, <1>3, FixedIs, ItemsFixed DEF RunFile
<1>8. phase' \in T0Phases \/ (phase' = "refused" /\ phase' \notin T0Phases) BY <1>1 DEF T0Phases
<1>9. FilesTyped' /\ UsersFile'
  <2>1. FilesTyped' BY <1>1, <1>5 DEF FilesTyped
  <2>2. phase' \notin Busy /\ phase' # "start" BY <1>1 DEF T0Phases, Busy
  <2>3. UsersFile' BY <1>1, <1>5, <1>7, <2>2 DEF UsersFile, Busy
  <2> QED BY <2>1, <2>3
<1>10. Kinds'
  <2>1. phase' = "refused" => Sessions'
    <3>1. ASSUME phase' = "refused" PROVE SessionsTyped' /\ BlocksTyped' /\ ReadBefore' /\ T0sTyped' /\ BinsTyped'
      <4>1. SessionsTyped' BY <1>1, <1>2, <3>1 DEF Sessions, SessionsTyped, Busy
      <4>2. BlocksTyped' /\ ReadBefore' /\ T0sTyped' BY <3>1 DEF BlocksTyped, ReadBefore, T0sTyped, Busy, Prepared
      <4>3. BinsTyped' BY <1>1, <1>5, <3>1 DEF BinsTyped
      <4> QED BY <4>1, <4>2, <4>3
    <3> QED BY <1>9, <3>1 DEF Sessions
  <2>2. phase' \in T0Phases => WindowTyped'
    <3>1. ASSUME phase' \in T0Phases PROVE WindowTyped'
      <4>1. Writable(file.run, run)' BY <1>1, <1>6, <3>1 DEF Writable, Block
      <4>2. run' \in Block /\ global' \in Block /\ Known(RunFile') /\ RunFile' \in Block
        BY <1>6, <1>7, <3>1
      <4>3. Known(UsersRun') /\ Known(UsersGlobal') BY <1>6, <1>7, <3>1
      <4> QED BY <1>1, <1>5, <1>9, <4>1, <4>2, <4>3 DEF WindowTyped, Block, Known
    <3> QED BY <3>1
  <2>3. 1 \in 1..Len(Items)
    <3>1. Len(Items) >= 1 /\ Len(Items) \in Nat BY <1>5, ItemsAre, LenProperties
    <3> QED BY <3>1
  <2>4. written \in AnyChoice BY <1>2 DEF Kinds
  <2> QED BY <1>1, <1>7, <1>8, <2>1, <2>2, <2>3, <2>4 DEF Kinds, T0Phases
<1>11. FileAccepted'
  <2>1. phase' \notin Busy BY <1>1 DEF Busy, T0Phases
  <2>2. phase' \in T0Phases => AddT0sMatch(setup'.addRuns, RunFile') BY <1>1, <1>6, <1>7
  <2>3. session' > 1 \/ phase' \in T0Phases => PairedUser' BY <1>1, <1>2, <1>6, <1>7 DEF FileAccepted
  <2> QED BY <2>1, <2>2, <2>3 DEF FileAccepted, Busy, T0Phases
<1>12. PICK b, x, f : b = run' /\ x = chosen' /\ f = RunFile' OBVIOUS
<1>13. x = written /\ f = RunFile BY <1>1, <1>7, <1>12
<1>14. RunT0s'
  <2>1. phase' \notin Prepared BY <1>1 DEF Prepared, T0Phases
  <2> QED BY <2>1 DEF RunT0s, Prepared
<1>15. RunRanges'
  <2>1. ASSUME "range" \notin gaps, HasPlace, phase' \in T0Phases PROVE RangesOf(run, chosen)'
    <3>1. RangesOf(RunFile, written) BY <1>2, <1>6, <2>1 DEF FilePart, FileRanges
    <3>2. RangesOf(b, x) BY <1>6, <1>12, <1>13, <2>1, <3>1
    <3> QED BY <1>3, <1>12, <3>2, KeptByRun
  <2>2. phase' \notin Busy BY <1>1 DEF Busy, T0Phases
  <2> QED BY <1>1, <1>7, <2>1, <2>2 DEF RunRanges, Busy, T0Phases
<1>16. WindowT0s'
  <2>1. SUFFICES ASSUME phase' \in T0Phases
                 PROVE  /\ Grown(RunFile, run, chosen)' /\ SetAgain'
                        /\ "t0" \notin gaps /\ CanPlace => KeptT0s(run, chosen)'
    BY <1>1, <1>7 DEF WindowT0s, T0Phases
  <2>2. b = f BY <1>6, <1>12, <1>13, <2>1
  <2>3. Grown(RunFile, run, chosen)'
    <3>1. f \in Block BY <1>6, <1>13, <2>1
    <3>2. Grown(f, b, x) BY <1>5, <2>2, <3>1, GrownNothing
    <3> QED BY <1>3, <1>12, <3>2, GrownInFile
  <2>4. SetAgain' BY <1>1 DEF SetAgain
  <2>5. ASSUME "t0" \notin gaps, CanPlace PROVE KeptT0s(run, chosen)'
    <3>1. T0sOf(RunFile, written) BY <1>2, <1>6, <2>1, <2>5 DEF FilePart, FileT0s
    <3>2. KeptT0s(b, x) BY <1>13, <2>2, <2>5, <3>1 DEF T0sOf
    <3> QED BY <1>3, <1>12, <3>2, KeptByRun
  <2> QED BY <2>3, <2>4, <2>5
<1> QED BY <1>4, <1>10, <1>11, <1>14, <1>15, <1>16 DEF T0Inv, RunPart

(* A step from window to window.                                           *)
LEMMA WindowStep ==
  ASSUME T0Inv, Fixed, phase \in T0Phases, phase' \in T0Phases, file' = file, global' = global,
         session' = session, written' = written, gaps' = gaps, item' \in 1..Len(Items),
         NEW b \in Block, b = run', NEW x \in AnyChoice, x = chosen', Grown(RunFile, b, x),
         KeptT0s(run, chosen) => KeptT0s(b, x),
         RangesOf(run, chosen) => RangesOf(b, x),
         \A r \in 0..setup.addRuns : \A d \in Detectors : chosen.t0[r][d] # NotSet => x.t0[r][d] # NotSet
  PROVE  T0Inv'
<1>1. Kinds /\ FileAccepted /\ FilePart /\ RunRanges /\ WindowT0s BY DEF T0Inv, RunPart
<1>2. WindowTyped BY <1>1 DEF Kinds
<1>3. /\ FilesTyped /\ session \in 1..MaxSessions /\ UsersFile
      /\ Known(UsersRun) /\ Known(UsersGlobal) /\ global \in Block /\ Writable(file.run, run)
      /\ Known(RunFile) /\ RunFile \in Block
  BY <1>2 DEF WindowTyped
<1>4. FilePart' BY <1>1, FileKeeps
<1>5. /\ RunFile' = RunFile /\ UsersRun' = UsersRun /\ UsersGlobal' = UsersGlobal /\ AnyChoice' = AnyChoice
      /\ Items' = Items /\ Detectors' = Detectors
      /\ (PairedUser' <=> PairedUser) /\ (HasPlace' <=> HasPlace) /\ (CanPlace' <=> CanPlace)
  BY FixedIs, ItemsFixed DEF RunFile
<1>6. phase' \notin Busy /\ phase' # "start" /\ phase' \notin Prepared BY DEF T0Phases, Busy, Prepared
<1>7. FilesTyped' BY <1>3 DEF FilesTyped, Fixed
<1>8. UsersFile' BY <1>3, <1>5, <1>6 DEF UsersFile, Busy
<1>9. Writable(file.run, b)
  <2>1. file.run \in Seq(Lines) BY <1>3 DEF FilesTyped
  <2>2. Len(RunFile.addT0) = AddT0LinesBefore(file.run, Len(file.run) + 1) BY <2>1, AddT0sCounted DEF RunFile
  <2>3. Len(RunFile.addT0) <= Len(b.addT0) BY DEF Grown
  <2> QED BY <2>2, <2>3 DEF Writable
<1>10. WindowTyped'
  <2>1. Writable(file.run, run)' BY <1>9 DEF Writable, Block
  <2>2. run' \in Block' /\ global' \in Block' /\ RunFile' \in Block' BY <1>3, <1>5 DEF Block
  <2>3. Known(UsersRun)' /\ Known(UsersGlobal)' /\ Known(RunFile)' BY <1>3, <1>5 DEF Known
  <2> QED BY <1>3, <1>7, <1>8, <2>1, <2>2, <2>3 DEF WindowTyped
<1>11. Kinds' BY <1>1, <1>5, <1>10 DEF Kinds, T0Phases
<1>12. FileAccepted' BY <1>1, <1>5 DEF FileAccepted, Fixed, T0Phases
<1>13. RunT0s' BY <1>6 DEF RunT0s, Prepared
<1>14. RunRanges'
  <2>1. RangesOf(run, chosen) => RangesOf(run, chosen)' BY KeptByRun
  <2> QED BY <1>1, <1>5, <1>6, <2>1 DEF RunRanges, Busy, T0Phases
<1>15. WindowT0s'
  <2>1. Grown(RunFile, run, chosen)'
    <3>1. PICK f : f = RunFile' OBVIOUS
    <3>2. Grown(f, b, x) BY <1>5, <3>1
    <3> QED BY <3>1, <3>2, GrownInFile
  <2>2. KeptT0s(run, chosen) => KeptT0s(run, chosen)' BY KeptByRun
  <2>3. SetAgain'
    <3>1. SetAgain BY <1>1 DEF WindowT0s
    <3> QED BY <1>5, <3>1 DEF SetAgain, Fixed
  <2> QED BY <1>1, <1>5, <2>1, <2>2, <2>3 DEF WindowT0s, T0Phases
<1> QED BY <1>4, <1>11, <1>12, <1>13, <1>14, <1>15 DEF T0Inv, RunPart

(* The window that is shown. *)
LEMMA WindowIs ==
  ASSUME Kinds, phase \in T0Phases
  PROVE  /\ Window \in Windows /\ item \in 1..Len(Items) /\ setup \in Setups
         /\ Window.run \in 0..setup.addRuns /\ Window.run \in Nat /\ Window.side \in Sides
         /\ Shown \in Detectors /\ Shown \in Nat \ {0}
         /\ T0Index(Window.side, Window.histo) = Shown
<1>1. setup \in Setups /\ item \in 1..Len(Items) BY DEF Kinds, WindowTyped, FilesTyped
<1>2. Items \in Seq(Windows) BY <1>1, ItemsAre
<1>3. Window \in Windows BY <1>1, <1>2, ElementOfSeq DEF Window
<1>4. setup.addRuns \in Nat /\ Detectors = 1..setup.detectors /\ setup.detectors \in Nat BY <1>1, SetupIs
<1>5. Window.run \in 0..setup.addRuns /\ Window.side \in Sides /\ Window.histo \in Histos
  BY <1>3 DEF Windows
<1>6. /\ DetectorOf(Window.side, Window.histo) \in Detectors
      /\ T0Index(Window.side, Window.histo) = DetectorOf(Window.side, Window.histo)
  BY <1>1, <1>5, HistosAre
<1>7. Shown \in Detectors /\ T0Index(Window.side, Window.histo) = Shown BY <1>6 DEF Shown
<1> QED BY <1>1, <1>3, <1>4, <1>5, <1>7

(* What holds in a window, of the block and what has been set. *)
LEMMA WindowHas ==
  ASSUME T0Inv, phase \in T0Phases
  PROVE  /\ Kinds /\ run \in Block /\ chosen \in AnyChoice /\ RunFile \in Block /\ global \in Block
         /\ Grown(RunFile, run, chosen) /\ item \in 1..Len(Items) /\ session \in 1..MaxSessions
         /\ setup \in Setups /\ file.run \in Seq(Lines) /\ file.global \in Seq(Lines)
BY DEF T0Inv, Kinds, WindowTyped, RunPart, WindowT0s, FilesTyped

LEMMA SetT0Keeps ==
  ASSUME T0Inv, NEW v \in Int, SetT0(v)
  PROVE  T0Inv'
<1>1. /\ phase = "window" /\ phase' = phase /\ setup' = setup /\ user' = user /\ file' = file /\ global' = global
      /\ session' = session /\ written' = written /\ gaps' = gaps /\ item' = item
      /\ run' = Enter(run, Window.run, T0Index(Window.side, Window.histo), v)
      /\ chosen' = [chosen EXCEPT !.t0[Window.run][Shown] = v]
  BY DEF SetT0
<1>2. phase \in T0Phases /\ phase' \in T0Phases /\ Fixed BY <1>1 DEF T0Phases, Fixed
<1>3. /\ Kinds /\ run \in Block /\ chosen \in AnyChoice /\ RunFile \in Block
      /\ Grown(RunFile, run, chosen) /\ item \in 1..Len(Items) /\ setup \in Setups
  BY <1>2, WindowHas
<1>4. /\ Window.run \in 0..setup.addRuns /\ Window.run \in Nat
      /\ Shown \in Detectors /\ Shown \in Nat \ {0} /\ T0Index(Window.side, Window.histo) = Shown
  BY <1>2, <1>3, WindowIs
<1>5. PICK r \in 0..setup.addRuns : r = Window.run BY <1>4
<1>6. PICK d \in Detectors : d = Shown BY <1>4
<1>7. r \in Nat /\ d \in Nat \ {0} BY <1>4, <1>5, <1>6
<1>8. PICK b, x, f : b = Enter(run, r, d, v) /\ x = [chosen EXCEPT !.t0[r][d] = v] /\ f = RunFile OBVIOUS
<1>9. b = run' /\ x = chosen' BY <1>1, <1>4, <1>5, <1>6, <1>8
<1>10. Entered(run, b, r, d, v) BY <1>3, <1>7, <1>8, EnterIs
<1>11. b \in Block /\ b.data = run.data /\ b.bkg = run.bkg BY <1>10 DEF Entered
<1>20. T0Chosen(chosen, x, r, d, v)
  <2>1. chosen \in AnyChoice /\ x = [chosen EXCEPT !.t0[r][d] = v] BY <1>3, <1>8
  <2> QED BY <2>1, ChoiceSet, Zenon
<1>12. /\ x \in AnyChoice /\ x.data = chosen.data /\ x.bkg = chosen.bkg /\ x.t0[r][d] = v
       /\ \A r2 \in 0..setup.addRuns, d2 \in Detectors : r2 # r \/ d2 # d => x.t0[r2][d2] = chosen.t0[r2][d2]
  BY <1>20 DEF T0Chosen
<1>13. f \in Block /\ Grown(f, run, chosen) BY <1>3, <1>8
<1>14. Grown(f, b, x) /\ (KeptT0s(run, chosen) => KeptT0s(b, x)) BY <1>3, <1>8, <1>13, EnterGrown
<1>15. RangesOf(run, chosen) => RangesOf(b, x) BY <1>11, <1>12 DEF RangesOf, RangeOf, RangeIn, Given
<1>16. v # NotSet BY MusrT0Assumption
<1>17. \A r2 \in 0..setup.addRuns : \A d2 \in Detectors : chosen.t0[r2][d2] # NotSet => x.t0[r2][d2] # NotSet
  BY <1>12, <1>16
<1>18. Grown(RunFile, b, x) /\ item' \in 1..Len(Items) BY <1>1, <1>3, <1>8, <1>14
<1> QED BY <1>1, <1>2, <1>9, <1>11, <1>12, <1>14, <1>15, <1>17, <1>18, WindowStep

LEMMA T0KeysKeep ==
  ASSUME T0Inv, SetT0Channel \/ SetEstimatedT0Channel
  PROVE  T0Inv'
<1>1. CASE SetT0Channel
  <2>1. PICK v \in Cursor : SetT0(v) BY <1>1 DEF SetT0Channel
  <2>2. v \in Int BY MusrT0Assumption, BinsAssumption
  <2> QED BY <2>1, <2>2, SetT0Keeps
<1>2. CASE SetEstimatedT0Channel
  <2>1. phase \in T0Phases /\ SetT0(setup.peak[Window.run][Shown]) BY <1>2 DEF SetEstimatedT0Channel, T0Phases
  <2>2. Kinds BY DEF T0Inv
  <2>3. setup \in Setups /\ Window.run \in 0..setup.addRuns /\ Shown \in Detectors BY <2>1, <2>2, WindowIs
  <2>4. setup.peak[Window.run][Shown] \in Int BY <2>3, PeaksAre
  <2> QED BY <2>1, <2>4, SetT0Keeps
<1> QED BY <1>1, <1>2

(* Key q. *)
LEMMA NextItemKeeps ==
  ASSUME T0Inv, NextItem
  PROVE  T0Inv'
<1>1. /\ phase = "window" /\ setup' = setup /\ user' = user /\ file' = file /\ global' = global /\ run' = run
      /\ session' = session /\ written' = written /\ gaps' = gaps /\ chosen' = chosen
      /\ \/ item < Len(Items) /\ item' = item + 1 /\ phase' = phase
         \/ phase' = "written" /\ item' = item
  BY DEF NextItem
<1>2. phase \in T0Phases /\ phase' \in T0Phases /\ Fixed BY <1>1 DEF T0Phases, Fixed
<1>3. /\ run \in Block /\ chosen \in AnyChoice /\ Grown(RunFile, run, chosen)
      /\ item \in 1..Len(Items) /\ setup \in Setups
  BY <1>2, WindowHas
<1>4. Len(Items) \in Nat BY <1>3, ItemsAre, LenProperties
<1>5. item' \in 1..Len(Items) BY <1>1, <1>3, <1>4
<1>6. PICK b, x : b = run /\ x = chosen OBVIOUS
<1>7. b \in Block /\ b = run' /\ x \in AnyChoice /\ x = chosen' BY <1>1, <1>3, <1>6
<1>8. /\ Grown(RunFile, b, x) /\ (KeptT0s(run, chosen) => KeptT0s(b, x))
      /\ (RangesOf(run, chosen) => RangesOf(b, x))
      /\ \A r \in 0..setup.addRuns : \A d \in Detectors : chosen.t0[r][d] # NotSet => x.t0[r][d] # NotSet
  BY <1>3, <1>6
<1> QED BY <1>1, <1>2, <1>5, <1>7, <1>8, WindowStep

(* A bin that is set in a range. *)
RangeEntered(b, x, c, y) ==
  /\ c \in Block /\ c.t0 = b.t0 /\ c.addT0 = b.addT0 /\ y \in AnyChoice /\ y.t0 = x.t0
  /\ RangesOf(b, x) => RangesOf(c, y)

LEMMA RangeKept ==
  ASSUME NEW b, NEW x, NEW c, NEW y, NEW word \in RangeWords, NEW i \in 1..4, NEW v \in Int,
         RangeIn(c, word)[i] = v, RangeIn(y, word)[i] = v,
         \A j \in 1..4 : j # i => RangeIn(c, word)[j] = RangeIn(b, word)[j]
                                  /\ RangeIn(y, word)[j] = RangeIn(x, word)[j],
         RangeOf(b, x, word)
  PROVE  RangeOf(c, y, word)
<1>1. v # NotSet BY MusrT0Assumption
<1>2. ASSUME NEW j \in 1..4
      PROVE  /\ RangeIn(y, word)[j] # NotSet => RangeIn(c, word)[j] = RangeIn(y, word)[j]
             /\ Given(y, word, j) /\ RangeIn(y, word)[j] = NotSet => RangeIn(c, word)[j] > 0
  <2>1. CASE j = i BY <1>1, <2>1
  <2>2. CASE j # i
    <3>1. RangeIn(c, word)[j] = RangeIn(b, word)[j] /\ RangeIn(y, word)[j] = RangeIn(x, word)[j] BY <2>2
    <3>2. Given(y, word, j) <=> Given(x, word, j) BY <3>1 DEF Given
    <3> QED BY <3>1, <3>2 DEF RangeOf
  <2> QED BY <2>1, <2>2
<1> QED BY <1>2 DEF RangeOf

RangesPut(b, data, bkg, c) ==
  c \in Block /\ c.t0 = b.t0 /\ c.addT0 = b.addT0 /\ c.data = data /\ c.bkg = bkg

LEMMA RangePut ==
  ASSUME NEW b \in Block, NEW s \in [1..4 -> Int], NEW c
  PROVE  /\ c = [b EXCEPT !.data = s] => RangesPut(b, s, b.bkg, c)
         /\ c = [b EXCEPT !.bkg = s] => RangesPut(b, b.data, s, c)
<1>1. PICK P, R, T, A : P = Int \X Int /\ R = [1..4 -> Int] /\ T = Seq(Int) /\ A = Seq(T)
  OBVIOUS
<1>2. Block = [t0 : T, addT0 : A, bkg : R, data : R, inBins : BOOLEAN, offset : P, time : P]
  BY <1>1 DEF Block
<1>3. s \in R BY <1>1
<1> QED BY <1>2, <1>3 DEF RangesPut

LEMMA EnterRange ==
  ASSUME NEW b \in Block, NEW x \in AnyChoice, NEW field \in {"data", "bkg"}, NEW i \in 1..4, NEW v \in Int,
         NEW c, c = [b EXCEPT ![field][i] = v], NEW y, y = [x EXCEPT ![field][i] = v]
  PROVE  RangeEntered(b, x, c, y)
<1>1. PICK V, T, R : V = Int \cup {NotSet} /\ T = [0..setup.addRuns -> [Detectors -> V]] /\ R = [1..4 -> V]
  OBVIOUS
<1>2. AnyChoice = [t0 : T, data : R, bkg : R] BY <1>1 DEF AnyChoice
<1>3. /\ b.data \in [1..4 -> Int] /\ b.bkg \in [1..4 -> Int] /\ x.data \in R /\ x.bkg \in R
  BY <1>2 DEF Block
<1>4. CASE field = "data"
  <2>1. PICK s, u : s = [b.data EXCEPT ![i] = v] /\ u = [x.data EXCEPT ![i] = v] OBVIOUS
  <2>2. s \in [1..4 -> Int] /\ u \in R BY <1>1, <1>3, <2>1
  <2>3. c = [b EXCEPT !.data = s] /\ y = [x EXCEPT !.data = u] BY <1>4, <2>1
  <2>4. RangesPut(b, s, b.bkg, c)
    <3>1. s \in [1..4 -> Int] /\ c = [b EXCEPT !.data = s] BY <2>2, <2>3
    <3> QED BY <3>1, RangePut, Zenon
  <2>5. c \in Block /\ c.t0 = b.t0 /\ c.addT0 = b.addT0 /\ c.data = s /\ c.bkg = b.bkg BY <2>4 DEF RangesPut
  <2>6. y \in AnyChoice /\ y.t0 = x.t0 /\ y.data = u /\ y.bkg = x.bkg BY <1>2, <2>2, <2>3
  <2>7. s[i] = v /\ u[i] = v /\ \A j \in 1..4 : j # i => s[j] = b.data[j] /\ u[j] = x.data[j]
    BY <1>1, <1>3, <2>1
  <2>8. /\ RangeIn(c, "data") = s /\ RangeIn(y, "data") = u
        /\ RangeIn(b, "data") = b.data /\ RangeIn(x, "data") = x.data
    BY <2>5, <2>6 DEF RangeIn
  <2>9. ASSUME NEW word \in RangeWords, RangeOf(b, x, word) PROVE RangeOf(c, y, word)
    <3>1. CASE word = "data" BY <2>7, <2>8, <2>9, <3>1, RangeKept
    <3>2. CASE word # "data" BY <2>5, <2>6, <2>9, <3>2 DEF RangeOf, RangeIn, Given
    <3> QED BY <3>1, <3>2
  <2> QED BY <2>5, <2>6, <2>9 DEF RangeEntered, RangesOf
<1>5. CASE field = "bkg"
  <2>1. PICK s, u : s = [b.bkg EXCEPT ![i] = v] /\ u = [x.bkg EXCEPT ![i] = v] OBVIOUS
  <2>2. s \in [1..4 -> Int] /\ u \in R BY <1>1, <1>3, <2>1
  <2>3. c = [b EXCEPT !.bkg = s] /\ y = [x EXCEPT !.bkg = u] BY <1>5, <2>1
  <2>4. RangesPut(b, b.data, s, c)
    <3>1. s \in [1..4 -> Int] /\ c = [b EXCEPT !.bkg = s] BY <2>2, <2>3
    <3> QED BY <3>1, RangePut, Zenon
  <2>5. c \in Block /\ c.t0 = b.t0 /\ c.addT0 = b.addT0 /\ c.bkg = s /\ c.data = b.data BY <2>4 DEF RangesPut
  <2>6. y \in AnyChoice /\ y.t0 = x.t0 /\ y.bkg = u /\ y.data = x.data BY <1>2, <2>2, <2>3
  <2>7. s[i] = v /\ u[i] = v /\ \A j \in 1..4 : j # i => s[j] = b.bkg[j] /\ u[j] = x.bkg[j]
    BY <1>1, <1>3, <2>1
  <2>8. /\ RangeIn(c, "background") = s /\ RangeIn(y, "background") = u
        /\ RangeIn(b, "background") = b.bkg /\ RangeIn(x, "background") = x.bkg
    BY <2>5, <2>6 DEF RangeIn
  <2>9. ASSUME NEW word \in RangeWords, RangeOf(b, x, word) PROVE RangeOf(c, y, word)
    <3>1. CASE word = "data" BY <2>5, <2>6, <2>9, <3>1 DEF RangeOf, RangeIn, Given
    <3>2. CASE word = "background" BY <2>7, <2>8, <2>9, <3>2, RangeKept
    <3> QED BY <3>1, <3>2 DEF RangeWords
  <2> QED BY <2>5, <2>6, <2>9 DEF RangeEntered, RangesOf
<1> QED BY <1>4, <1>5

(* What is grown, and what is kept of it, says nothing of the ranges.      *)
LEMMA SameGrown ==
  ASSUME NEW f, NEW b, NEW x, NEW c, NEW y, c.t0 = b.t0, c.addT0 = b.addT0, y.t0 = x.t0
  PROVE  /\ Grown(f, b, x) => Grown(f, c, y)
         /\ KeptT0s(b, x) => KeptT0s(c, y)
<1>1. ASSUME NEW r \in 0..setup.addRuns PROVE Row(c, r) = Row(b, r) BY DEF Row
<1>2. Grown(f, b, x) => Grown(f, c, y) BY <1>1 DEF Grown
<1>3. KeptT0s(b, x) => KeptT0s(c, y) BY <1>1 DEF KeptT0s
<1> QED BY <1>2, <1>3

LEMMA SetRangeKeeps ==
  ASSUME T0Inv, NEW key, NEW field \in {"data", "bkg"}, NEW end \in {1, 2}, SetRangeChannel(key, field, end)
  PROVE  T0Inv'
<1>1. PICK v \in Cursor : /\ run' = [run EXCEPT ![field][RangeIndex(Window.side, end)] = v]
                          /\ chosen' = [chosen EXCEPT ![field][2*(Window.side - 1) + end] = v]
  BY DEF SetRangeChannel
<1>2. /\ phase = "window" /\ phase' = phase /\ setup' = setup /\ user' = user /\ file' = file /\ global' = global
      /\ session' = session /\ written' = written /\ gaps' = gaps /\ item' = item
  BY DEF SetRangeChannel
<1>3. phase \in T0Phases /\ phase' \in T0Phases /\ Fixed BY <1>2 DEF T0Phases, Fixed
<1>4. /\ Kinds /\ run \in Block /\ chosen \in AnyChoice /\ Grown(RunFile, run, chosen)
      /\ item \in 1..Len(Items) /\ setup \in Setups
  BY <1>3, WindowHas
<1>5. Window.side \in Sides BY <1>3, <1>4, WindowIs
<1>6. RangeIndex(Window.side, end) \in 1..4 BY <1>4, <1>5, HistosAre
<1>7. PICK i \in 1..4 : i = RangeIndex(Window.side, end) BY <1>6
<1>8. i = 2*(Window.side - 1) + end BY <1>7 DEF RangeIndex
<1>9. v \in Int BY MusrT0Assumption, BinsAssumption
<1>10. PICK b, x : b = [run EXCEPT ![field][i] = v] /\ x = [chosen EXCEPT ![field][i] = v] OBVIOUS
<1>11. b = run' /\ x = chosen' BY <1>1, <1>7, <1>8, <1>10
<1>12. RangeEntered(run, chosen, b, x) BY <1>4, <1>9, <1>10, EnterRange
<1>13. /\ b \in Block /\ b.t0 = run.t0 /\ b.addT0 = run.addT0 /\ x \in AnyChoice /\ x.t0 = chosen.t0
       /\ RangesOf(run, chosen) => RangesOf(b, x)
  BY <1>12 DEF RangeEntered
<1>14. Grown(RunFile, b, x) /\ (KeptT0s(run, chosen) => KeptT0s(b, x)) BY <1>4, <1>13, SameGrown
<1>15. \A r \in 0..setup.addRuns : \A d \in Detectors : chosen.t0[r][d] # NotSet => x.t0[r][d] # NotSet
  BY <1>13
<1>16. item' \in 1..Len(Items) BY <1>2, <1>4
<1> QED BY <1>2, <1>3, <1>11, <1>13, <1>14, <1>15, <1>16, WindowStep

LEMMA RangeKeysKeep ==
  ASSUME T0Inv, SetDataFirstChannel \/ SetDataLastChannel \/ SetBkgFirstChannel \/ SetBkgLastChannel
  PROVE  T0Inv'
BY SetRangeKeeps DEF SetDataFirstChannel, SetDataLastChannel, SetBkgFirstChannel, SetBkgLastChannel

(* -g: the data range from the first detector of a side.                   *)
PeakRanges(s, u, t, v) ==
  /\ t \in [1..4 -> Int] /\ v \in [1..4 -> Int \cup {NotSet}]
  /\ \A i \in 1..4 : \/ t[i] = s[i] /\ v[i] = u[i]
                     \/ t[i] \in Int /\ v[i] = t[i]

LEMMA PeakRangeIs ==
  ASSUME setup \in Setups, NEW s \in [1..4 -> Int], NEW u \in [1..4 -> Int \cup {NotSet}],
         NEW t, t = PeakRange(s), NEW v, v = PeakRange(u)
  PROVE  PeakRanges(s, u, t, v)
<1>1. CASE GoodOffset = NotSet
  <2>1. t = s /\ v = u BY <1>1 DEF PeakRange
  <2> QED BY <2>1 DEF PeakRanges
<1>2. CASE GoodOffset # NotSet
  <2>1. GoodOffset \in Int /\ Size \in Int BY <1>2, MusrT0Assumption, BinsAssumption
  <2>2. PICK p : p = [i \in 1..4 |-> IF i % 2 = 1 THEN setup.peak[0][(i + 1) \div 2] + GoodOffset ELSE Size]
    OBVIOUS
  <2>3. ASSUME NEW i \in 1..4, (i + 1) \div 2 \in Sides PROVE p[i] \in Int
    <3>1. PICK d : d = (i + 1) \div 2 OBVIOUS
    <3>2. d \in Detectors BY <2>3, <3>1, SetupIs
    <3>3. 0 \in 0..setup.addRuns BY SetupIs
    <3>4. setup.peak[0][d] \in Int BY <3>2, <3>3, PeaksAre
    <3> QED BY <2>1, <2>2, <3>1, <3>4
  <2>4. /\ t = [i \in 1..4 |-> IF (i + 1) \div 2 \notin Sides THEN s[i] ELSE p[i]]
        /\ v = [i \in 1..4 |-> IF (i + 1) \div 2 \notin Sides THEN u[i] ELSE p[i]]
    BY <1>2, <2>2 DEF PeakRange
  <2>5. ASSUME NEW i \in 1..4
        PROVE  /\ t[i] \in Int /\ v[i] \in Int \cup {NotSet}
               /\ (t[i] = s[i] /\ v[i] = u[i]) \/ (t[i] \in Int /\ v[i] = t[i])
    <3>1. CASE (i + 1) \div 2 \in Sides
      <4>1. t[i] = p[i] /\ v[i] = p[i] BY <2>4, <3>1
      <4> QED BY <2>3, <3>1, <4>1
    <3>2. CASE (i + 1) \div 2 \notin Sides
      <4>1. t[i] = s[i] /\ v[i] = u[i] BY <2>4, <3>2
      <4> QED BY <4>1
    <3> QED BY <3>1, <3>2
  <2>6. t \in [1..4 -> Int] /\ v \in [1..4 -> Int \cup {NotSet}] BY <2>4, <2>5
  <2> QED BY <2>5, <2>6 DEF PeakRanges
<1> QED BY <1>1, <1>2

LEMMA PeakRangesOf ==
  ASSUME setup \in Setups, NEW b \in Block, NEW x \in AnyChoice, NEW c, NEW y,
         c.data = PeakRange(b.data), c.bkg = b.bkg, y.data = PeakRange(x.data), y.bkg = x.bkg
  PROVE  RangesOf(b, x) => RangesOf(c, y)
<1>1. PICK V, T, R : V = Int \cup {NotSet} /\ T = [0..setup.addRuns -> [Detectors -> V]] /\ R = [1..4 -> V]
  OBVIOUS
<1>2. AnyChoice = [t0 : T, data : R, bkg : R] BY <1>1 DEF AnyChoice
<1>3. b.data \in [1..4 -> Int] /\ x.data \in [1..4 -> Int \cup {NotSet}] BY <1>1, <1>2 DEF Block
<1>4. PeakRanges(b.data, x.data, c.data, y.data) BY <1>3, PeakRangeIs, Zenon
<1>5. NotSet \notin Int BY MusrT0Assumption
<1>6. ASSUME NEW word \in RangeWords, RangeOf(b, x, word) PROVE RangeOf(c, y, word)
  <2>1. CASE word = "data"
    <3>1. ASSUME NEW i \in 1..4
          PROVE  /\ y.data[i] # NotSet => c.data[i] = y.data[i]
                 /\ Given(y, "data", i) /\ y.data[i] = NotSet => c.data[i] > 0
      <4>1. /\ x.data[i] # NotSet => b.data[i] = x.data[i]
            /\ Given(x, "data", i) /\ x.data[i] = NotSet => b.data[i] > 0
        BY <1>6, <2>1 DEF RangeOf, RangeIn
      <4>2. CASE c.data[i] = b.data[i] /\ y.data[i] = x.data[i]
        <5>1. Given(y, "data", i) <=> Given(x, "data", i) BY <4>2 DEF Given, RangeIn
        <5> QED BY <4>1, <4>2, <5>1
      <4>3. CASE c.data[i] \in Int /\ y.data[i] = c.data[i] BY <1>5, <4>3
      <4> QED BY <1>4, <4>2, <4>3 DEF PeakRanges
    <3> QED BY <2>1, <3>1 DEF RangeOf, RangeIn
  <2>2. CASE word # "data" BY <1>6, <2>2, SMTT(30) DEF RangeOf, RangeIn, Given
  <2> QED BY <2>1, <2>2
<1> QED BY <1>6 DEF RangesOf

LEMMA PromptPeakKeeps ==
  ASSUME T0Inv, PromptPeak
  PROVE  T0Inv'
<1>1. /\ phase = "peak" /\ phase' = "written" /\ setup' = setup /\ user' = user /\ file' = file
      /\ global' = global /\ session' = session /\ written' = written /\ gaps' = gaps /\ item' = item
      /\ run' = [WithPeaks(run) EXCEPT !.data = PeakRange(@)]
      /\ chosen' = [chosen EXCEPT !.t0 = [r \in 0..setup.addRuns |-> Peaks(r)], !.data = PeakRange(@)]
  BY DEF PromptPeak
<1>2. phase \in T0Phases /\ phase' \in T0Phases /\ Fixed BY <1>1 DEF T0Phases, Fixed
<1>3. /\ run \in Block /\ chosen \in AnyChoice /\ Grown(RunFile, run, chosen)
      /\ item \in 1..Len(Items) /\ setup \in Setups /\ RunFile \in Block
  BY <1>2, WindowHas
<1>4. PICK V, T, R : V = Int \cup {NotSet} /\ T = [0..setup.addRuns -> [Detectors -> V]] /\ R = [1..4 -> V]
  OBVIOUS
<1>5. AnyChoice = [t0 : T, data : R, bkg : R] BY <1>4 DEF AnyChoice
<1>6. run.data \in [1..4 -> Int] /\ chosen.data \in [1..4 -> Int \cup {NotSet}] BY <1>3, <1>4, <1>5 DEF Block
<1>7. PICK p : p = WithPeaks(run) OBVIOUS
<1>8. p \in Block /\ p.data = run.data /\ p.bkg = run.bkg
  <2>1. p = WithPeaks(run) /\ run \in Block BY <1>3, <1>7
  <2> QED BY <1>3, <2>1, WithPeaksIs
<1>9. PICK s, u, ts : /\ s = PeakRange(run.data) /\ u = PeakRange(chosen.data)
                      /\ ts = [r \in 0..setup.addRuns |-> Peaks(r)]
  OBVIOUS
<1>10. PeakRanges(run.data, chosen.data, s, u) BY <1>3, <1>6, <1>9, PeakRangeIs, Zenon
<1>11. s \in [1..4 -> Int] /\ u \in R BY <1>4, <1>10 DEF PeakRanges
<1>12. PICK b, x : b = [p EXCEPT !.data = s] /\ x = [chosen EXCEPT !.t0 = ts, !.data = u] OBVIOUS
<1>13. b = run' /\ x = chosen'
  <2>1. run' = [p EXCEPT !.data = PeakRange(p.data)] BY <1>1, <1>7
  <2>2. run' = b BY <1>8, <1>9, <1>12, <2>1
  <2>3. chosen' = x BY <1>1, <1>9, <1>12
  <2> QED BY <2>2, <2>3
<1>14. RangesPut(p, s, p.bkg, b) BY <1>8, <1>11, <1>12, RangePut, Zenon
<1>15. b \in Block /\ b.t0 = p.t0 /\ b.addT0 = p.addT0 /\ b.data = s /\ b.bkg = run.bkg
  BY <1>8, <1>14 DEF RangesPut
<1>16. ts \in T
  <2>1. ASSUME NEW r \in 0..setup.addRuns PROVE Peaks(r) \in [Detectors -> V]
    BY <1>3, <1>4, PeaksAre DEF Peaks
  <2> QED BY <1>4, <1>9, <2>1
<1>17. x \in AnyChoice /\ x.t0 = ts /\ x.data = u /\ x.bkg = chosen.bkg
  BY <1>3, <1>5, <1>11, <1>12, <1>16
<1>18. \A r \in 0..setup.addRuns : x.t0[r] = Peaks(r) BY <1>9, <1>17
<1>19. PICK f \in Block : f = RunFile BY <1>3
<1>20. Grown(f, run, chosen) BY <1>3, <1>19
<1>21. Grown(f, p, x) /\ KeptT0s(p, x) BY <1>3, <1>7, <1>18, <1>20, PeaksGrown
<1>22. Grown(f, b, x) /\ KeptT0s(b, x) BY <1>15, <1>21, SameGrown
<1>23. RangesOf(run, chosen) => RangesOf(b, x) BY <1>3, <1>9, <1>15, <1>17, PeakRangesOf
<1>24. \A r \in 0..setup.addRuns : \A d \in Detectors : x.t0[r][d] # NotSet
  <2>1. ASSUME NEW r \in 0..setup.addRuns, NEW d \in Detectors PROVE Peaks(r)[d] \in Int
    BY <1>3, PeaksAre
  <2> QED BY <1>18, <2>1, MusrT0Assumption
<1>25. Grown(RunFile, b, x) /\ item' \in 1..Len(Items) BY <1>1, <1>3, <1>19, <1>22
<1> QED BY <1>1, <1>2, <1>13, <1>15, <1>17, <1>22, <1>23, <1>24, <1>25, WindowStep

(* musrt0 ends, and the next session is any. *)
LEMMA EndKeeps ==
  ASSUME T0Inv, Fixed, phase \in T0Phases, phase' = "start", session' = session + 1, Forgotten,
         chosen' = chosen, written' \in AnyChoice, file'.run \in Seq(Lines), file'.global \in Seq(Lines),
         ReadBlock(file'.global).t0 = ReadBlock(file.global).t0, FilePart'
  PROVE  T0Inv'
<1>1. /\ FilesTyped /\ session \in 1..MaxSessions /\ UsersFile /\ Known(UsersRun) /\ Known(UsersGlobal)
      /\ chosen \in AnyChoice /\ PairedUser
  BY DEF T0Inv, Kinds, WindowTyped, FileAccepted
<1>2. /\ UsersRun' = UsersRun /\ UsersGlobal' = UsersGlobal /\ AnyChoice' = AnyChoice
      /\ (PairedUser' <=> PairedUser)
  BY FixedIs
<1>3. phase' \notin Busy /\ phase' \notin T0Phases /\ phase' \notin Prepared BY DEF T0Phases, Busy, Prepared
<1>4. MaxSessions \in Nat /\ session \in Nat /\ session' # 1 /\ session' \in 1..(MaxSessions + 1) /\ session' > 1
  BY <1>1, BinsAssumption
<1>5. FilesTyped' BY <1>1 DEF FilesTyped, Fixed
<1>6. SessionsTyped' BY <1>4 DEF SessionsTyped
<1>7. UsersFile' BY <1>1, <1>2, <1>4 DEF UsersFile
<1>8. BlocksTyped' /\ ReadBefore' /\ T0sTyped' BY <1>3 DEF BlocksTyped, ReadBefore, T0sTyped, Busy, Prepared
<1>9. BinsTyped'
  <2>1. NoRange \in [1..4 -> Int] /\ <<Undefined, Undefined>> \in [1..2 -> Int] /\ <<0, 0, 0>> \in [1..3 -> Int]
    BY DEF NoRange, None, Undefined
  <2>2. good' = NoRange /\ fitTime' = <<Undefined, Undefined>> /\ bins' = <<0, 0, 0>> BY DEF Forgotten
  <2> QED BY <2>1, <2>2 DEF BinsTyped
<1>10. Sessions' BY <1>5, <1>6, <1>7, <1>8, <1>9 DEF Sessions
<1>11. Kinds' BY <1>1, <1>2, <1>3, <1>10 DEF Kinds, T0Phases
<1>12. FileAccepted' BY <1>1, <1>2, <1>3 DEF FileAccepted, Busy, T0Phases
<1>13. RunPart' BY <1>3 DEF RunPart, RunT0s, RunRanges, WindowT0s, Busy, T0Phases, Prepared
<1> QED BY <1>11, <1>12, <1>13 DEF T0Inv

LEMMA QuitKeeps ==
  ASSUME T0Inv, Quit
  PROVE  T0Inv'
<1>1. /\ phase = "window" /\ phase' = "start" /\ session' = session + 1 /\ Forgotten
      /\ setup' = setup /\ user' = user /\ file' = file
      /\ chosen' = chosen /\ written' = written /\ gaps' = gaps
  BY DEF Quit, t0vars
<1>2. phase \in T0Phases /\ Fixed BY <1>1 DEF T0Phases, Fixed
<1>3. file.run \in Seq(Lines) /\ file.global \in Seq(Lines) BY <1>2, WindowHas
<1>4. FilePart BY DEF T0Inv
<1>5. FilePart' BY <1>1, <1>2, <1>4, FileKeeps
<1>6. written' \in AnyChoice BY <1>1 DEF T0Inv, Kinds
<1> QED BY <1>1, <1>2, <1>3, <1>5, <1>6, EndKeeps

(* musrt0 writes. *)
LEMMA WriteT0Keeps ==
  ASSUME T0Inv, WriteT0
  PROVE  T0Inv'
<1>1. /\ phase = "written" /\ phase' = "start" /\ session' = session + 1 /\ Forgotten
      /\ setup' = setup /\ user' = user
      /\ file' = [global |-> WriteGlobal(file.global, global), run |-> WriteRun(file.run, run, setup.isis)]
      /\ written' = chosen /\ gaps' = gaps \cup GapsOf(chosen) /\ chosen' = chosen
  BY DEF WriteT0
<1>2. phase \in T0Phases /\ Fixed BY <1>1 DEF T0Phases, Fixed
<1>3. /\ Kinds /\ run \in Block /\ chosen \in AnyChoice /\ RunFile \in Block /\ global \in Block
      /\ Grown(RunFile, run, chosen) /\ setup \in Setups /\ file.run \in Seq(Lines) /\ file.global \in Seq(Lines)
  BY <1>2, WindowHas
<1>4. WindowTyped /\ FileAccepted /\ FilePart /\ RunRanges /\ WindowT0s BY <1>2 DEF T0Inv, Kinds, RunPart
<1>5. Writable(file.run, run) /\ Known(UsersRun) /\ Known(RunFile) BY <1>4 DEF WindowTyped
<1>6. PairedUser /\ AddT0sMatch(setup.addRuns, RunFile) BY <1>2, <1>4 DEF FileAccepted
<1>7. PICK f, b, c, w : f = RunFile /\ b = run /\ c = chosen /\ w = written OBVIOUS
<1>8. f \in Block /\ b \in Block /\ Grown(f, b, c) /\ Known(f) /\ AddT0sMatch(setup.addRuns, f)
  BY <1>3, <1>5, <1>6, <1>7
<1>9. PICK s, g : s = WriteRun(file.run, run, setup.isis) /\ g = WriteGlobal(file.global, global) OBVIOUS
<1>10. file'.run = s /\ file'.global = g BY <1>1, <1>9
<1>11. setup.isis \in BOOLEAN BY <1>3, SetupIs
<1>12. s \in Seq(Lines) BY <1>3, <1>5, <1>9, <1>11, WrittenT0s
<1>13. g \in Seq(Lines) /\ ReadBlock(g).t0 = ReadBlock(file.global).t0 BY <1>3, <1>9, WrittenGlobal
<1>14. ASSUME "t0" \notin gaps'
       PROVE  T0sOf(b, c) /\ Ready(f, b) /\ UsersT0s(f) /\ NoGaps(c)
  <2>1. "t0" \notin gaps /\ NoGaps(c) BY <1>1, <1>7, <1>14 DEF GapsOf
  <2>2. T0sOf(f, w) BY <1>4, <1>5, <1>6, <1>7, <2>1 DEF FilePart, FileT0s
  <2>3. UsersT0s(f) BY <2>2 DEF T0sOf
  <2>4. CanPlace => KeptT0s(b, c) BY <1>2, <1>4, <1>7, <2>1 DEF WindowT0s
  <2>5. Ready(f, b) BY <1>3, <1>8, <2>1, <2>3, <2>4, GrownReady
  <2>6. \A r \in 0..setup.addRuns : \A d \in Detectors : w.t0[r][d] # NotSet => c.t0[r][d] # NotSet
    BY <1>2, <1>4, <1>7 DEF WindowT0s, SetAgain
  <2>7. T0sOf(b, c) BY <1>3, <1>8, <2>1, <2>2, <2>3, <2>4, <2>6, GrownTheirs
  <2> QED BY <2>1, <2>3, <2>5, <2>7
<1>15. ASSUME "range" \notin gaps' PROVE RangesComplete(c) /\ (HasPlace => RangesOf(b, c))
  <2>1. "range" \notin gaps /\ RangesComplete(c) BY <1>1, <1>7, <1>15 DEF GapsOf
  <2> QED BY <1>2, <1>4, <1>7, <2>1 DEF RunRanges
<1>16. FilePart'
  <2>1. "t0" \notin gaps' => /\ T0sOf(run, c) /\ Ready(RunFile, run) /\ UsersT0s(RunFile)
                             /\ c = NothingChosen \/ NoGaps(c)
    BY <1>7, <1>14
  <2>2. "range" \notin gaps' => RangesComplete(c) /\ (HasPlace => RangesOf(run, c)) BY <1>7, <1>15
  <2>3. FileOnce /\ c = written' /\ file'.run = WriteRun(file.run, run, setup.isis)
    BY <1>1, <1>4, <1>7 DEF FilePart
  <2> QED BY <1>2, <1>3, <1>5, <1>6, <2>1, <2>2, <2>3, FileWritten
<1>17. written' \in AnyChoice BY <1>1, <1>3
<1> QED BY <1>1, <1>2, <1>10, <1>12, <1>13, <1>16, <1>17, EndKeeps

LEMMA FitKeeps ==
  ASSUME T0Inv, Fit
  PROVE  T0Inv'
<1>1. Next /\ UNCHANGED t0vars BY DEF Fit
<1>2. Kinds BY DEF T0Inv
<1>3. Kinds' BY <1>1, <1>2, FitKinds
<1>4. CASE Read BY <1>1, <1>3, <1>4, ReadKeeps DEF T0Inv
<1>5. CASE GetProperT0 BY <1>1, <1>3, <1>5, GetProperT0Keeps DEF T0Inv
<1>6. CASE EstimateBkg \/ GetProperDataRange BY <1>1, <1>3, <1>6, RangeStepsKeep DEF T0Inv
<1>7. CASE GetProperFitRange \/ PrepareFitData \/ CalcNoOfFitBins \/ FitRangeBin
  BY <1>1, <1>3, <1>7, OtherStepsKeep DEF T0Inv
<1>8. CASE WriteMsrLogFile BY <1>1, <1>3, <1>8, WriteKeeps DEF T0Inv
<1>9. CASE Terminated
  <2>1. UNCHANGED allvars BY <1>1, <1>9 DEF Terminated, allvars
  <2> QED BY <2>1, UnchangedKeeps
<1> QED BY <1>1, <1>4, <1>5, <1>6, <1>7, <1>8, <1>9 DEF Next, Prepare

LEMMA T0InvStep ==
  T0Inv /\ [T0Next]_allvars => T0Inv'
<1> SUFFICES ASSUME T0Inv, [T0Next]_allvars PROVE T0Inv'
  OBVIOUS
<1>1. CASE Start BY <1>1, StartKeeps
<1>2. CASE SetT0Channel \/ SetEstimatedT0Channel BY <1>2, T0KeysKeep
<1>3. CASE SetDataFirstChannel \/ SetDataLastChannel \/ SetBkgFirstChannel \/ SetBkgLastChannel
  BY <1>3, RangeKeysKeep
<1>4. CASE NextItem BY <1>4, NextItemKeeps
<1>5. CASE Quit BY <1>5, QuitKeeps
<1>6. CASE PromptPeak BY <1>6, PromptPeakKeeps
<1>7. CASE WriteT0 BY <1>7, WriteT0Keeps
<1>8. CASE Fit BY <1>8, FitKeeps
<1>9. CASE UNCHANGED allvars BY <1>9, UnchangedKeeps
<1> QED BY <1>1, <1>2, <1>3, <1>4, <1>5, <1>6, <1>7, <1>8, <1>9 DEF T0Next, PressKey

(* The kinds of all that musrt0 and the fits keep, that the lines of the    *)
(* RUN block stay single, and that what has been written without a gap is  *)
(* in the file, in the block and in the t0's and ranges that are used, in   *)
(* every session.                                                          *)
THEOREM MusrT0Invariant ==
  T0Spec => []T0Inv
<1>1. T0Init => T0Inv BY T0InvInit
<1>2. T0Inv /\ [T0Next]_allvars => T0Inv' BY T0InvStep
<1> QED BY <1>1, <1>2, PTL DEF T0Spec

LEMMA T0InvUses ==
  T0Inv => ChosenUsed /\ OthersKeepTheirs
<1> SUFFICES ASSUME T0Inv PROVE ChosenUsed /\ OthersKeepTheirs
  OBVIOUS
<1>1. RunT0s /\ RunRanges /\ Kinds BY DEF T0Inv, RunPart
<1>2. ASSUME FitReads
      PROVE  /\ phase \in Prepared /\ phase \in Busy
             /\ "t0" \notin gaps => AllUsed
             /\ setup.addRuns \in Nat
  <2>1. phase \in Prepared /\ phase \in Busy /\ phase \notin T0Phases
    BY <1>2 DEF FitReads, Prepared, Busy, T0Phases
  <2>2. setup \in Setups BY <1>1, <2>1 DEF Kinds, Sessions, FilesTyped
  <2> QED BY <1>1, <2>1, <2>2, SetupIs DEF RunT0s
<1>3. ChosenUsed
  <2>1. SUFFICES ASSUME FitReads, HasPlace
                 PROVE  /\ ~setup.isis /\ "t0" \notin gaps =>
                             /\ \A d \in Detectors : written.t0[0][d] # NotSet => t0s[d] = written.t0[0][d]
                             /\ \A k \in 1..setup.addRuns : \A d \in Detectors :
                                  written.t0[k][d] # NotSet => addT0s[k][d] = written.t0[k][d]
                        /\ "range" \notin gaps =>
                             \A i \in 1..4 : /\ written.data[i] # NotSet => run.data[i] = written.data[i]
                                             /\ written.bkg[i] # NotSet => run.bkg[i] = written.bkg[i]
    BY DEF ChosenUsed
  <2>2. ASSUME ~setup.isis, "t0" \notin gaps, NEW r \in 0..setup.addRuns, NEW d \in Detectors
        PROVE  written.t0[r][d] # NotSet => Used(r, d) = written.t0[r][d]
    BY <1>2, <2>1, <2>2 DEF AllUsed, UsedAs, CanPlace
  <2>3. ASSUME ~setup.isis, "t0" \notin gaps, NEW d \in Detectors, written.t0[0][d] # NotSet
        PROVE  t0s[d] = written.t0[0][d]
    <3>1. 0 \in 0..setup.addRuns BY <1>2, <2>1
    <3> QED BY <2>2, <2>3, <3>1 DEF Used
  <2>4. ASSUME ~setup.isis, "t0" \notin gaps, NEW k \in 1..setup.addRuns, NEW d \in Detectors,
               written.t0[k][d] # NotSet
        PROVE  addT0s[k][d] = written.t0[k][d]
    <3>1. k \in 0..setup.addRuns /\ k # 0 BY <1>2, <2>1
    <3> QED BY <2>2, <2>4, <3>1 DEF Used
  <2>5. ASSUME "range" \notin gaps, NEW i \in 1..4
        PROVE  /\ written.data[i] # NotSet => run.data[i] = written.data[i]
               /\ written.bkg[i] # NotSet => run.bkg[i] = written.bkg[i]
    <3>1. RangesOf(run, written) BY <1>1, <1>2, <2>1, <2>5 DEF RunRanges
    <3>2. RangeOf(run, written, "data") /\ RangeOf(run, written, "background")
      BY <3>1 DEF RangesOf, RangeWords
    <3> QED BY <3>2 DEF RangeOf, RangeIn
  <2> QED BY <2>3, <2>4, <2>5
<1>4. OthersKeepTheirs
  <2>1. SUFFICES ASSUME FitReads, Complete, "t0" \notin gaps
                 PROVE  /\ \A d \in Detectors : written.t0[0][d] = NotSet => t0s[d] = MeantT0(0, d)
                        /\ \A k \in 1..setup.addRuns : \A d \in Detectors :
                             written.t0[k][d] = NotSet => addT0s[k][d] = MeantT0(k, d)
    BY DEF OthersKeepTheirs
  <2>2. ASSUME NEW r \in 0..setup.addRuns, NEW d \in Detectors, written.t0[r][d] = NotSet
        PROVE  Used(r, d) = MeantT0(r, d)
    BY <1>2, <2>1, <2>2 DEF AllUsed, UsedAs
  <2>3. ASSUME NEW d \in Detectors, written.t0[0][d] = NotSet PROVE t0s[d] = MeantT0(0, d)
    <3>1. 0 \in 0..setup.addRuns BY <1>2, <2>1
    <3> QED BY <2>2, <2>3, <3>1 DEF Used
  <2>4. ASSUME NEW k \in 1..setup.addRuns, NEW d \in Detectors, written.t0[k][d] = NotSet
        PROVE  addT0s[k][d] = MeantT0(k, d)
    <3>1. k \in 0..setup.addRuns /\ k # 0 BY <1>2, <2>1
    <3> QED BY <2>2, <2>4, <3>1 DEF Used
  <2> QED BY <2>3, <2>4
<1> QED BY <1>3, <1>4

(* The t0's and ranges set with musrt0 are those that the next fits use.   *)
THEOREM ChosenIsUsed ==
  T0Spec => []ChosenUsed
<1>1. T0Inv => ChosenUsed BY T0InvUses
<1> QED BY <1>1, MusrT0Invariant, PTL

(* A detector whose t0 has not been set keeps the one of the user's file,   *)
(* or of the data file.                                                    *)
THEOREM OthersAreKept ==
  T0Spec => []OthersKeepTheirs
<1>1. T0Inv => OthersKeepTheirs BY T0InvUses
<1> QED BY <1>1, MusrT0Invariant, PTL

-----------------------------------------------------------------------------
(* What is found in every session is what the user's file means: the bins  *)
(* and times that the code finds for t0's t, ends x of the data ranges,    *)
(* good bins g, a fit range f and the blocks b and c.                      *)

EndsFrom(x, side) ==
  IF x[2*side] < x[2*side - 1] THEN <<x[2*side], x[2*side - 1]>> ELSE <<x[2*side - 1], x[2*side]>>

RangeFrom(x, side) ==
  <<EndsFrom(x, side)[1], IF EndsFrom(x, side)[2] > Size THEN Size - 1 ELSE EndsFrom(x, side)[2]>>

LikeFrom(t, r, to, from) == [i \in 1..2 |-> t[to] + r[i] - t[from]]

GoodFrom(t, x) ==
  IF setup.single THEN RangeFrom(x, 1) \o <<None, None>>
  ELSE LET r1 == RangeFrom(x, 1)
           r2 == RangeFrom(x, 2)
           s1 == Distance(r1[1], t[1])
           s2 == Distance(r2[1], t[2])
       IN  IF s1 > s2 THEN r1 \o LikeFrom(t, r1, 2, 1)
           ELSE IF s1 < s2 THEN LikeFrom(t, r2, 1, 2) \o r2
           ELSE r1 \o r2

InBinsFrom(g, t, n0, n1) == <<g[1] + n0 - t[1], g[2] - n1 - t[1]>>

BlockFrom(g, t, b) == IF b.inBins THEN InBinsFrom(g, t, b.offset[1], b.offset[2]) ELSE b.time

TimesFrom(g, t, b, c) ==
  LET p == IF BlockFrom(g, t, b)[1] # Undefined THEN BlockFrom(g, t, b) ELSE BlockFrom(g, t, c)
  IN  IF Undefined \in {p[1], p[2]} THEN InBinsFrom(g, t, 0, 0) ELSE p

DataFrom(g, side) ==
  LET n == g[2*side] - g[2*side - 1] IN
  IF n <= 0 THEN 0 ELSE IF setup.packing = 1 THEN n ELSE (n - 1) \div setup.packing

Time2From(g, t, i) == 2*g[1] - 1 + setup.packing - 2*t[1] + 2*setup.packing*i

BinsFrom(g, t, f) ==
  LET first == Time2From(g, t, 0)
      n == MinOf({DataFrom(g, side) : side \in Sides})
      start == CeilDiv(2*f[1] - first, 2*setup.packing)
      stop == (2*f[2] - first) \div (2*setup.packing) + 1
  IN  <<IF start < 0 THEN 0 ELSE start, IF stop > n THEN n ELSE stop, n>>

(* The t0's, ranges and bins that the user means.                          *)
TheT0s == [d \in Detectors |-> MeantT0(0, d)]
TheAddT0s == [k \in 1..setup.addRuns |-> [d \in Detectors |-> MeantT0(k, d)]]

OfSides(i) == i <= 2 \/ ~setup.single
UsersBin(i) == IF UsersRun.data[i] >= 0 THEN UsersRun.data[i] ELSE UsersGlobal.data[i]
TheEstimate(i) == IF i % 2 = 1 THEN MeantT0(0, (i + 1) \div 2) + TenNs ELSE Size
TheData == [i \in 1..4 |-> IF UsersBin(i) < 0 THEN TheEstimate(i) ELSE UsersBin(i)]

TheGood == GoodFrom(TheT0s, TheData)
TheTimes == TimesFrom(TheGood, TheT0s, UsersRun, UsersGlobal)
TheFound ==
  [t0s |-> TheT0s, addT0s |-> TheAddT0s, good |-> TheGood, fitTime |-> TheTimes,
   bins |-> BinsFrom(TheGood, TheT0s, TheTimes)]

(* The ranges of the RUN block once what is missing has been found.        *)
FilledData ==
  [i \in 1..4 |-> IF OfSides(i) /\ UsersBin(i) < 0 THEN TheEstimate(i) ELSE UsersRun.data[i]]

FilledBkg ==
  IF setup.bkgKnown \/ UsersRun.bkg[1] >= 0 THEN UsersRun.bkg
  ELSE [i \in 1..4 |-> IF OfSides(i) THEN Tenth(MeantT0(0, (i + 1) \div 2), IF i % 2 = 1 THEN 1 ELSE 6)
                         ELSE UsersRun.bkg[i]]

(* RangesPassed and the rest of Passed, of the t0's that are meant.        *)
RangesPass ==
  /\ \A b \in {UsersRun, UsersGlobal} : -1 \notin {b.time[1], b.time[2]}
  /\ \A i \in 1..4 : UsersGlobal.data[i] # 0
  /\ UsersGlobal.data[3] = None <=> UsersGlobal.data[4] = None
  /\ TenNs > 0 \/ \A side \in Sides : MeantT0(0, side) > 0

LinesPass ==
  /\ \A lines \in {user.run, user.global} : Once(lines, {"fit", "fit fgb"})
  /\ ~AddT0Behind(user.run)
  /\ setup.bkgKnown \/ UsersRun.bkg[1] > 0 \/ \A side \in Sides : MeantT0(0, side) >= 10

(* The fit range of block b is that of block u, as far as it is read.      *)
SameFit(b, u) ==
  /\ b.inBins = u.inBins
  /\ b.inBins /\ u.offset[1] >= 0 /\ u.offset[2] > 0 => b.offset = u.offset
  /\ ~b.inBins => b.time = u.time

(* All this depends on the setup and the user's file alone.                *)
LEMMA TheSame ==
  ASSUME setup' = setup, user' = user
  PROVE  /\ UsersRun' = UsersRun /\ UsersGlobal' = UsersGlobal /\ Detectors' = Detectors /\ Sides' = Sides
         /\ TheT0s' = TheT0s /\ TheAddT0s' = TheAddT0s /\ TheData' = TheData
         /\ FilledData' = FilledData /\ FilledBkg' = FilledBkg
         /\ (RangesPass' <=> RangesPass) /\ (LinesPass' <=> LinesPass) /\ (Complete' <=> Complete)
         /\ (OffsetsPassed' <=> OffsetsPassed)
<1>1. /\ UsersRun' = UsersRun /\ UsersGlobal' = UsersGlobal /\ Detectors' = Detectors
      /\ Complete' <=> Complete
      /\ \A r, d : MeantT0(r, d)' = MeantT0(r, d)
  BY UsersSame
<1>2. Sides' = Sides BY DEF Sides
<1>3. TheT0s' = TheT0s /\ TheAddT0s' = TheAddT0s BY <1>1 DEF TheT0s, TheAddT0s
<1>4. \A i : UsersBin(i)' = UsersBin(i) /\ TheEstimate(i)' = TheEstimate(i) /\ (OfSides(i)' <=> OfSides(i))
  BY <1>1 DEF UsersBin, TheEstimate, OfSides
<1>5. TheData' = TheData BY <1>4 DEF TheData
<1>6. FilledData' = FilledData BY <1>1, <1>4 DEF FilledData
<1>7. FilledBkg' = FilledBkg BY <1>1, <1>4 DEF FilledBkg, Tenth
<1>8. RangesPass' <=> RangesPass BY <1>1, <1>2 DEF RangesPass
<1>9. LinesPass' <=> LinesPass BY <1>1, <1>2 DEF LinesPass, Once, AddT0Behind
<1>10. OffsetsPassed' <=> OffsetsPassed BY <1>1 DEF OffsetsPassed
<1> QED BY <1>1, <1>2, <1>3, <1>5, <1>6, <1>7, <1>8, <1>9, <1>10

LEMMA FromSame ==
  ASSUME setup' = setup, user' = user
  PROVE  TheGood' = TheGood /\ TheTimes' = TheTimes /\ TheFound' = TheFound
<1>1. /\ UsersRun' = UsersRun /\ UsersGlobal' = UsersGlobal /\ Sides' = Sides
      /\ TheT0s' = TheT0s /\ TheAddT0s' = TheAddT0s /\ TheData' = TheData
  BY TheSame
<1>2. TheGood' = TheGood BY <1>1 DEF TheGood, GoodFrom, RangeFrom, EndsFrom, LikeFrom, Distance
<1>3. TheTimes' = TheTimes BY <1>1, <1>2 DEF TheTimes, TimesFrom, BlockFrom, InBinsFrom
<1>4. BinsFrom(TheGood, TheT0s, TheTimes)' = BinsFrom(TheGood, TheT0s, TheTimes)
  BY <1>1, <1>2, <1>3 DEF BinsFrom, Time2From, DataFrom, CeilDiv, MinOf
<1> QED BY <1>1, <1>2, <1>3, <1>4 DEF TheFound

-----------------------------------------------------------------------------
(* The fit range of a block: it is that of the last fit line, and if all   *)
(* fit lines are alike, that of any.                                       *)

FitOf(b) == <<b.inBins, b.offset, b.time>>

LEMMA ReadFit ==
  ASSUME NEW lines \in Seq(Lines), NEW b \in Blocks(lines), NEW l \in Lines
  PROVE  FitOf(ReadLine(b, l)) =
           <<b.inBins \/ l.word = "fit fgb",
             IF l.word = "fit fgb" THEN ReadOffset(l.n) ELSE b.offset,
             IF l.word = "fit" THEN l.n ELSE b.time>>
<1>1. l.word \in Words BY DEF Lines
<1>2. PICK offset, bkg, data, t0, addT0 :
        /\ offset = ReadOffset(l.n) /\ bkg = Overwritten(b.bkg, l.n) /\ data = Overwritten(b.data, l.n)
        /\ t0 = b.t0 \o l.n /\ addT0 = Append(b.addT0, l.n)
  OBVIOUS
<1>3. ReadLine(b, l) =
         CASE l.word = "t0"         -> [b EXCEPT !.t0 = t0]
           [] l.word = "addt0"      -> [b EXCEPT !.addT0 = addT0]
           [] l.word = "background" -> [b EXCEPT !.bkg = bkg]
           [] l.word = "data"       -> [b EXCEPT !.data = data]
           [] l.word = "fit"        -> [b EXCEPT !.time = l.n]
           [] l.word = "fit fgb"    -> [b EXCEPT !.inBins = TRUE, !.offset = offset]
  BY <1>2 DEF ReadLine
<1>4. PICK bkgs, offsets, times :
        /\ bkgs = [1..4 -> Int]
        /\ offsets = {NoBlock.offset} \cup {ReadOffset(lines[j].n) : j \in DOMAIN lines}
        /\ times = {NoBlock.time} \cup {lines[j].n : j \in DOMAIN lines}
  OBVIOUS
<1>5. b \in [t0 : Seq(Int), addT0 : Seq(Seq(Int)), bkg : bkgs, data : bkgs, inBins : BOOLEAN,
              offset : offsets, time : times]
  BY <1>4 DEF Blocks
<1>6. PICK c : c = ReadLine(b, l) OBVIOUS
<1>7. /\ c.inBins = (b.inBins \/ l.word = "fit fgb")
      /\ c.offset = IF l.word = "fit fgb" THEN offset ELSE b.offset
      /\ c.time = IF l.word = "fit" THEN l.n ELSE b.time
  <2>1. CASE l.word = "t0" BY <1>3, <1>5, <1>6, <2>1
  <2>2. CASE l.word = "addt0" BY <1>3, <1>5, <1>6, <2>2
  <2>3. CASE l.word = "background" BY <1>3, <1>5, <1>6, <2>3
  <2>4. CASE l.word = "data" BY <1>3, <1>5, <1>6, <2>4
  <2>5. CASE l.word = "fit" BY <1>3, <1>5, <1>6, <2>5
  <2>6. CASE l.word = "fit fgb" BY <1>3, <1>5, <1>6, <2>6
  <2> QED BY <1>1, <2>1, <2>2, <2>3, <2>4, <2>5, <2>6 DEF Words
<1> QED BY <1>2, <1>6, <1>7 DEF FitOf

(* Of lines that are alike as far as their words are concerned, an item of *)
(* the block, F, is what one of them sets, y, or as it was.                *)
Alike(lines, words, F, x, y) ==
  /\ F[NoBlock] = x
  /\ \A b \in Blocks(lines), i \in 1..Len(lines) :
       /\ lines[i].word \notin words => F[ReadLine(b, lines[i])] = F[b]
       /\ lines[i].word \in words /\ F[b] \in {x, y} => F[ReadLine(b, lines[i])] = y

LEMMA ReadAlike ==
  ASSUME NEW lines \in Seq(Lines), NEW words, NEW F, NEW x, NEW y, Alike(lines, words, F, x, y)
  PROVE  F[ReadBlock(lines)] = IF HasAny(lines, words) THEN y ELSE x
<1>1. PICK n \in Nat : n = Len(lines) /\ DOMAIN lines = 1..n OBVIOUS
<1>2. PICK f : ReadsOf(lines, f) BY Reads
<1>3. /\ f \in [0..n -> Blocks(lines)] /\ f[0] = NoBlock /\ ReadBlock(lines) = f[n]
      /\ \A j \in 1..n : f[j] = ReadLine(f[j - 1], lines[j])
  BY <1>1, <1>2, Zenon DEF ReadsOf
<1>4. PICK S : S = {j \in 0..n : F[f[j]] = IF \E h \in 1..j : lines[h].word \in words THEN y ELSE x} OBVIOUS
<1>5. 0 \in S BY <1>3, <1>4 DEF Alike
<1>6. ASSUME NEW k \in 0..(n - 1), k \in S PROVE k + 1 \in S
  <2>1. PICK j \in 1..n : j = k + 1 OBVIOUS
  <2>2. j - 1 = k /\ j \in 0..n /\ k \in 0..n /\ \A h \in 1..j : h \in 1..k \/ h = j BY <2>1
  <2>3. F[f[k]] = IF \E h \in 1..k : lines[h].word \in words THEN y ELSE x BY <1>4, <1>6
  <2>4. 1..k \subseteq 1..j /\ j \in 1..j BY <2>1
  <2>5. f[k] \in Blocks(lines) /\ f[j] = ReadLine(f[k], lines[j]) BY <1>3, <2>2
  <2>6. /\ lines[j].word \notin words => F[f[j]] = F[f[k]]
        /\ lines[j].word \in words /\ F[f[k]] \in {x, y} => F[f[j]] = y
    <3>1. j \in 1..Len(lines) BY <1>1
    <3> QED BY <2>5, <3>1 DEF Alike
  <2>7. CASE lines[j].word \in words
    <3>1. F[f[j]] = y BY <2>3, <2>6, <2>7
    <3> QED BY <1>4, <2>1, <2>2, <2>4, <2>7, <3>1
  <2>8. CASE lines[j].word \notin words
    <3>1. F[f[j]] = F[f[k]] BY <2>6, <2>8
    <3>2. (\E h \in 1..j : lines[h].word \in words) <=> \E h \in 1..k : lines[h].word \in words
      BY <2>2, <2>4, <2>8
    <3> QED BY <1>4, <2>1, <2>2, <2>3, <3>1, <3>2
  <2> QED BY <2>7, <2>8
<1>7. 0..n \subseteq S BY <1>5, <1>6, UpTo
<1>8. n \in S BY <1>7
<1> QED BY <1>1, <1>3, <1>4, <1>8 DEF HasAny

(* What is written of such a range is read as it is.                       *)
LEMMA ThenOne ==
  ASSUME NEW s \in Seq(Int), NEW e \in Int, NEW t, t = s \o <<e>>
  PROVE  /\ t \in Seq(Int) /\ Len(t) = Len(s) + 1 /\ t[Len(s) + 1] = e
         /\ \A i \in 1..Len(s) : t[i] = s[i]
OBVIOUS

Both(n, x) ==
  /\ n \in Seq(Int) /\ \A i \in 1..Len(n) : i \in 1..4 /\ n[i] = x[i] /\ n[i] > 0
  /\ Len(n) = IF x[3] = None THEN 2 ELSE 4

LEMMA PairedWritten ==
  ASSUME NEW word \in RangeWords, NEW x \in [1..4 -> Int], PairedRange(x), x[1] # None
  PROVE  Both(WriteRange(word, x).n, x)
<1>1. PICK seqs : seqs = [i \in 1..4 |-> IfPositive(x[i])] OBVIOUS
<1>2. \A i \in 1..4 : IfPositive(x[i]) \in Seq(Int) BY DEF IfPositive
<1>3. seqs \in Seq(Seq(Int)) /\ Len(seqs) = 4
  <2>1. PICK T : T = Seq(Int) OBVIOUS
  <2>2. seqs \in [1..4 -> T] BY <1>1, <1>2, <2>1
  <2>3. PICK m \in Nat : m = 4 OBVIOUS
  <2>4. seqs \in [1..m -> T] BY <2>2, <2>3
  <2>5. seqs \in Seq(T) /\ Len(seqs) = m BY <2>4
  <2> QED BY <2>1, <2>3, <2>5
<1>4. PICK f : Flattening(seqs, f, Int) BY <1>3, Flattens
<1>5. /\ f[0] = <<>> /\ FlattenSeq(seqs) = f[4]
      /\ \A i \in 1..4 : f[i] = f[i - 1] \o seqs[i]
  BY <1>3, <1>4, Zenon DEF Flattening
<1>6. PICK n : n = f[4] OBVIOUS
<1>7. WriteRange(word, x).n = n BY <1>1, <1>5, <1>6, Zenon DEF WriteRange, Line
<1>8. x[1] \in Int /\ x[2] \in Int /\ x[3] \in Int /\ x[4] \in Int OBVIOUS
<1>9. x[1] > 0 /\ x[2] > 0 BY DEF PairedRange
<1>10. seqs[1] = <<x[1]>> /\ seqs[2] = <<x[2]>> BY <1>1, <1>9 DEF IfPositive
<1>11. f[1] = f[0] \o seqs[1] /\ f[2] = f[1] \o seqs[2] /\ f[3] = f[2] \o seqs[3] /\ f[4] = f[3] \o seqs[4]
  <2>1. 1 - 1 = 0 /\ 2 - 1 = 1 /\ 3 - 1 = 2 /\ 4 - 1 = 3 OBVIOUS
  <2>2. 1 \in 1..4 /\ 2 \in 1..4 /\ 3 \in 1..4 /\ 4 \in 1..4 OBVIOUS
  <2> QED BY <1>5, <2>1, <2>2
<1>12. f[1] \in Seq(Int) /\ Len(f[1]) = 1 /\ f[1][1] = x[1]
  <2>1. <<>> \in Seq(Int) /\ Len(<<>>) = 0 OBVIOUS
  <2>2. f[1] = <<>> \o <<x[1]>> BY <1>5, <1>10, <1>11
  <2> QED BY <1>8, <2>1, <2>2, ThenOne
<1>13. f[2] \in Seq(Int) /\ Len(f[2]) = 2 /\ f[2][1] = x[1] /\ f[2][2] = x[2]
  <2>1. f[2] = f[1] \o <<x[2]>> BY <1>10, <1>11
  <2> QED BY <1>8, <1>12, <2>1, ThenOne
<1>14. CASE x[3] = None
  <2>1. x[4] = None BY <1>14 DEF PairedRange
  <2>2. seqs[3] = <<>> /\ seqs[4] = <<>> BY <1>1, <1>14, <2>1 DEF IfPositive, None
  <2>3. n = f[2] BY <1>6, <1>11, <1>13, <2>2
  <2>4. ASSUME NEW i \in 1..2 PROVE i \in 1..4 /\ n[i] = x[i] /\ n[i] > 0
    <3>1. i = 1 \/ i = 2 OBVIOUS
    <3> QED BY <1>9, <1>13, <2>3, <3>1
  <2> QED BY <1>7, <1>13, <1>14, <2>3, <2>4 DEF Both
<1>15. CASE x[3] # None
  <2>1. x[3] > 0 /\ x[4] > 0 BY <1>15 DEF PairedRange
  <2>2. seqs[3] = <<x[3]>> /\ seqs[4] = <<x[4]>> BY <1>1, <2>1 DEF IfPositive
  <2>3. f[3] = f[2] \o <<x[3]>> BY <1>11, <2>2
  <2>4. f[3] \in Seq(Int) /\ Len(f[3]) = 3 /\ f[3][1] = x[1] /\ f[3][2] = x[2] /\ f[3][3] = x[3]
    BY <1>8, <1>13, <2>3, ThenOne
  <2>5. f[4] = f[3] \o <<x[4]>> BY <1>11, <2>2
  <2>6. f[4] \in Seq(Int) /\ Len(f[4]) = 4 /\ f[4][1] = x[1] /\ f[4][2] = x[2] /\ f[4][3] = x[3] /\ f[4][4] = x[4]
    BY <1>8, <2>4, <2>5, ThenOne
  <2>7. ASSUME NEW i \in 1..4 PROVE f[4][i] = x[i] /\ f[4][i] > 0
    <3>1. i = 1 \/ i = 2 \/ i = 3 \/ i = 4 OBVIOUS
    <3> QED BY <1>9, <2>1, <2>6, <3>1
  <2> QED BY <1>6, <1>7, <1>15, <2>6, <2>7 DEF Both
<1> QED BY <1>14, <1>15

LEMMA PairedRead ==
  ASSUME NEW word \in RangeWords, NEW x \in [1..4 -> Int], PairedRange(x), x[1] # None,
         NEW r \in {NoRange, x}
  PROVE  Overwritten(r, WriteRange(word, x).n) = x
<1>1. PICK n : n = WriteRange(word, x).n OBVIOUS
<1>2. Both(n, x) BY <1>1, PairedWritten
<1>3. PICK k \in Nat : k = Len(n) BY <1>2 DEF Both
<1>4. /\ k = IF x[3] = None THEN 2 ELSE 4
      /\ \A i \in 1..k : n[i] = x[i]
  BY <1>2, <1>3 DEF Both
<1>5. ASSUME NEW i \in 1..4 PROVE (IF i <= k THEN n[i] ELSE r[i]) = x[i]
  <2>1. CASE i <= k BY <1>4, <2>1
  <2>2. CASE ~(i <= k)
    <3>1. x[3] = None /\ i \in {3, 4} BY <1>4, <2>2
    <3>2. x[i] = None BY <3>1 DEF PairedRange
    <3>3. NoRange[i] = None BY DEF NoRange
    <3> QED BY <2>2, <3>2, <3>3
  <2> QED BY <2>1, <2>2
<1> QED BY <1>1, <1>3, <1>5 DEF Overwritten

(* All lines for a range are alike: they are read as what has been written. *)
LEMMA RangeAs ==
  ASSUME NEW word \in RangeWords, NEW x \in [1..4 -> Int], PairedRange(x), x[1] # None,
         NEW lines \in Seq(Lines),
         \A i \in 1..Len(lines) : lines[i].word = word => lines[i].n = WriteRange(word, x).n
  PROVE  RangeIn(ReadBlock(lines), word) = IF HasAny(lines, {word}) THEN x ELSE NoRange
<1>1. PICK F : F = [c \in Blocks(lines) |-> RangeIn(c, word)] OBVIOUS
<1>2. NoBlock \in Blocks(lines) /\ ReadBlock(lines) \in Blocks(lines) BY NoBlockIs, ReadBlockIs
<1>3. RangeIn(NoBlock, word) = NoRange BY DEF RangeIn, NoBlock
<1>4. F[NoBlock] = NoRange BY <1>1, <1>2, <1>3
<1>5. ASSUME NEW b \in Blocks(lines), NEW i \in 1..Len(lines)
      PROVE  /\ lines[i].word \notin {word} => F[ReadLine(b, lines[i])] = F[b]
             /\ lines[i].word \in {word} /\ F[b] \in {NoRange, x} => F[ReadLine(b, lines[i])] = x
  <2>1. PICK c, l : c = ReadLine(b, l) /\ l = lines[i] OBVIOUS
  <2>2. i \in DOMAIN lines /\ l \in Lines BY <2>1
  <2>3. c \in Blocks(lines) BY <2>1, <2>2, ReadLineIs
  <2>4. F[b] = RangeIn(b, word) /\ F[c] = RangeIn(c, word) BY <1>1, <2>3
  <2>5. RangeIn(c, word) = IF l.word = word THEN Overwritten(RangeIn(b, word), l.n) ELSE RangeIn(b, word)
    BY <2>1, <2>2, ReadRanges
  <2>6. l.word = word => l.n = WriteRange(word, x).n BY <2>1
  <2>7. l.word = word /\ F[b] \in {NoRange, x} => F[c] = x BY <2>4, <2>5, <2>6, PairedRead
  <2> QED BY <2>1, <2>4, <2>5, <2>7
<1>6. Alike(lines, {word}, F, NoRange, x) BY <1>4, <1>5 DEF Alike
<1>7. F[ReadBlock(lines)] = IF HasAny(lines, {word}) THEN x ELSE NoRange BY <1>6, ReadAlike
<1> QED BY <1>1, <1>2, <1>7

LEMMA RangeNone ==
  ASSUME NEW word \in RangeWords, NEW lines \in Seq(Lines), ~HasAny(lines, {word})
  PROVE  RangeIn(ReadBlock(lines), word) = NoRange
<1>1. PICK F : F = [c \in Blocks(lines) |-> RangeIn(c, word)] OBVIOUS
<1>2. NoBlock \in Blocks(lines) /\ ReadBlock(lines) \in Blocks(lines) BY NoBlockIs, ReadBlockIs
<1>3. RangeIn(NoBlock, word) = NoRange BY DEF RangeIn, NoBlock
<1>4. F[NoBlock] = NoRange BY <1>1, <1>2, <1>3
<1>5. ASSUME NEW b \in Blocks(lines), NEW i \in 1..Len(lines)
      PROVE  /\ lines[i].word \notin {word} => F[ReadLine(b, lines[i])] = F[b]
             /\ lines[i].word \in {word} /\ F[b] \in {NoRange, NoRange} => F[ReadLine(b, lines[i])] = NoRange
  <2>1. PICK c, l : c = ReadLine(b, l) /\ l = lines[i] OBVIOUS
  <2>2. i \in DOMAIN lines /\ l \in Lines BY <2>1
  <2>3. c \in Blocks(lines) BY <2>1, <2>2, ReadLineIs
  <2>4. F[b] = RangeIn(b, word) /\ F[c] = RangeIn(c, word) BY <1>1, <2>3
  <2>5. RangeIn(c, word) = IF l.word = word THEN Overwritten(RangeIn(b, word), l.n) ELSE RangeIn(b, word)
    BY <2>1, <2>2, ReadRanges
  <2>6. l.word # word BY <2>1, <2>2 DEF HasAny
  <2> QED BY <2>1, <2>4, <2>5, <2>6
<1>6. Alike(lines, {word}, F, NoRange, NoRange) BY <1>4, <1>5 DEF Alike
<1>7. F[ReadBlock(lines)] = IF HasAny(lines, {word}) THEN NoRange ELSE NoRange BY <1>6, ReadAlike
<1> QED BY <1>1, <1>2, <1>7

(* And the fit range.                                                      *)
LEMMA FitAs ==
  ASSUME NEW u \in Lines, u.word \in FitWords, NEW lines \in Seq(Lines),
         \A i \in 1..Len(lines) : lines[i].word \in FitWords => lines[i] = u
  PROVE  FitOf(ReadBlock(lines)) = IF HasAny(lines, FitWords) THEN FitOf(ReadLine(NoBlock, u)) ELSE FitOf(NoBlock)
<1>1. PICK F : F = [c \in Blocks(lines) |-> FitOf(c)] OBVIOUS
<1>2. NoBlock \in Blocks(lines) /\ ReadBlock(lines) \in Blocks(lines) BY NoBlockIs, ReadBlockIs
<1>3. PICK x, y : x = FitOf(NoBlock) /\ y = FitOf(ReadLine(NoBlock, u)) OBVIOUS
<1>4. F[NoBlock] = x BY <1>1, <1>2, <1>3
<1>5. ASSUME NEW b \in Blocks(lines), NEW l \in Lines
      PROVE  FitOf(ReadLine(b, l)) =
               <<b.inBins \/ l.word = "fit fgb",
                 IF l.word = "fit fgb" THEN ReadOffset(l.n) ELSE b.offset,
                 IF l.word = "fit" THEN l.n ELSE b.time>>
  BY ReadFit
<1>6. y = <<NoBlock.inBins \/ u.word = "fit fgb",
            IF u.word = "fit fgb" THEN ReadOffset(u.n) ELSE NoBlock.offset,
            IF u.word = "fit" THEN u.n ELSE NoBlock.time>>
  BY <1>2, <1>3, <1>5
<1>7. ASSUME NEW b \in Blocks(lines), NEW i \in 1..Len(lines)
      PROVE  /\ lines[i].word \notin FitWords => F[ReadLine(b, lines[i])] = F[b]
             /\ lines[i].word \in FitWords /\ F[b] \in {x, y} => F[ReadLine(b, lines[i])] = y
  <2>1. PICK c, l : c = ReadLine(b, l) /\ l = lines[i] OBVIOUS
  <2>2. i \in DOMAIN lines /\ l \in Lines BY <2>1
  <2>3. c \in Blocks(lines) BY <2>1, <2>2, ReadLineIs
  <2>4. F[b] = FitOf(b) /\ F[c] = FitOf(c) BY <1>1, <2>3
  <2>5. FitOf(c) = <<b.inBins \/ l.word = "fit fgb",
                     IF l.word = "fit fgb" THEN ReadOffset(l.n) ELSE b.offset,
                     IF l.word = "fit" THEN l.n ELSE b.time>>
    BY <1>5, <2>1, <2>2
  <2>6. b.inBins \in BOOLEAN /\ NoBlock.inBins = FALSE BY DEF Blocks, NoBlock
  <2>7. l.word \notin FitWords => F[c] = F[b]
    <3>1. ASSUME l.word \notin FitWords PROVE FitOf(c) = <<b.inBins, b.offset, b.time>>
      <4>1. l.word # "fit fgb" /\ l.word # "fit" BY <3>1 DEF FitWords
      <4>2. (b.inBins \/ l.word = "fit fgb") = b.inBins BY <2>6, <4>1
      <4> QED BY <2>5, <4>1, <4>2
    <3> QED BY <2>4, <3>1 DEF FitOf
  <2>8. ASSUME l.word \in FitWords, F[b] \in {x, y} PROVE F[c] = y
    <3>1. l = u BY <2>1, <2>8
    <3>2. PICK p, q, r : /\ p = (NoBlock.inBins \/ u.word = "fit fgb")
                         /\ q = IF u.word = "fit fgb" THEN ReadOffset(u.n) ELSE NoBlock.offset
                         /\ r = IF u.word = "fit" THEN u.n ELSE NoBlock.time
      OBVIOUS
    <3>3. y = <<p, q, r>> /\ p \in BOOLEAN BY <1>6, <3>2
    <3>4. \/ b.inBins = NoBlock.inBins /\ b.offset = NoBlock.offset /\ b.time = NoBlock.time
          \/ b.inBins = p /\ b.offset = q /\ b.time = r
      <4>1. CASE F[b] = x BY <1>3, <2>4, <4>1 DEF FitOf
      <4>2. CASE F[b] = y BY <2>4, <3>3, <4>2 DEF FitOf
      <4> QED BY <2>8, <4>1, <4>2
    <3>5. FitOf(c)[1] = p /\ FitOf(c)[2] = q /\ FitOf(c)[3] = r
      <4>1. (b.inBins \/ u.word = "fit fgb") = p BY <2>6, <3>2, <3>4
      <4>2. (IF u.word = "fit fgb" THEN ReadOffset(u.n) ELSE b.offset) = q BY <3>2, <3>4
      <4>3. (IF u.word = "fit" THEN u.n ELSE b.time) = r BY <3>2, <3>4
      <4>4. FitOf(c) = <<p, q, r>> BY <2>5, <3>1, <4>1, <4>2, <4>3, Zenon
      <4> QED BY <4>4
    <3>6. FitOf(c) = <<c.inBins, c.offset, c.time>> BY DEF FitOf
    <3> QED BY <2>4, <3>3, <3>5, <3>6
  <2> QED BY <2>1, <2>7, <2>8
<1>8. Alike(lines, FitWords, F, x, y) BY <1>4, <1>7, Zenon DEF Alike
<1>9. F[ReadBlock(lines)] = IF HasAny(lines, FitWords) THEN y ELSE x BY <1>8, ReadAlike
<1> QED BY <1>1, <1>2, <1>3, <1>9

-----------------------------------------------------------------------------
(* What the lines say that are written for a block.                        *)

OwnLines(lines, b) ==
  {l \in Lines :
     /\ l.word = "t0" => l.n = b.t0 /\ (b.t0 # <<>> \/ Has(lines, "t0"))
     /\ l.word = "addt0" => \E k \in 1..Len(b.addT0) : l.n = b.addT0[k]
     /\ l.word \in RangeWords =>
          /\ l = WriteRange(l.word, RangeIn(b, l.word))
          /\ RangeIn(b, l.word)[1] >= 0 \/ Has(lines, l.word)
     /\ l.word \in FitWords => l = WriteFit(b) /\ HasAny(lines, FitWords)}

LEMMA OwnRow ==
  ASSUME NEW lines, NEW b \in Block, NEW k \in 1..Len(b.addT0)
  PROVE  Line("addt0", b.addT0[k]) \in OwnLines(lines, b)
<1>1. b.addT0 \in Seq(Seq(Int)) BY BlockIs
<1>2. PICK r \in Seq(Int) : r = b.addT0[k]
  <2>1. PICK T : T = Seq(Int) OBVIOUS
  <2>2. b.addT0[k] \in T BY <1>1, <2>1
  <2> QED BY <2>1, <2>2
<1>3. PICK l : l = Line("addt0", r) OBVIOUS
<1>4. l \in Lines /\ l.word = "addt0" /\ l.n = r BY <1>3 DEF Line, Lines, Words
<1> QED BY <1>2, <1>3, <1>4 DEF OwnLines, RangeWords, FitWords

LEMMA OwnT0 ==
  ASSUME NEW lines, NEW b \in Block, b.t0 # <<>> \/ Has(lines, "t0")
  PROVE  Line("t0", b.t0) \in OwnLines(lines, b)
<1>1. b.t0 \in Seq(Int) BY BlockIs
<1>2. PICK l : l = Line("t0", b.t0) OBVIOUS
<1>3. l \in Lines /\ l.word = "t0" /\ l.n = b.t0 BY <1>1, <1>2 DEF Line, Lines, Words
<1> QED BY <1>2, <1>3 DEF OwnLines, RangeWords, FitWords

LEMMA OwnRange ==
  ASSUME NEW lines, NEW b \in Block, NEW word \in RangeWords,
         RangeIn(b, word)[1] >= 0 \/ Has(lines, word)
  PROVE  WriteRange(word, RangeIn(b, word)) \in OwnLines(lines, b)
<1>1. PICK l : l = WriteRange(word, RangeIn(b, word)) OBVIOUS
<1>2. RangeIn(b, word) \in [1..4 -> Int] BY RangesIs DEF RangeIn
<1>3. l \in Lines BY <1>1, <1>2, WriteRangeIs DEF RangeWords, Words
<1>4. l.word = word BY <1>1 DEF WriteRange, Line
<1>5. l.word # "t0" /\ l.word # "addt0" /\ l.word \notin FitWords BY <1>4 DEF RangeWords, FitWords
<1> QED BY <1>1, <1>3, <1>4, <1>5 DEF OwnLines

LEMMA OwnFit ==
  ASSUME NEW lines, NEW b \in Block, HasAny(lines, FitWords)
  PROVE  WriteFit(b) \in OwnLines(lines, b)
<1>1. PICK l : l = WriteFit(b) OBVIOUS
<1>2. l \in Lines /\ l.word \in FitWords BY <1>1, WriteFitIs DEF FitWords
<1>3. l.word # "t0" /\ l.word # "addt0" /\ l.word \notin RangeWords BY <1>2 DEF RangeWords, FitWords
<1> QED BY <1>1, <1>2, <1>3 DEF OwnLines

LEMMA MissingRowsOwn ==
  ASSUME NEW lines, NEW b \in Block, NEW from \in 0..Len(b.addT0), NEW X, X = OwnLines(lines, b)
  PROVE  FlattenSeq([k \in 1..(Len(b.addT0) - from) |-> WriteAddT0(b.addT0[from + k])]) \in Seq(X)
<1>1. PICK K \in Nat : K = Len(b.addT0) BY BlockIs
<1>2. PICK U : U = Seq(X) OBVIOUS
<1>3. ASSUME NEW k \in 1..(K - from) PROVE WriteAddT0(b.addT0[from + k]) \in U
  <2>1. PICK j \in 1..K : j = from + k BY <1>1
  <2>2. PICK l : l = Line("addt0", b.addT0[j]) OBVIOUS
  <2>3. l \in X BY <1>1, <2>1, <2>2, OwnRow
  <2>4. <<l>> \in Seq(X) /\ <<>> \in Seq(X) BY <2>3
  <2> QED BY <1>2, <2>1, <2>2, <2>4 DEF WriteAddT0
<1>4. PICK seqs : seqs = [k \in 1..(K - from) |-> WriteAddT0(b.addT0[from + k])] OBVIOUS
<1>5. seqs \in [1..(K - from) -> U] BY <1>3, <1>4
<1>6. K - from \in Nat BY <1>1
<1>7. seqs \in Seq(U) BY <1>5, <1>6
<1>8. FlattenSeq(seqs) \in Seq(X) BY <1>2, <1>7, FlattenIs
<1> QED BY <1>1, <1>4, <1>8

LEMMA MissingOwn ==
  ASSUME NEW lines \in Seq(Lines), NEW b, Writable(lines, b), NEW i \in 1..Len(lines), NEW isis \in BOOLEAN,
         NEW X, X = OwnLines(lines, b)
  PROVE  WriteMissing(lines, i, b, isis) \in Seq(X)
<1>1. PICK from, w1, w2, w3, w4 :
        /\ from = AddT0LinesBefore(lines, i)
        /\ w1 = IF ~Has(lines, "t0") /\ b.t0 # <<>> /\ ~isis THEN <<Line("t0", b.t0)>> ELSE <<>>
        /\ w2 = IF isis THEN <<>>
                ELSE FlattenSeq([k \in 1..(Len(b.addT0) - from) |-> WriteAddT0(b.addT0[from + k])])
        /\ w3 = IF ~Has(lines, "background") /\ b.bkg[1] >= 0 THEN <<WriteRange("background", b.bkg)>> ELSE <<>>
        /\ w4 = IF ~Has(lines, "data") /\ b.data[1] >= 0 THEN <<WriteRange("data", b.data)>> ELSE <<>>
  OBVIOUS
<1>2. WriteMissing(lines, i, b, isis) = ((w1 \o w2) \o w3) \o w4 BY <1>1, Zenon DEF WriteMissing
<1>3. b \in Block BY DEF Writable
<1>4. <<>> \in Seq(X) OBVIOUS
<1>5. w1 \in Seq(X)
  <2>1. CASE b.t0 # <<>>
    <3>1. PICK l : l = Line("t0", b.t0) OBVIOUS
    <3>2. l \in X BY <1>3, <2>1, <3>1, OwnT0
    <3> QED BY <1>1, <1>4, <3>1, <3>2
  <2>2. CASE b.t0 = <<>> BY <1>1, <1>4, <2>2
  <2> QED BY <2>1, <2>2
<1>6. w2 \in Seq(X)
  <2>1. from \in 0..Len(b.addT0) BY <1>1, CountLine
  <2>2. FlattenSeq([k \in 1..(Len(b.addT0) - from) |-> WriteAddT0(b.addT0[from + k])]) \in Seq(X)
    BY <1>3, <2>1, MissingRowsOwn
  <2> QED BY <1>1, <1>4, <2>2
<1>7. RangeIn(b, "data") = b.data /\ RangeIn(b, "background") = b.bkg
      /\ "data" \in RangeWords /\ "background" \in RangeWords
  BY DEF RangeIn, RangeWords
<1>8. w3 \in Seq(X)
  <2>1. CASE b.bkg[1] >= 0
    <3>1. PICK l : l = WriteRange("background", b.bkg) OBVIOUS
    <3>2. l \in X BY <1>3, <1>7, <2>1, <3>1, OwnRange
    <3> QED BY <1>1, <1>4, <3>1, <3>2
  <2>2. CASE ~(b.bkg[1] >= 0) BY <1>1, <1>4, <2>2
  <2> QED BY <2>1, <2>2
<1>9. w4 \in Seq(X)
  <2>1. CASE b.data[1] >= 0
    <3>1. PICK l : l = WriteRange("data", b.data) OBVIOUS
    <3>2. l \in X BY <1>3, <1>7, <2>1, <3>1, OwnRange
    <3> QED BY <1>1, <1>4, <3>1, <3>2
  <2>2. CASE ~(b.data[1] >= 0) BY <1>1, <1>4, <2>2
  <2> QED BY <2>1, <2>2
<1>10. ASSUME NEW s \in Seq(X), NEW t \in Seq(X) PROVE s \o t \in Seq(X) OBVIOUS
<1> QED BY <1>2, <1>5, <1>6, <1>8, <1>9, <1>10

LEMMA LineOwn ==
  ASSUME NEW lines \in Seq(Lines), NEW b, Writable(lines, b), NEW i \in 1..Len(lines), NEW isis \in BOOLEAN,
         NEW X, X = OwnLines(lines, b), NEW w, w = WriteLine(lines, i, b, isis)
  PROVE  w \in Seq(X) /\ (lines[i].word \in FitWords => \E e \in 1..Len(w) : w[e] = WriteFit(b))
<1>1. i \in DOMAIN lines /\ lines[i] \in Lines /\ b \in Block BY DEF Writable
<1>2. lines[i].word \in Words BY <1>1 DEF Lines
<1>3. ASSUME NEW l \in X PROVE <<l>> \in Seq(X) OBVIOUS
<1>4. RangeIn(b, "data") = b.data /\ RangeIn(b, "background") = b.bkg
      /\ "data" \in RangeWords /\ "background" \in RangeWords
  BY DEF RangeIn, RangeWords
<1>5. CASE lines[i].word = "t0"
  <2>1. Has(lines, "t0") BY <1>1, <1>5 DEF Has
  <2>2. PICK l : l = Line("t0", b.t0) OBVIOUS
  <2>3. w = <<l>> BY <1>5, <2>2 DEF WriteLine
  <2> QED BY <1>1, <1>3, <1>5, <2>1, <2>2, <2>3, OwnT0 DEF FitWords
<1>6. CASE lines[i].word = "addt0"
  <2>1. PICK k : k = AddT0LinesBefore(lines, i) + 1 OBVIOUS
  <2>2. k \in 1..Len(b.addT0) BY <1>6, <2>1, CountLine
  <2>3. PICK l : l = Line("addt0", b.addT0[k]) OBVIOUS
  <2>4. w = <<l>> BY <1>6, <2>1, <2>3 DEF WriteLine
  <2> QED BY <1>1, <1>3, <1>6, <2>2, <2>3, <2>4, OwnRow DEF FitWords
<1>7. CASE lines[i].word = "background"
  <2>1. Has(lines, "background") BY <1>1, <1>7 DEF Has
  <2>2. PICK l : l = WriteRange("background", b.bkg) OBVIOUS
  <2>3. w = <<l>> BY <1>7, <2>2 DEF WriteLine
  <2> QED BY <1>1, <1>3, <1>4, <1>7, <2>1, <2>2, <2>3, OwnRange DEF FitWords
<1>8. CASE lines[i].word = "data"
  <2>1. Has(lines, "data") BY <1>1, <1>8 DEF Has
  <2>2. PICK l : l = WriteRange("data", b.data) OBVIOUS
  <2>3. w = <<l>> BY <1>8, <2>2 DEF WriteLine
  <2> QED BY <1>1, <1>3, <1>4, <1>8, <2>1, <2>2, <2>3, OwnRange DEF FitWords
<1>9. CASE lines[i].word \in FitWords
  <2>1. PICK v, l : v = WriteMissing(lines, i, b, isis) /\ l = WriteFit(b) OBVIOUS
  <2>2. w = v \o <<l>> BY <1>9, <2>1 DEF WriteLine, FitWords
  <2>3. HasAny(lines, FitWords) BY <1>1, <1>9 DEF HasAny
  <2>4. l \in X BY <1>1, <2>1, <2>3, OwnFit
  <2>5. v \in Seq(X) BY <2>1, MissingOwn
  <2>6. w \in Seq(X) /\ Len(w) = Len(v) + 1 /\ w[Len(w)] = l BY <2>2, <2>4, <2>5
  <2>7. Len(w) \in 1..Len(w) BY <2>5, <2>6
  <2> QED BY <2>1, <2>6, <2>7
<1> QED BY <1>2, <1>5, <1>6, <1>7, <1>8, <1>9 DEF Words, FitWords

LEMMA RunOwn ==
  ASSUME NEW lines \in Seq(Lines), NEW b, Writable(lines, b), NEW isis \in BOOLEAN,
         NEW w, w = WriteRun(lines, b, isis)
  PROVE  /\ w \in Seq(Lines) /\ \A i \in 1..Len(w) : w[i] \in OwnLines(lines, b)
         /\ HasAny(lines, FitWords) => HasAny(w, FitWords)
<1>1. PICK n \in Nat : n = Len(lines) /\ DOMAIN lines = 1..n OBVIOUS
<1>2. PICK X : X = OwnLines(lines, b) OBVIOUS
<1>3. PICK seqs : seqs = [i \in DOMAIN lines |-> WriteLine(lines, i, b, isis)] OBVIOUS
<1>4. w = FlattenSeq(seqs) BY <1>3 DEF WriteRun
<1>5. ASSUME NEW i \in 1..n
      PROVE  seqs[i] \in Seq(X) /\ (lines[i].word \in FitWords => \E e \in 1..Len(seqs[i]) : seqs[i][e] = WriteFit(b))
  <2>1. i \in 1..Len(lines) /\ seqs[i] = WriteLine(lines, i, b, isis) BY <1>1, <1>3
  <2> QED BY <1>2, <2>1, LineOwn
<1>6. seqs \in Seq(Seq(X)) /\ Len(seqs) = n
  <2>1. PICK T : T = Seq(X) OBVIOUS
  <2>2. seqs \in [1..n -> T] BY <1>1, <1>3, <1>5, <2>1
  <2>3. seqs \in Seq(T) /\ Len(seqs) = n BY <2>2
  <2> QED BY <2>1, <2>3
<1>7. w \in Seq(X) BY <1>4, <1>6, FlattenIs
<1>8. X \subseteq Lines BY <1>2 DEF OwnLines
<1>9. w \in Seq(Lines) /\ \A i \in 1..Len(w) : w[i] \in X BY <1>7, <1>8
<1>10. ASSUME HasAny(lines, FitWords) PROVE HasAny(w, FitWords)
  <2>1. PICK i \in 1..n : lines[i].word \in FitWords BY <1>1, <1>10 DEF HasAny
  <2>2. PICK e \in 1..Len(seqs[i]) : seqs[i][e] = WriteFit(b) BY <1>5, <2>1
  <2>3. i \in 1..Len(seqs) BY <1>6
  <2>4. \E j \in 1..Len(FlattenSeq(seqs)) : FlattenSeq(seqs)[j] = seqs[i][e]
    BY <1>6, <2>2, <2>3, FlattenHasAll, Zenon
  <2>5. PICK j \in 1..Len(w) : w[j] = seqs[i][e] BY <1>4, <2>4, Zenon
  <2>6. w[j].word \in FitWords
    <3>1. b \in Block BY DEF Writable
    <3> QED BY <2>2, <2>5, <3>1, WriteFitIs DEF FitWords
  <2>7. j \in DOMAIN w BY <1>9
  <2> QED BY <2>6, <2>7 DEF HasAny
<1> QED BY <1>2, <1>9, <1>10

(* A range is read as it was in the block, or as it was in the file.       *)
LEMMA RangeWrittenAs ==
  ASSUME NEW lines \in Seq(Lines), NEW b, Writable(lines, b), NEW isis \in BOOLEAN, NEW word \in RangeWords,
         NEW x, x = RangeIn(b, word), x[1] # None => PairedRange(x), x[1] = None => ~Has(lines, word)
  PROVE  RangeIn(ReadBlock(WriteRun(lines, b, isis)), word) \in {x, RangeIn(ReadBlock(lines), word)}
<1>1. PICK w : w = WriteRun(lines, b, isis) OBVIOUS
<1>2. w \in Seq(Lines) /\ \A i \in 1..Len(w) : w[i] \in OwnLines(lines, b) BY <1>1, RunOwn
<1>3. x \in [1..4 -> Int]
  <2>1. b \in Block BY DEF Writable
  <2> QED BY <2>1, RangesIs DEF RangeIn
<1>4. x[1] \in Int BY <1>3
<1>5. Has(lines, word) <=> HasAny(lines, {word}) BY DEF Has, HasAny
<1>6. CASE x[1] = None
  <2>1. ~(x[1] >= 0) BY <1>6 DEF None
  <2>2. ~HasAny(w, {word})
    <3>1. SUFFICES ASSUME NEW i \in 1..Len(w), w[i].word = word PROVE FALSE BY <1>2 DEF HasAny
    <3> QED BY <1>2, <1>6, <2>1, <3>1 DEF OwnLines
  <2>3. RangeIn(ReadBlock(w), word) = NoRange BY <1>2, <2>2, RangeNone
  <2>4. RangeIn(ReadBlock(lines), word) = NoRange BY <1>5, <1>6, RangeNone
  <2> QED BY <1>1, <2>3, <2>4
<1>7. CASE x[1] # None
  <2>1. ASSUME NEW i \in 1..Len(w), w[i].word = word PROVE w[i].n = WriteRange(word, x).n
    BY <1>2, <2>1 DEF OwnLines
  <2>2. RangeIn(ReadBlock(w), word) = IF HasAny(w, {word}) THEN x ELSE NoRange
    BY <1>2, <1>3, <1>7, <2>1, RangeAs
  <2>3. CASE HasAny(lines, {word}) \/ HasAny(lines, FitWords)
    <3>1. x[1] > 0 BY <1>7 DEF PairedRange
    <3>2. Written(b, word, 1)
      <4>1. \A i \in 1..1 : i = 1 OBVIOUS
      <4> QED BY <3>1, <4>1 DEF Written
    <3>3. 1 \in 1..4 /\ 1 \in 1..1 OBVIOUS
    <3>4. \A i \in 1..1 : RangeIn(ReadBlock(w), word)[i] = x[i] BY <1>1, <2>3, <3>2, <3>3, WrittenRange
    <3>5. RangeIn(ReadBlock(w), word) # NoRange
      <4>1. NoRange[1] = None BY DEF NoRange
      <4> QED BY <1>7, <3>3, <3>4, <4>1
    <3> QED BY <1>1, <2>2, <3>5
  <2>4. CASE ~HasAny(lines, {word})
    <3>1. RangeIn(ReadBlock(lines), word) = NoRange BY <2>4, RangeNone
    <3> QED BY <1>1, <2>2, <3>1
  <2> QED BY <2>3, <2>4
<1> QED BY <1>6, <1>7

(* A fit line is read as the fit range it has been written for.            *)
FitPassed(u) == -1 \notin {u.time[1], u.time[2]}

LEMMA SameFitAs ==
  ASSUME NEW b, NEW c, NEW u, FitOf(b) = FitOf(c), SameFit(c, u)
  PROVE  SameFit(b, u)
<1>1. b.inBins = c.inBins /\ b.offset = c.offset /\ b.time = c.time BY DEF FitOf
<1> QED BY <1>1 DEF SameFit

LEMMA WrittenFit ==
  ASSUME NEW b \in Block, NEW u \in Block, SameFit(b, u), FitPassed(u)
  PROVE  /\ WriteFit(b) \in Lines /\ WriteFit(b).word \in FitWords /\ Len(WriteFit(b).n) = 2
         /\ SameFit(ReadLine(NoBlock, WriteFit(b)), u)
<1>1. PICK l : l = WriteFit(b) OBVIOUS
<1>2. l \in Lines /\ l.word \in FitWords BY <1>1, WriteFitIs DEF FitWords
<1>3. PICK c : c = ReadLine(NoBlock, l) OBVIOUS
<1>4. FitOf(c) = <<NoBlock.inBins \/ l.word = "fit fgb",
                   IF l.word = "fit fgb" THEN ReadOffset(l.n) ELSE NoBlock.offset,
                   IF l.word = "fit" THEN l.n ELSE NoBlock.time>>
  <2>1. PICK lines : lines = <<>> OBVIOUS
  <2>2. lines \in Seq(Lines) /\ NoBlock \in Blocks(lines) BY <2>1, NoBlockIs
  <2> QED BY <1>2, <1>3, <2>2, ReadFit
<1>5. /\ c.inBins = (NoBlock.inBins \/ l.word = "fit fgb")
      /\ l.word = "fit fgb" => c.offset = ReadOffset(l.n)
      /\ l.word = "fit" => c.time = l.n
  BY <1>4 DEF FitOf
<1>6. NoBlock.inBins = FALSE BY DEF NoBlock
<1>7. b.inBins \in BOOLEAN /\ b.offset \in [1..2 -> Int] /\ b.time \in [1..2 -> Int] BY RangesIs
<1>8. b.offset[1] \in Int /\ b.offset[2] \in Int /\ b.time[1] \in Int /\ b.time[2] \in Int BY <1>7
<1>9. u.inBins \in BOOLEAN /\ b.inBins = u.inBins BY RangesIs DEF SameFit
<1>10. CASE b.inBins
  <2>1. PICK n : n = [i \in 1..2 |-> IF b.offset[i] > 0 THEN b.offset[i] ELSE None] OBVIOUS
  <2>2. l = Line("fit fgb", n) BY <1>1, <1>10, <2>1 DEF WriteFit
  <2>3. l.word = "fit fgb" /\ l.n = n BY <2>2 DEF Line
  <2>4. n \in Seq(Int) /\ Len(n) = 2
    <3>1. PICK m \in Nat : m = 2 OBVIOUS
    <3>2. n \in [1..m -> Int] BY <1>7, <2>1, <3>1 DEF None
    <3>3. n \in Seq(Int) /\ Len(n) = m BY <3>2
    <3> QED BY <3>1, <3>3
  <2>5. c.inBins = TRUE /\ c.offset = ReadOffset(n) BY <1>5, <2>3
  <2>6. ASSUME u.offset[1] >= 0, u.offset[2] > 0 PROVE c.offset = u.offset
    <3>1. u.offset = b.offset BY <1>10, <2>6 DEF SameFit
    <3>2. n[2] = b.offset[2] /\ n[1] = IF b.offset[1] > 0 THEN b.offset[1] ELSE None
      BY <2>1, <2>6, <3>1
    <3>3. ReadOffset(n) = <<b.offset[1], b.offset[2]>>
      <4>1. n[2] # None BY <1>8, <2>6, <3>1, <3>2 DEF None
      <4>2. CASE b.offset[1] > 0
        <5>1. n[1] = b.offset[1] /\ n[1] # None BY <1>8, <3>2, <4>2 DEF None
        <5> QED BY <3>2, <4>1, <5>1 DEF ReadOffset
      <4>3. CASE ~(b.offset[1] > 0)
        <5>1. b.offset[1] = 0 BY <1>8, <2>6, <3>1, <4>3
        <5> QED BY <3>2, <4>1, <4>3, <5>1 DEF ReadOffset
      <4> QED BY <4>2, <4>3
    <3>4. b.offset = <<b.offset[1], b.offset[2]>>
      <4>1. b.offset \in Int \X Int BY DEF Block
      <4> QED BY <4>1
    <3> QED BY <2>5, <3>1, <3>3, <3>4
  <2>7. SameFit(c, u) BY <1>9, <1>10, <2>5, <2>6 DEF SameFit
  <2> QED BY <1>1, <1>2, <1>3, <2>3, <2>4, <2>7
<1>11. CASE ~b.inBins
  <2>1. b.time = u.time BY <1>11 DEF SameFit
  <2>2. b.time[1] # -1 /\ b.time[2] # -1 BY <2>1 DEF FitPassed
  <2>3. l = Line("fit", b.time) BY <1>1, <1>11, <2>2 DEF WriteFit
  <2>4. l.word = "fit" /\ l.n = b.time BY <2>3 DEF Line
  <2>5. Len(b.time) = 2 BY DEF Block
  <2>6. c.inBins = FALSE /\ c.time = u.time BY <1>5, <1>6, <2>1, <2>4
  <2>7. SameFit(c, u) BY <1>7, <1>9, <1>11, <2>6 DEF SameFit
  <2> QED BY <1>1, <1>2, <1>3, <2>4, <2>5, <2>7
<1> QED BY <1>10, <1>11

LEMMA FitWritten ==
  ASSUME NEW lines \in Seq(Lines), NEW b, Writable(lines, b), NEW isis \in BOOLEAN, NEW u \in Block,
         SameFit(ReadBlock(lines), u), SameFit(b, u), FitPassed(u)
  PROVE  SameFit(ReadBlock(WriteRun(lines, b, isis)), u)
<1>1. PICK w : w = WriteRun(lines, b, isis) OBVIOUS
<1>2. PICK l : l = WriteFit(b) OBVIOUS
<1>3. l \in Lines /\ l.word \in FitWords /\ SameFit(ReadLine(NoBlock, l), u)
  <2>1. b \in Block BY DEF Writable
  <2> QED BY <1>2, <2>1, WrittenFit
<1>4. /\ w \in Seq(Lines)
      /\ \A i \in 1..Len(w) : w[i].word \in FitWords => w[i] = l /\ HasAny(lines, FitWords)
      /\ HasAny(lines, FitWords) => HasAny(w, FitWords)
  BY <1>1, <1>2, RunOwn DEF OwnLines
<1>5. FitOf(ReadBlock(w)) = IF HasAny(w, FitWords) THEN FitOf(ReadLine(NoBlock, l)) ELSE FitOf(NoBlock)
  BY <1>3, <1>4, FitAs
<1>6. CASE HasAny(lines, FitWords) BY <1>1, <1>3, <1>4, <1>5, <1>6, SameFitAs
<1>7. CASE ~HasAny(lines, FitWords)
  <2>1. ~HasAny(w, FitWords) BY <1>4, <1>7 DEF HasAny
  <2>2. \A i \in 1..Len(lines) : lines[i].word \in FitWords => lines[i] = l BY <1>7 DEF HasAny
  <2>3. FitOf(ReadBlock(lines)) = FitOf(NoBlock) BY <1>3, <1>7, <2>2, FitAs
  <2>4. FitOf(ReadBlock(w)) = FitOf(ReadBlock(lines)) BY <1>5, <2>1, <2>3
  <2> QED BY <1>1, <2>4, SameFitAs
<1> QED BY <1>6, <1>7

-----------------------------------------------------------------------------
(* The GLOBAL block.                                                       *)

(* What is accepted for a data line there gives the first two bins, none   *)
(* of the bins negative.                                                   *)
GlobalRange(x) == x = NoRange \/ (x[1] >= 0 /\ x[2] >= 0 /\ \A i \in 1..4 : x[i] = None \/ x[i] >= 0)

LEMMA GlobalOverwritten ==
  ASSUME NEW x \in [1..4 -> Int], GlobalRange(x), NEW n \in Seq(Int), Len(n) >= 2,
         \A i \in DOMAIN n : n[i] >= 0
  PROVE  GlobalRange(Overwritten(x, n))
<1>1. PICK k \in Nat : k = Len(n) /\ DOMAIN n = 1..k OBVIOUS
<1>2. PICK y : y = Overwritten(x, n) OBVIOUS
<1>3. \A i \in 1..4 : y[i] = IF i <= k THEN n[i] ELSE x[i] BY <1>1, <1>2 DEF Overwritten
<1>4. ASSUME NEW i \in 1..4, i <= k PROVE y[i] >= 0
  <2>1. i \in 1..k BY <1>4
  <2> QED BY <1>1, <1>3, <1>4, <2>1
<1>5. ASSUME NEW i \in 1..4 PROVE y[i] = None \/ y[i] >= 0
  <2>1. CASE i <= k BY <1>4, <2>1
  <2>2. CASE ~(i <= k)
    <3>1. y[i] = x[i] BY <1>3, <2>2
    <3>2. NoRange[i] = None BY DEF NoRange
    <3> QED BY <3>1, <3>2 DEF GlobalRange
  <2> QED BY <2>1, <2>2
<1>6. y[1] >= 0 /\ y[2] >= 0
  <2>1. 1 \in 1..4 /\ 2 \in 1..4 /\ 1 <= k /\ 2 <= k BY <1>1
  <2> QED BY <1>4, <2>1
<1> QED BY <1>2, <1>5, <1>6 DEF GlobalRange

LEMMA GlobalRead ==
  ASSUME NEW lines \in Seq(Lines), \A i \in DOMAIN lines : LegalGlobalLine(lines[i])
  PROVE  ReadBlock(lines).data \in [1..4 -> Int] /\ GlobalRange(ReadBlock(lines).data)
<1>1. PICK n \in Nat : n = Len(lines) /\ DOMAIN lines = 1..n OBVIOUS
<1>2. PICK f : ReadsOf(lines, f) BY Reads
<1>3. /\ f \in [0..n -> Blocks(lines)] /\ ReadBlock(lines) = f[n] /\ f[0] = NoBlock
      /\ \A j \in 1..n : f[j] = ReadLine(f[j - 1], lines[j])
  BY <1>1, <1>2, Zenon DEF ReadsOf
<1>4. PICK S : S = {j \in 0..n : GlobalRange(f[j].data)} OBVIOUS
<1>5. 0 \in S
  <2>1. NoBlock.data = NoRange BY DEF NoBlock
  <2> QED BY <1>3, <1>4, <2>1 DEF GlobalRange
<1>6. ASSUME NEW b PROVE RangeIn(b, "data") = b.data BY DEF RangeIn
<1>7. "data" \in RangeWords BY DEF RangeWords
<1>8. ASSUME NEW k \in 0..(n - 1), k \in S PROVE k + 1 \in S
  <2>1. PICK j \in 1..n : j = k + 1 OBVIOUS
  <2>2. j - 1 = k /\ j \in 0..n /\ k \in 0..n BY <2>1
  <2>3. PICK b, c, l : b = f[k] /\ c = f[j] /\ l = lines[j] OBVIOUS
  <2>4. b \in Blocks(lines) /\ c = ReadLine(b, l) /\ l \in Lines /\ LegalGlobalLine(l)
    BY <1>1, <1>3, <2>2, <2>3
  <2>5. c.data = IF l.word = "data" THEN Overwritten(b.data, l.n) ELSE b.data
    BY <1>6, <1>7, <2>4, ReadRanges
  <2>6. b.data \in [1..4 -> Int] /\ GlobalRange(b.data) BY <1>4, <1>6, <1>7, <1>8, <2>3, <2>4, RangeInIs
  <2>7. l.word = "data" => GlobalRange(Overwritten(b.data, l.n))
    <3>1. l.n \in Seq(Int) BY <2>4 DEF Lines
    <3>2. l.word = "data" => Len(l.n) >= 2 /\ \A i \in DOMAIN l.n : l.n[i] >= 0 BY <2>4 DEF LegalGlobalLine
    <3> QED BY <2>6, <3>1, <3>2, GlobalOverwritten
  <2>8. GlobalRange(c.data) BY <2>5, <2>6, <2>7
  <2> QED BY <1>4, <2>1, <2>2, <2>3, <2>8
<1>9. 0..n \subseteq S BY <1>5, <1>8, UpTo
<1>10. n \in S BY <1>9
<1>11. ReadBlock(lines).data \in [1..4 -> Int] BY <1>6, <1>7, ReadBlockIs, RangeInIs
<1> QED BY <1>3, <1>4, <1>10, <1>11

LEMMA GlobalPaired ==
  ASSUME NEW x \in [1..4 -> Int], GlobalRange(x), \A i \in 1..4 : x[i] # 0, x[3] = None <=> x[4] = None
  PROVE  PairedRange(x)
<1>1. CASE x = NoRange BY <1>1 DEF NoRange, PairedRange
<1>2. CASE x # NoRange
  <2>1. x[1] > 0 /\ x[2] > 0
    <3>1. x[1] \in Int /\ x[2] \in Int /\ x[1] # 0 /\ x[2] # 0 OBVIOUS
    <3> QED BY <1>2, <3>1 DEF GlobalRange
  <2>2. x[1] # None /\ x[2] # None BY <2>1 DEF None
  <2>3. ASSUME NEW i \in 1..4 PROVE x[i] = None \/ x[i] > 0
    <3>1. x[i] \in Int /\ x[i] # 0 OBVIOUS
    <3> QED BY <1>2, <3>1 DEF GlobalRange
  <2> QED BY <2>2, <2>3 DEF PairedRange
<1> QED BY <1>1, <1>2

LEMMA GlobalLines ==
  ASSUME NEW lines \in Seq(Lines), NEW b \in Block, NEW w, w = WriteGlobal(lines, b), NEW i \in 1..Len(lines)
  PROVE  /\ lines[i].word = "data" => w[i] = WriteRange("data", b.data)
         /\ lines[i].word \in FitWords => w[i] = WriteFit(b)
         /\ lines[i].word \notin FitWords \cup {"data"} => w[i] = lines[i]
         /\ w[i].word \in FitWords <=> lines[i].word \in FitWords
         /\ w[i].word = "data" <=> lines[i].word = "data"
<1>1. PICK l : l = lines[i] /\ i \in DOMAIN lines OBVIOUS
<1>2. w[i] = CASE l.word = "data" -> WriteRange("data", b.data)
               [] l.word \in {"fit", "fit fgb"} -> WriteFit(b)
               [] OTHER -> l
  BY <1>1 DEF WriteGlobal
<1>3. WriteRange("data", b.data).word = "data" BY DEF WriteRange, Line
<1>4. WriteFit(b).word \in FitWords BY WriteFitIs DEF FitWords
<1>5. CASE l.word = "data" BY <1>1, <1>2, <1>3, <1>5 DEF FitWords
<1>6. CASE l.word \in FitWords BY <1>1, <1>2, <1>4, <1>6 DEF FitWords
<1>7. CASE l.word \notin FitWords \cup {"data"} BY <1>1, <1>2, <1>7 DEF FitWords
<1> QED BY <1>5, <1>6, <1>7

LEMMA GlobalIs ==
  ASSUME NEW lines \in Seq(Lines), NEW b \in Block, NEW w, w = WriteGlobal(lines, b)
  PROVE  w \in Seq(Lines) /\ Len(w) = Len(lines) /\ DOMAIN w = 1..Len(lines)
<1>1. w \in Seq(Lines) BY WrittenGlobal
<1>2. DOMAIN w = DOMAIN lines BY DEF WriteGlobal
<1>3. PICK n \in Nat : n = Len(lines) /\ DOMAIN lines = 1..n OBVIOUS
<1>4. w \in [1..n -> Lines] BY <1>1, <1>2, <1>3
<1>5. Len(w) = n BY <1>4
<1> QED BY <1>1, <1>2, <1>3, <1>5

LEMMA GlobalWritten ==
  ASSUME NEW lines \in Seq(Lines), NEW b \in Block, NEW w, w = WriteGlobal(lines, b), NEW u \in Block,
         SameFit(ReadBlock(lines), u), SameFit(b, u), FitPassed(u),
         ReadBlock(lines).data = b.data, PairedRange(b.data), HasAny(lines, {"data"}) => b.data[1] # None
  PROVE  SameFit(ReadBlock(w), u) /\ ReadBlock(w).data = b.data
<1>1. w \in Seq(Lines) /\ Len(w) = Len(lines) /\ DOMAIN w = 1..Len(lines) /\ DOMAIN lines = 1..Len(lines)
  BY GlobalIs
<1>2. PICK l : l = WriteFit(b) OBVIOUS
<1>3. l \in Lines /\ l.word \in FitWords /\ SameFit(ReadLine(NoBlock, l), u) BY <1>2, WrittenFit
<1>4. \A words \in {FitWords, {"data"}} : HasAny(w, words) <=> HasAny(lines, words)
  BY <1>1, GlobalLines DEF HasAny
<1>5. SameFit(ReadBlock(w), u)
  <2>1. \A i \in 1..Len(w) : w[i].word \in FitWords => w[i] = l BY <1>1, <1>2, GlobalLines
  <2>2. FitOf(ReadBlock(w)) = IF HasAny(w, FitWords) THEN FitOf(ReadLine(NoBlock, l)) ELSE FitOf(NoBlock)
    BY <1>1, <1>3, <2>1, FitAs
  <2>3. CASE HasAny(lines, FitWords) BY <1>3, <1>4, <2>2, <2>3, SameFitAs
  <2>4. CASE ~HasAny(lines, FitWords)
    <3>1. \A i \in 1..Len(lines) : lines[i].word \in FitWords => lines[i] = l BY <2>4 DEF HasAny
    <3>2. FitOf(ReadBlock(lines)) = FitOf(NoBlock) BY <1>3, <2>4, <3>1, FitAs
    <3>3. FitOf(ReadBlock(w)) = FitOf(ReadBlock(lines)) BY <1>4, <2>2, <2>4, <3>2
    <3> QED BY <3>3, SameFitAs
  <2> QED BY <2>3, <2>4
<1>6. "data" \in RangeWords /\ \A c : RangeIn(c, "data") = c.data BY DEF RangeIn, RangeWords
<1>7. b.data \in [1..4 -> Int] BY RangesIs
<1>8. ReadBlock(w).data = b.data
  <2>1. CASE HasAny(lines, {"data"})
    <3>1. \A i \in 1..Len(w) : w[i].word = "data" => w[i].n = WriteRange("data", b.data).n
      BY <1>1, GlobalLines
    <3>2. RangeIn(ReadBlock(w), "data") = IF HasAny(w, {"data"}) THEN b.data ELSE NoRange
      BY <1>1, <1>6, <1>7, <2>1, <3>1, RangeAs
    <3> QED BY <1>4, <1>6, <2>1, <3>2
  <2>2. CASE ~HasAny(lines, {"data"})
    <3>1. RangeIn(ReadBlock(lines), "data") = NoRange BY <1>6, <2>2, RangeNone
    <3>2. RangeIn(ReadBlock(w), "data") = NoRange BY <1>1, <1>4, <1>6, <2>2, RangeNone
    <3> QED BY <1>6, <3>1, <3>2
  <2> QED BY <2>1, <2>2
<1> QED BY <1>5, <1>8

(* A file that has been accepted has no data line, or a first bin.         *)
LEMMA GlobalHas ==
  ASSUME NEW lines \in Seq(Lines), \A i \in DOMAIN lines : LegalGlobalLine(lines[i]), HasAny(lines, {"data"})
  PROVE  ReadBlock(lines).data[1] # None
<1>1. "data" \in RangeWords BY DEF RangeWords
<1>2. PICK f : ReadsOf(lines, f) BY Reads
<1>3. PICK n \in Nat : n = Len(lines) /\ DOMAIN lines = 1..n OBVIOUS
<1>4. /\ f \in [0..n -> Blocks(lines)] /\ ReadBlock(lines) = f[n] /\ f[0] = NoBlock
      /\ \A j \in 1..n : f[j] = ReadLine(f[j - 1], lines[j])
  BY <1>2, <1>3, Zenon DEF ReadsOf
<1>5. PICK S : S = {j \in 0..n : (\E h \in 1..j : lines[h].word = "data") => f[j].data[1] >= 0} OBVIOUS
<1>6. 0 \in S BY <1>5
<1>7. \A b : RangeIn(b, "data") = b.data BY DEF RangeIn
<1>8. ASSUME NEW k \in 0..(n - 1), k \in S PROVE k + 1 \in S
  <2>1. PICK j \in 1..n : j = k + 1 OBVIOUS
  <2>2. j - 1 = k /\ j \in 0..n /\ k \in 0..n /\ (\A h \in 1..j : h \in 1..k \/ h = j) BY <2>1
  <2>3. PICK b, c, l : b = f[k] /\ c = f[j] /\ l = lines[j] OBVIOUS
  <2>4. b \in Blocks(lines) /\ c = ReadLine(b, l) /\ l \in Lines /\ LegalGlobalLine(l)
    BY <1>3, <1>4, <2>2, <2>3
  <2>5. c.data = IF l.word = "data" THEN Overwritten(b.data, l.n) ELSE b.data
    BY <1>1, <1>7, <2>4, ReadRanges
  <2>6. CASE l.word = "data"
    <3>1. PICK m \in Seq(Int) : m = l.n BY <2>4 DEF Lines
    <3>2. Len(m) >= 2 /\ \A i \in DOMAIN m : m[i] >= 0 BY <2>4, <2>6, <3>1 DEF LegalGlobalLine
    <3>3. 1 \in DOMAIN m /\ 1 <= Len(m) /\ 1 \in 1..4 BY <3>2
    <3>4. c.data[1] = m[1] BY <2>5, <2>6, <3>1, <3>3 DEF Overwritten
    <3>5. c.data[1] >= 0 BY <3>2, <3>3, <3>4
    <3> QED BY <1>5, <2>1, <2>2, <2>3, <3>5
  <2>7. CASE l.word # "data"
    <3>1. (\E h \in 1..j : lines[h].word = "data") => \E h \in 1..k : lines[h].word = "data"
      BY <2>2, <2>3, <2>7
    <3> QED BY <1>5, <1>8, <2>1, <2>2, <2>3, <2>5, <2>7, <3>1
  <2> QED BY <2>6, <2>7
<1>9. 0..n \subseteq S BY <1>6, <1>8, UpTo
<1>10. n \in S BY <1>9
<1>11. f[n].data[1] >= 0 BY <1>3, <1>5, <1>10 DEF HasAny
<1> QED BY <1>4, <1>11 DEF None

(* What is written is accepted again.                                      *)
LEMMA OwnLegal ==
  ASSUME NEW lines \in Seq(Lines), NEW b, Writable(lines, b), Known(b),
         Has(lines, "t0") => b.t0 # <<>>,
         \A word \in RangeWords : /\ RangeIn(b, word)[1] # None => PairedRange(RangeIn(b, word))
                                  /\ RangeIn(b, word)[1] = None => ~Has(lines, word),
         Len(WriteFit(b).n) = 2,
         NEW l \in OwnLines(lines, b)
  PROVE  LegalLine(l)
<1>1. l \in Lines /\ l.word \in Words BY DEF OwnLines, Lines
<1>2. b \in Block BY DEF Writable
<1>3. b.t0 \in Seq(Int) /\ b.addT0 \in Seq(Seq(Int)) BY <1>2, BlockIs
<1>4. CASE l.word = "t0"
  <2>1. l.n = b.t0 /\ b.t0 # <<>> BY <1>4 DEF OwnLines
  <2>2. DOMAIN b.t0 = 1..Len(b.t0) BY <1>3
  <2>3. \A i \in DOMAIN l.n : l.n[i] >= 0 BY <2>1, <2>2 DEF Known
  <2> QED BY <1>4, <2>1, <2>3 DEF LegalLine
<1>5. CASE l.word = "addt0"
  <2>1. PICK k \in 1..Len(b.addT0) : l.n = b.addT0[k] BY <1>5 DEF OwnLines
  <2>2. l.n \in Seq(Int) BY <1>1 DEF Lines
  <2>3. DOMAIN l.n = 1..Len(l.n) BY <2>2
  <2>4. l.n # <<>> /\ \A i \in DOMAIN l.n : l.n[i] >= 0 BY <2>1, <2>3 DEF Known, NoEmpty
  <2> QED BY <1>5, <2>4 DEF LegalLine
<1>6. CASE l.word \in RangeWords
  <2>1. PICK word, x : word = l.word /\ x = RangeIn(b, word) OBVIOUS
  <2>2. l = WriteRange(word, x) /\ (x[1] >= 0 \/ Has(lines, word)) BY <1>6, <2>1 DEF OwnLines
  <2>3. x \in [1..4 -> Int] BY <1>2, <2>1, RangesIs DEF RangeIn
  <2>4. word \in RangeWords BY <1>6, <2>1
  <2>5. x[1] # None
    <3>1. x[1] >= 0 => x[1] # None BY DEF None
    <3>2. x[1] = None => ~Has(lines, word) BY <2>1, <2>4
    <3> QED BY <2>2, <3>1, <3>2
  <2>6. PairedRange(x) BY <2>1, <2>4, <2>5
  <2>7. PICK n : n = l.n OBVIOUS
  <2>8. Both(n, x) BY <2>2, <2>3, <2>4, <2>5, <2>6, <2>7, PairedWritten
  <2>9. Len(n) % 2 = 0 /\ n # <<>> /\ \A i \in DOMAIN n : n[i] > 0
    <3>1. n \in Seq(Int) /\ (Len(n) = 2 \/ Len(n) = 4) BY <2>8 DEF Both
    <3>2. DOMAIN n = 1..Len(n) BY <3>1
    <3>3. Len(n) % 2 = 0
      <4>1. 2 % 2 = 0 /\ 4 % 2 = 0 OBVIOUS
      <4> QED BY <3>1, <4>1
    <3>4. n # <<>>
      <4>1. SUFFICES ASSUME n = <<>> PROVE FALSE OBVIOUS
      <4>2. Len(n) = 0 BY <4>1
      <4> QED BY <3>1, <4>2
    <3> QED BY <2>8, <3>2, <3>3, <3>4 DEF Both
  <2> QED BY <1>6, <2>7, <2>9 DEF LegalLine, RangeWords
<1>7. CASE l.word \in FitWords
  <2>1. l = WriteFit(b) BY <1>7 DEF OwnLines
  <2>2. Len(l.n) = 2 BY <2>1
  <2>3. l.word \notin {"t0", "addt0"} /\ l.word \notin {"background", "data"} BY <1>7 DEF FitWords
  <2> QED BY <2>2, <2>3 DEF LegalLine
<1> QED BY <1>1, <1>4, <1>5, <1>6, <1>7 DEF Words, FitWords, RangeWords

LEMMA GlobalLegal ==
  ASSUME NEW lines \in Seq(Lines), \A i \in DOMAIN lines : LegalGlobalLine(lines[i]), NEW b \in Block,
         Len(WriteFit(b).n) = 2, b.data[1] # None => PairedRange(b.data), HasAny(lines, {"data"}) => b.data[1] # None,
         NEW w, w = WriteGlobal(lines, b), NEW i \in DOMAIN w
  PROVE  LegalGlobalLine(w[i])
<1>1. DOMAIN w = 1..Len(lines) /\ DOMAIN lines = 1..Len(lines) BY GlobalIs
<1>2. PICK l, m : l = lines[i] /\ m = w[i] OBVIOUS
<1>3. /\ l.word = "data" => m = WriteRange("data", b.data)
      /\ l.word \in FitWords => m = WriteFit(b)
      /\ l.word \notin FitWords \cup {"data"} => m = l
      /\ m.word \in FitWords <=> l.word \in FitWords
      /\ m.word = "data" <=> l.word = "data"
  BY <1>1, <1>2, GlobalLines
<1>4. CASE l.word = "data"
  <2>1. HasAny(lines, {"data"}) BY <1>1, <1>2, <1>4 DEF HasAny
  <2>2. PairedRange(b.data) /\ b.data[1] # None /\ b.data \in [1..4 -> Int] BY <2>1, RangesIs
  <2>3. PICK n, x : n = m.n /\ x = b.data OBVIOUS
  <2>4. Both(n, x)
    <3>1. "data" \in RangeWords BY DEF RangeWords
    <3> QED BY <1>3, <1>4, <2>2, <2>3, <3>1, PairedWritten
  <2>5. n \in Seq(Int) /\ (Len(n) = 2 \/ Len(n) = 4) /\ \A j \in 1..Len(n) : n[j] > 0 BY <2>4 DEF Both
  <2>6. Len(n) >= 2 /\ \A j \in DOMAIN n : n[j] >= 0
    <3>1. DOMAIN n = 1..Len(n) BY <2>5
    <3>2. ASSUME NEW j \in 1..Len(n) PROVE n[j] >= 0
      <4>1. n[j] \in Int /\ n[j] > 0 BY <2>5
      <4> QED BY <4>1
    <3> QED BY <2>5, <3>1, <3>2
  <2> QED BY <1>2, <1>3, <1>4, <2>3, <2>6 DEF LegalGlobalLine
<1>5. CASE l.word \in FitWords
  <2>1. m = WriteFit(b) /\ Len(m.n) = 2 BY <1>3, <1>5
  <2>2. m.word \in FitWords BY <1>3, <1>5
  <2>3. m.word \notin {"t0", "addt0"} /\ m.word \notin {"background", "data"} BY <2>2 DEF FitWords
  <2> QED BY <1>2, <2>1, <2>3 DEF LegalLine, LegalGlobalLine
<1>6. CASE l.word \notin FitWords \cup {"data"}
  <2>1. LegalGlobalLine(l) BY <1>1, <1>2
  <2> QED BY <1>2, <1>3, <1>6, <2>1
<1> QED BY <1>4, <1>5, <1>6

-----------------------------------------------------------------------------
(* The ranges that the code fills in are ranges again, and what it finds   *)
(* of them is what is meant.                                               *)

UsersRanges ==
  /\ setup \in Setups
  /\ UsersRun \in Block /\ UsersGlobal \in Block
  /\ PairedRange(UsersRun.data) /\ PairedRange(UsersRun.bkg) /\ GlobalRange(UsersGlobal.data)
  /\ \A d \in Detectors : MeantT0(0, d) \in Nat

LEMMA MeantKnown ==
  ASSUME setup \in Setups, UsersTyped, UsersGlobal \in Block, NEW d \in Detectors
  PROVE  MeantT0(0, d) \in Nat
<1>1. PICK u, g : u = UsersRun /\ g = UsersGlobal OBVIOUS
<1>2. u.t0 \in Seq(Int) /\ u.addT0 \in Seq(Seq(Int)) /\ Known(u) BY <1>1 DEF UsersTyped
<1>3. g.t0 \in Seq(Int) /\ g.addT0 \in Seq(Seq(Int)) /\ Known(g) BY <1>1, BlockIs DEF UsersTyped
<1>4. 0 \in Nat OBVIOUS
<1>5. CASE d \in DOMAIN Row(u, 0)
  <2>1. MeantT0(0, d) = Row(u, 0)[d] BY <1>1, <1>4, <1>5, MeantIs
  <2>2. Row(u, 0)[d] \in Int /\ Row(u, 0)[d] >= 0 BY <1>2, <1>4, <1>5, RowGet
  <2> QED BY <2>1, <2>2
<1>6. CASE d \notin DOMAIN Row(u, 0)
  <2>1. MeantT0(0, d) = IF GetAt(g.t0, d) # None THEN GetAt(g.t0, d) ELSE FromData(0, d)
    BY <1>1, <1>4, <1>6, MeantIs
  <2>2. GetAt(g.t0, d) # None => GetAt(g.t0, d) \in Nat
    <3>1. ASSUME GetAt(g.t0, d) # None PROVE GetAt(g.t0, d) \in Int /\ GetAt(g.t0, d) >= 0
      <4>1. d \in 1..Len(g.t0) /\ GetAt(g.t0, d) = g.t0[d] /\ GetAt(g.t0, d) \in Int BY <1>3, <3>1, GetAtIs
      <4> QED BY <1>3, <4>1 DEF Known
    <3> QED BY <3>1
  <2>3. FromData(0, d) \in Nat
    <3>1. 0 \in 0..setup.addRuns BY SetupIs
    <3>2. FromData(0, d) \in 0..Size BY <3>1, SetupIs
    <3> QED BY <3>2, BinsAssumption
  <2> QED BY <2>1, <2>2, <2>3
<1> QED BY <1>5, <1>6

LEMMA UsersRangesAre ==
  ASSUME Sessions, Legal(user, setup.single, setup.addRuns)
  PROVE  UsersRanges
<1>1. PICK r, g : r = user.run /\ g = user.global /\ r \in Seq(Lines) /\ g \in Seq(Lines) /\ setup \in Setups
  BY DEF Sessions, FilesTyped
<1>2. /\ \A i \in DOMAIN r : LegalLine(r[i])
      /\ \A i \in DOMAIN g : LegalGlobalLine(g[i])
  BY <1>1 DEF Legal
<1>3. UsersRun = ReadBlock(r) /\ UsersGlobal = ReadBlock(g) BY <1>1 DEF UsersRun, UsersGlobal
<1>4. UsersRun \in Block /\ Known(UsersRun) BY <1>1, <1>2, <1>3, ReadFile
<1>5. UsersGlobal \in Block /\ Known(UsersGlobal) BY <1>1, <1>2, <1>3, ReadFile
<1>6. UsersTyped BY <1>4, <1>5, BlockIs DEF UsersTyped
<1>7. \A d \in Detectors : MeantT0(0, d) \in Nat BY <1>1, <1>5, <1>6, MeantKnown
<1>8. ASSUME NEW word \in RangeWords PROVE PairedRange(RangeIn(UsersRun, word))
  BY <1>1, <1>2, <1>3, LegalRanges
<1>9. PairedRange(UsersRun.data) /\ PairedRange(UsersRun.bkg)
  <2>1. "data" \in RangeWords /\ "background" \in RangeWords BY DEF RangeWords
  <2>2. RangeIn(UsersRun, "data") = UsersRun.data /\ RangeIn(UsersRun, "background") = UsersRun.bkg BY DEF RangeIn
  <2> QED BY <1>8, <2>1, <2>2
<1>10. GlobalRange(UsersGlobal.data) BY <1>1, <1>2, <1>3, GlobalRead
<1> QED BY <1>1, <1>4, <1>5, <1>7, <1>9, <1>10 DEF UsersRanges

LEMMA OfSidesIs ==
  ASSUME setup \in Setups, NEW i \in 1..4
  PROVE  /\ i <= 2*Cardinality(Sides) <=> OfSides(i)
         /\ OfSides(i) => (i + 1) \div 2 \in Sides /\ (i + 1) \div 2 \in Detectors
<1>1. i = 1 \/ i = 2 \/ i = 3 \/ i = 4 OBVIOUS
<1>2. (1 + 1) \div 2 = 1 /\ (2 + 1) \div 2 = 1 /\ (3 + 1) \div 2 = 2 /\ (4 + 1) \div 2 = 2 OBVIOUS
<1>3. PICK h : h = (i + 1) \div 2 OBVIOUS
<1>4. h = IF i <= 2 THEN 1 ELSE 2 BY <1>1, <1>2, <1>3
<1>5. i <= 2*Cardinality(Sides) <=> OfSides(i)
  <2>1. CASE setup.single
    <3>1. Cardinality(Sides) = 1 BY <2>1, SidesIs
    <3> QED BY <1>1, <2>1, <3>1 DEF OfSides
  <2>2. CASE ~setup.single
    <3>1. Cardinality(Sides) = 2 BY <2>2, SidesIs
    <3> QED BY <1>1, <2>2, <3>1 DEF OfSides
  <2> QED BY <2>1, <2>2
<1>6. OfSides(i) => h \in Sides BY <1>1, <1>4 DEF OfSides, Sides
<1> QED BY <1>3, <1>5, <1>6, SetupIs

LEMMA EstimateIs ==
  ASSUME UsersRanges, NEW i \in 1..4, OfSides(i)
  PROVE  TheEstimate(i) \in Nat /\ (RangesPass => TheEstimate(i) > 0)
<1>1. Size \in Nat \ {0} /\ TenNs \in Nat BY BinsAssumption
<1>2. PICK h : h = (i + 1) \div 2 OBVIOUS
<1>3. h \in Sides /\ h \in Detectors BY <1>2, OfSidesIs DEF UsersRanges
<1>4. MeantT0(0, h) \in Nat BY <1>3 DEF UsersRanges
<1>5. RangesPass => TenNs > 0 \/ MeantT0(0, h) > 0 BY <1>3 DEF RangesPass
<1>6. TheEstimate(i) = IF i % 2 = 1 THEN MeantT0(0, h) + TenNs ELSE Size BY <1>2 DEF TheEstimate
<1> QED BY <1>1, <1>4, <1>5, <1>6

LEMMA FilledDataIs ==
  ASSUME UsersRanges
  PROVE  /\ FilledData \in [1..4 -> Int]
         /\ FilledData[1] = None => UsersRun.data[1] = None
         /\ RangesPass /\ FilledData[1] # None => PairedRange(FilledData)
<1>1. PICK u, g, f : u = UsersRun.data /\ g = UsersGlobal.data /\ f = FilledData OBVIOUS
<1>2. u \in [1..4 -> Int] /\ g \in [1..4 -> Int] BY <1>1, RangesIs DEF UsersRanges
<1>3. f = [i \in 1..4 |-> IF OfSides(i) /\ (IF u[i] >= 0 THEN u[i] ELSE g[i]) < 0 THEN TheEstimate(i) ELSE u[i]]
  BY <1>1 DEF FilledData, UsersBin
<1>4. \A i \in 1..4 : OfSides(i) => TheEstimate(i) \in Nat /\ (RangesPass => TheEstimate(i) > 0)
  BY EstimateIs
<1>5. f \in [1..4 -> Int] BY <1>2, <1>3, <1>4
<1>6. OfSides(1) /\ OfSides(2) /\ (OfSides(3) <=> ~setup.single) /\ (OfSides(4) <=> ~setup.single)
  BY DEF OfSides
<1>7. f[1] = None => u[1] = None
  <2>1. 1 \in 1..4 OBVIOUS
  <2>2. TheEstimate(1) # None BY <1>4, <1>6, <2>1 DEF None
  <2> QED BY <1>3, <2>1, <2>2
<1>8. ASSUME RangesPass, f[1] # None PROVE PairedRange(f)
  <2>1. PairedRange(u) BY <1>1 DEF UsersRanges
  <2>2. PairedRange(g)
    <3>1. (\A i \in 1..4 : g[i] # 0) /\ (g[3] = None <=> g[4] = None) BY <1>1, <1>8 DEF RangesPass
    <3> QED BY <1>1, <1>2, <3>1, GlobalPaired DEF UsersRanges
  <2>3. ASSUME NEW i \in 1..4 PROVE /\ u[i] \in Int /\ g[i] \in Int
                                    /\ u[i] = None \/ u[i] > 0
                                    /\ g[i] = None \/ g[i] > 0
                                    /\ f[i] = IF OfSides(i) /\ u[i] = None /\ g[i] = None THEN TheEstimate(i) ELSE u[i]
    <3>1. u[i] \in Int /\ g[i] \in Int BY <1>2
    <3>2. (u[i] = None \/ u[i] > 0) /\ (g[i] = None \/ g[i] > 0) BY <2>1, <2>2 DEF PairedRange
    <3>3. f[i] = IF OfSides(i) /\ (IF u[i] >= 0 THEN u[i] ELSE g[i]) < 0 THEN TheEstimate(i) ELSE u[i] BY <1>3
    <3>4. (IF u[i] >= 0 THEN u[i] ELSE g[i]) < 0 <=> u[i] = None /\ g[i] = None BY <3>1, <3>2 DEF None
    <3> QED BY <3>1, <3>2, <3>3, <3>4
  <2>4. ASSUME NEW i \in 1..4, OfSides(i) PROVE TheEstimate(i) # None /\ TheEstimate(i) > 0
    BY <1>4, <1>8, <2>4 DEF None
  <2>5. \A i \in 1..4 : f[i] = None \/ f[i] > 0 BY <2>3, <2>4
  <2>6. 1 \in 1..4 /\ 2 \in 1..4 /\ 3 \in 1..4 /\ 4 \in 1..4 OBVIOUS
  <2>7. \A i \in 1..4 : f[i] = None <=> u[i] = None /\ ~(OfSides(i) /\ g[i] = None) BY <2>3, <2>4
  <2>8. /\ u[1] = None <=> u[2] = None
        /\ u[3] = None <=> u[4] = None
        /\ g[1] = None <=> g[2] = None
        /\ g[3] = None <=> g[4] = None
        /\ u[1] = None => u[3] = None
        /\ g[1] = None => g[3] = None
    BY <2>1, <2>2 DEF PairedRange
  <2>9. (f[1] = None <=> f[2] = None) /\ (f[3] = None <=> f[4] = None) BY <1>6, <2>6, <2>7, <2>8
  <2> QED BY <1>8, <2>5, <2>9 DEF PairedRange
<1> QED BY <1>1, <1>5, <1>7, <1>8

LEMMA TenthIs ==
  ASSUME NEW t \in Nat, NEW n \in {1, 6}
  PROVE  Tenth(t, n) \in Nat /\ (t >= 10 => Tenth(t, n) > 0)
<1>1. CASE n = 1 BY <1>1 DEF Tenth
<1>2. CASE n = 6 BY <1>2 DEF Tenth
<1> QED BY <1>1, <1>2

LEMMA FilledBkgIs ==
  ASSUME UsersRanges
  PROVE  /\ FilledBkg \in [1..4 -> Int]
         /\ FilledBkg[1] = None => UsersRun.bkg[1] = None
         /\ ~setup.bkgKnown => FilledBkg[1] >= 0
         /\ LinesPass /\ FilledBkg[1] # None => PairedRange(FilledBkg)
<1>1. PICK u, f : u = UsersRun.bkg /\ f = FilledBkg OBVIOUS
<1>2. u \in [1..4 -> Int] /\ PairedRange(u) BY <1>1, RangesIs DEF UsersRanges
<1>3. CASE setup.bkgKnown \/ u[1] >= 0
  <2>1. f = u BY <1>1, <1>3 DEF FilledBkg
  <2> QED BY <1>1, <1>2, <1>3, <2>1
<1>4. CASE ~(setup.bkgKnown \/ u[1] >= 0)
  <2> DEFINE Part(i) == Tenth(MeantT0(0, (i + 1) \div 2), IF i % 2 = 1 THEN 1 ELSE 6)
  <2>1. f = [i \in 1..4 |-> IF OfSides(i) THEN Part(i) ELSE u[i]] BY <1>1, <1>4 DEF FilledBkg
  <2>2. ASSUME NEW i \in 1..4, OfSides(i)
        PROVE  Part(i) \in Nat /\ (LinesPass => Part(i) > 0)
    <3>1. PICK h, n, t : h = (i + 1) \div 2 /\ n = (IF i % 2 = 1 THEN 1 ELSE 6) /\ t = MeantT0(0, h) OBVIOUS
    <3>2. h \in Sides /\ h \in Detectors BY <2>2, <3>1, OfSidesIs DEF UsersRanges
    <3>3. t \in Nat BY <3>1, <3>2 DEF UsersRanges
    <3>4. LinesPass => t >= 10
      <4>1. ~(u[1] > 0) BY <1>2, <1>4
      <4> QED BY <1>1, <1>4, <3>1, <3>2, <4>1 DEF LinesPass
    <3>5. n \in {1, 6} BY <3>1
    <3>6. Tenth(t, n) \in Nat /\ (t >= 10 => Tenth(t, n) > 0) BY <3>3, <3>5, TenthIs
    <3> QED BY <3>1, <3>4, <3>6
  <2> HIDE DEF Part
  <2>3. OfSides(1) /\ OfSides(2) /\ (OfSides(3) <=> ~setup.single) /\ (OfSides(4) <=> ~setup.single)
    BY DEF OfSides
  <2>4. f \in [1..4 -> Int] BY <1>2, <2>1, <2>2
  <2>5. 1 \in 1..4 /\ 2 \in 1..4 /\ 3 \in 1..4 /\ 4 \in 1..4 OBVIOUS
  <2>6. f[1] >= 0 BY <2>1, <2>2, <2>3, <2>5
  <2>7. \A i \in 1..4 : u[i] = None
    <3>1. u[1] = None BY <1>2, <1>4, <2>5 DEF PairedRange
    <3>2. u[1] = None /\ u[2] = None /\ u[3] = None /\ u[4] = None BY <1>2, <3>1 DEF PairedRange
    <3>3. ASSUME NEW i \in 1..4 PROVE i = 1 \/ i = 2 \/ i = 3 \/ i = 4 OBVIOUS
    <3> QED BY <3>2, <3>3
  <2>8. ASSUME LinesPass PROVE PairedRange(f)
    <3>1. \A i \in 1..4 : IF OfSides(i) THEN f[i] > 0 /\ f[i] # None ELSE f[i] = None
      BY <2>1, <2>2, <2>7, <2>8 DEF None
    <3> QED BY <2>3, <2>5, <3>1 DEF PairedRange
  <2>9. u[1] = None BY <2>5, <2>7
  <2> QED BY <1>1, <2>4, <2>6, <2>8, <2>9
<1> QED BY <1>3, <1>4

(* EstimateBkg.                                                            *)
LEMMA WithBkgFills ==
  ASSUME UsersRanges, ~setup.bkgKnown, t0s = TheT0s, NEW b \in Block, b.bkg \in {UsersRun.bkg, FilledBkg},
         NEW c, c = WithBkg(b)
  PROVE  c.bkg = FilledBkg /\ c.data = b.data /\ FitOf(c) = FitOf(b)
<1>1. PICK u, f : u = UsersRun.bkg /\ f = FilledBkg OBVIOUS
<1>2. u \in [1..4 -> Int] /\ f \in [1..4 -> Int] /\ f[1] >= 0 BY <1>1, RangesIs, FilledBkgIs DEF UsersRanges
<1>3. PICK x : c = b \/ c = [b EXCEPT !.bkg = x] BY DEF WithBkg
<1>4. c.data = b.data /\ c.inBins = b.inBins /\ c.offset = b.offset /\ c.time = b.time BY <1>3 DEF Block
<1>5. c.bkg = f
  <2>1. CASE b.bkg[1] >= 0
    <3>1. c = b BY <2>1 DEF WithBkg
    <3>2. u[1] >= 0 => f = u BY <1>1 DEF FilledBkg
    <3> QED BY <1>1, <2>1, <3>1, <3>2
  <2>2. CASE ~(b.bkg[1] >= 0)
    <3>1. b.bkg = u BY <1>1, <1>2, <2>2
    <3>2. f = [i \in 1..4 |-> IF OfSides(i) THEN Tenth(MeantT0(0, (i + 1) \div 2), IF i % 2 = 1 THEN 1 ELSE 6)
                                ELSE u[i]]
      BY <1>1, <2>2, <3>1 DEF FilledBkg
    <3>3. PICK y : y = [i \in 1..4 |-> IF i <= 2 \/ ~setup.single
                                        THEN Tenth(t0s[(i + 1) \div 2], IF i % 2 = 1 THEN 1 ELSE 6) ELSE b.bkg[i]]
      OBVIOUS
    <3>4. c = [b EXCEPT !.bkg = y] BY <2>2, <3>3 DEF WithBkg
    <3>5. c.bkg = y BY <3>4 DEF Block
    <3>6. ASSUME NEW i \in 1..4 PROVE y[i] = f[i]
      <4>1. OfSides(i) => (i + 1) \div 2 \in Detectors BY OfSidesIs DEF UsersRanges
      <4>2. OfSides(i) => t0s[(i + 1) \div 2] = MeantT0(0, (i + 1) \div 2) BY <4>1 DEF TheT0s
      <4>3. OfSides(i) <=> i <= 2 \/ ~setup.single BY DEF OfSides
      <4> QED BY <3>1, <3>2, <3>3, <4>2, <4>3
    <3>7. y = f BY <3>2, <3>3, <3>6
    <3> QED BY <3>5, <3>7
  <2> QED BY <2>1, <2>2
<1> QED BY <1>1, <1>4, <1>5 DEF FitOf

LEMMA IntervalOf ==
  ASSUME NEW b, NEW c, b.bkg = c.bkg, NEW side
  PROVE  BkgInterval(b, side) = BkgInterval(c, side)
BY DEF BkgInterval

(* GetProperDataRange.                                                     *)
KnownRanges ==
  /\ UsersRanges /\ t0s = TheT0s /\ run \in Block
  /\ run.data \in {UsersRun.data, FilledData} /\ global.data = UsersGlobal.data

LEMMA RangeBins ==
  ASSUME KnownRanges, NEW i \in 1..4
  PROVE  /\ OfSides(i) => (IF DataRange(i) < 0 THEN Estimated(i) ELSE DataRange(i)) = TheData[i]
         /\ (IF i <= 2*Cardinality(Sides) /\ DataRange(i) < 0 THEN Estimated(i) ELSE run.data[i]) = FilledData[i]
<1>1. PICK u, g, r, f, e : /\ u = UsersRun.data /\ g = UsersGlobal.data /\ r = run.data /\ f = FilledData
                           /\ e = TheEstimate(i)
  OBVIOUS
<1>2. u[i] \in Int /\ g[i] \in Int
  <2>1. u \in [1..4 -> Int] /\ g \in [1..4 -> Int] BY <1>1, RangesIs DEF KnownRanges, UsersRanges
  <2> QED BY <2>1
<1>3. r \in {u, f} BY <1>1 DEF KnownRanges
<1>4. DataRange(i) = IF r[i] >= 0 THEN r[i] ELSE g[i] BY <1>1 DEF DataRange, KnownRanges
<1>5. i <= 2*Cardinality(Sides) <=> OfSides(i) BY OfSidesIs DEF KnownRanges, UsersRanges
<1>6. OfSides(i) => Estimated(i) = e /\ e \in Nat
  <2>1. ASSUME OfSides(i) PROVE Estimated(i) = e
    <3>1. (i + 1) \div 2 \in Detectors BY <2>1, OfSidesIs DEF KnownRanges, UsersRanges
    <3>2. t0s[(i + 1) \div 2] = MeantT0(0, (i + 1) \div 2) BY <3>1 DEF KnownRanges, TheT0s
    <3> QED BY <1>1, <3>2 DEF Estimated, TheEstimate
  <2>2. OfSides(i) => e \in Nat BY <1>1, EstimateIs DEF KnownRanges
  <2> QED BY <2>1, <2>2
<1>7. PICK x : x = IF u[i] >= 0 THEN u[i] ELSE g[i] OBVIOUS
<1>8. UsersBin(i) = x BY <1>1, <1>7 DEF UsersBin
<1>9. f[i] = IF OfSides(i) /\ x < 0 THEN e ELSE u[i] BY <1>1, <1>8 DEF FilledData
<1>10. TheData[i] = IF x < 0 THEN e ELSE x BY <1>1, <1>8 DEF TheData
<1>11. r[i] = u[i] \/ r[i] = f[i] BY <1>3
<1>12. PICK y : y = DataRange(i) OBVIOUS
<1>13. CASE r[i] = u[i]
  <2>1. y = x BY <1>4, <1>7, <1>12, <1>13
  <2> QED BY <1>1, <1>5, <1>6, <1>9, <1>10, <1>12, <1>13, <2>1
<1>14. CASE r[i] = f[i] /\ OfSides(i) /\ x < 0
  <2>1. r[i] = e /\ y = e /\ ~(y < 0) BY <1>4, <1>6, <1>9, <1>12, <1>14
  <2> QED BY <1>1, <1>9, <1>10, <1>12, <1>14, <2>1
<1>15. CASE r[i] = f[i] /\ ~(OfSides(i) /\ x < 0)
  <2>1. r[i] = u[i] BY <1>9, <1>15
  <2> QED BY <1>13, <2>1
<1> QED BY <1>11, <1>13, <1>14, <1>15

LEMMA WithDataFills ==
  ASSUME KnownRanges, NEW c, c = WithData(run)
  PROVE  c.data = FilledData /\ c.bkg = run.bkg /\ FitOf(c) = FitOf(run)
<1>1. PICK y : y = [i \in 1..4 |-> IF i <= 2*Cardinality(Sides) /\ DataRange(i) < 0 THEN Estimated(i) ELSE run.data[i]]
  OBVIOUS
<1>2. c = [run EXCEPT !.data = y] BY <1>1 DEF WithData
<1>3. run \in Block BY DEF KnownRanges
<1>4. c.data = y /\ c.bkg = run.bkg /\ c.inBins = run.inBins /\ c.offset = run.offset /\ c.time = run.time
  BY <1>2, <1>3 DEF Block
<1>5. \A i \in 1..4 : y[i] = FilledData[i] BY <1>1, RangeBins
<1>6. y = FilledData BY <1>1, <1>5 DEF FilledData
<1> QED BY <1>4, <1>6 DEF FitOf

LEMMA OrderedAs ==
  ASSUME KnownRanges, NEW side \in Sides
  PROVE  Ordered(side) = EndsFrom(TheData, side) /\ Clipped(side) = RangeFrom(TheData, side)
<1>1. side = 1 \/ (side = 2 /\ ~setup.single) BY DEF Sides
<1>2. PICK i, j : i = 2*side - 1 /\ j = 2*side OBVIOUS
<1>3. i \in 1..4 /\ j \in 1..4 /\ OfSides(i) /\ OfSides(j) BY <1>1, <1>2 DEF OfSides
<1>4. /\ (IF DataRange(i) < 0 THEN Estimated(i) ELSE DataRange(i)) = TheData[i]
      /\ (IF DataRange(j) < 0 THEN Estimated(j) ELSE DataRange(j)) = TheData[j]
  BY <1>3, RangeBins
<1>5. Ordered(side) = EndsFrom(TheData, side) BY <1>2, <1>4 DEF Ordered, EndsFrom
<1> QED BY <1>5 DEF Clipped, RangeFrom

LEMMA GoodAs ==
  ASSUME KnownRanges
  PROVE  GoodBins = TheGood
<1>1. t0s = TheT0s BY DEF KnownRanges
<1>2. CASE setup.single
  <2>1. 1 \in Sides BY <1>2 DEF Sides
  <2>2. Clipped(1) = RangeFrom(TheData, 1) BY <2>1, OrderedAs
  <2> QED BY <1>2, <2>2 DEF GoodBins, TheGood, GoodFrom
<1>3. CASE ~setup.single
  <2>1. 1 \in Sides /\ 2 \in Sides BY <1>3 DEF Sides
  <2>2. PICK r1, r2 : r1 = RangeFrom(TheData, 1) /\ r2 = RangeFrom(TheData, 2) OBVIOUS
  <2>3. Clipped(1) = r1 /\ Clipped(2) = r2 BY <2>1, <2>2, OrderedAs
  <2>4. PICK t, s1, s2, l12, l21 : /\ t = t0s
                                   /\ s1 = Distance(r1[1], t[1]) /\ s2 = Distance(r2[1], t[2])
                                   /\ l12 = LikeFrom(t, r1, 2, 1) /\ l21 = LikeFrom(t, r2, 1, 2)
    OBVIOUS
  <2>5. s1 \in Int /\ s2 \in Int
    <3>1. t0s \in [Detectors -> Int]
      <4>1. \A d \in Detectors : MeantT0(0, d) \in Int BY DEF KnownRanges, UsersRanges
      <4> QED BY <1>1, <4>1 DEF TheT0s
    <3>2. global.data = UsersGlobal.data /\ UsersGlobal \in Block BY DEF KnownRanges, UsersRanges
    <3>3. t[1] \in Int /\ t[2] \in Int BY <1>3, <2>4, <3>1, SideIs DEF KnownRanges, UsersRanges
    <3>4. TheData \in [1..4 -> Int] 
      <4>1. UsersRun.data \in [1..4 -> Int] /\ UsersGlobal.data \in [1..4 -> Int]
        BY RangesIs DEF KnownRanges, UsersRanges
      <4>2. \A i \in 1..4 : OfSides(i) BY <1>3 DEF OfSides
      <4>3. \A i \in 1..4 : TheEstimate(i) \in Nat BY <4>2, EstimateIs DEF KnownRanges
      <4> QED BY <4>1, <4>3 DEF TheData, UsersBin
    <3>5. r1[1] \in Int /\ r2[1] \in Int BY <2>2, <3>4 DEF RangeFrom, EndsFrom
    <3> QED BY <2>4, <3>3, <3>5 DEF Distance
  <2>6. GoodFrom(t, TheData) = IF s1 > s2 THEN r1 \o l12 ELSE IF s1 < s2 THEN l21 \o r2 ELSE r1 \o r2
    BY <1>3, <2>2, <2>4 DEF GoodFrom
  <2>7. GoodBins = CASE s1 > s2 -> r1 \o l12
                     [] s1 < s2 -> l21 \o r2
                     [] s1 = s2 -> r1 \o r2
    <3> DEFINE range == [side \in 1..2 |-> Clipped(side)]
               start == [side \in 1..2 |-> Distance(range[side][1], t0s[side])]
    <3>3. GoodBins =
            CASE start[1] > start[2] -> range[1] \o [i \in 1..2 |-> t0s[2] + range[1][i] - t0s[1]]
              [] start[1] < start[2] -> [i \in 1..2 |-> t0s[1] + range[2][i] - t0s[2]] \o range[2]
              [] start[1] = start[2] -> range[1] \o range[2]
      BY <1>3, Zenon DEF GoodBins
    <3>4. range[1] = r1 /\ range[2] = r2 BY <2>3
    <3>5. start[1] = s1 /\ start[2] = s2 BY <2>4, <3>4
    <3> HIDE DEF range, start
    <3>6. /\ l12 = [i \in 1..2 |-> t0s[2] + r1[i] - t0s[1]]
          /\ l21 = [i \in 1..2 |-> t0s[1] + r2[i] - t0s[2]]
      BY <2>4 DEF LikeFrom
    <3> QED BY <3>3, <3>4, <3>5, <3>6
  <2>8. s1 > s2 \/ s1 < s2 \/ s1 = s2 BY <2>5
  <2>9. GoodBins = GoodFrom(t, TheData) BY <2>5, <2>6, <2>7, <2>8
  <2> QED BY <1>1, <2>4, <2>9 DEF TheGood
<1> QED BY <1>2, <1>3

(* GetProperFitRange, PrepareFitData.                                      *)
LEMMA SameTimes ==
  ASSUME NEW b, NEW c, NEW u, NEW v, SameFit(b, u), SameFit(c, v),
         \A x \in {u, v} : x.inBins => x.offset[1] >= 0 /\ x.offset[2] > 0,
         u.inBins \in BOOLEAN, v.inBins \in BOOLEAN, NEW g, NEW t
  PROVE  TimesFrom(g, t, b, c) = TimesFrom(g, t, u, v)
<1>1. BlockFrom(g, t, b) = BlockFrom(g, t, u)
  <2>1. b.inBins = u.inBins /\ (u.inBins => b.offset = u.offset) /\ (~u.inBins => b.time = u.time) BY DEF SameFit
  <2> QED BY <2>1 DEF BlockFrom
<1>2. BlockFrom(g, t, c) = BlockFrom(g, t, v)
  <2>1. c.inBins = v.inBins /\ (v.inBins => c.offset = v.offset) /\ (~v.inBins => c.time = v.time) BY DEF SameFit
  <2> QED BY <2>1 DEF BlockFrom
<1> QED BY <1>1, <1>2 DEF TimesFrom

LEMMA TimesAs ==
  (IF Undefined \in {ProperFitRange[1], ProperFitRange[2]} THEN InBinsOf(0, 0) ELSE ProperFitRange)
    = TimesFrom(good, t0s, run, global)
<1>1. \A x, y : InBinsOf(x, y) = InBinsFrom(good, t0s, x, y) BY DEF InBinsOf, InBinsFrom
<1>2. \A b : FitRangeOf(b) = BlockFrom(good, t0s, b) BY <1>1 DEF FitRangeOf, BlockFrom
<1>3. PICK x, y : x = BlockFrom(good, t0s, run) /\ y = BlockFrom(good, t0s, global) OBVIOUS
<1>4. PICK p : p = IF x[1] # Undefined THEN x ELSE y OBVIOUS
<1>5. ProperFitRange = p BY <1>2, <1>3, <1>4 DEF ProperFitRange
<1>6. TimesFrom(good, t0s, run, global) =
        IF Undefined \in {p[1], p[2]} THEN InBinsFrom(good, t0s, 0, 0) ELSE p
  BY <1>3, <1>4 DEF TimesFrom
<1> QED BY <1>1, <1>5, <1>6

LEMMA BinsAs ==
  NoOfFitBins(MinOf({NoOfData(side) : side \in Sides})) = BinsFrom(good, t0s, fitTime)
<1>1. \A side : NoOfData(side) = DataFrom(good, side) BY DEF NoOfData, DataFrom
<1>2. {NoOfData(side) : side \in Sides} = {DataFrom(good, side) : side \in Sides} BY <1>1
<1>3. PICK n : n = MinOf({NoOfData(side) : side \in Sides}) OBVIOUS
<1>4. n = MinOf({DataFrom(good, side) : side \in Sides}) BY <1>2, <1>3
<1>5. PICK first : first = Time2From(good, t0s, 0) OBVIOUS
<1>6. Time2(0) = first BY <1>5 DEF Time2, Time2From
<1> QED BY <1>3, <1>4, <1>5, <1>6, Zenon DEF NoOfFitBins, BinsFrom

-----------------------------------------------------------------------------
(* GetProperT0 fills in t0's that are known, and nothing else.             *)

RowKnown(row) == \A d \in 1..Len(row) : row[d] >= 0
RowsKnown(rows) == \A k \in 1..Len(rows) : RowKnown(rows[k])

LEMMA SetAtKnown ==
  ASSUME NEW s \in Seq(Int), RowKnown(s), NEW i \in Nat \ {0}, NEW v \in Nat, NEW t, t = SetAt(s, i, v)
  PROVE  RowKnown(t)
<1>1. PICK n \in Nat : n = Len(s) /\ DOMAIN s = 1..n OBVIOUS
<1>2. CASE i \in 1..n
  <2>1. t = [s EXCEPT ![i] = v] BY <1>1, <1>2 DEF SetAt
  <2>2. Len(t) = n /\ t[i] = v /\ \A j \in 1..n : j # i => t[j] = s[j] BY <1>1, <1>2, <2>1
  <2> QED BY <1>1, <2>2 DEF RowKnown
<1>3. CASE i \notin 1..n
  <2>1. i - n \in Nat /\ i - n > 0 BY <1>1, <1>3
  <2>2. PICK k \in Nat : k = i - n BY <2>1
  <2>3. PICK more : more = [j \in 1..k |-> IF j = k THEN v ELSE 0] OBVIOUS
  <2>4. t = s \o more BY <1>1, <1>3, <2>2, <2>3 DEF SetAt
  <2>5. more \in Seq(Int) /\ Len(more) = k /\ \A j \in 1..k : more[j] >= 0 BY <2>3
  <2>6. Len(t) = n + k /\ (\A j \in 1..n : t[j] = s[j]) /\ \A j \in 1..(n + k) : j > n => t[j] = more[j - n]
    <3>1. Len(t) = n + k /\ \A j \in 1..(n + k) : t[j] = IF j <= n THEN s[j] ELSE more[j - n]
      <4>1. PICK e : e = more /\ e \in Seq(Int) /\ Len(e) = k BY <2>5
      <4>2. t = s \o e /\ Len(s) = n BY <1>1, <2>4, <4>1
      <4>3. Len(t) = n + k /\ \A j \in 1..(n + k) : t[j] = IF j <= n THEN s[j] ELSE e[j - n]
        <5>1. PICK X : X = Int OBVIOUS
        <5>2. s \in Seq(X) /\ e \in Seq(X) BY <4>1, <5>1
        <5>3. /\ Len(s \o e) = Len(s) + Len(e)
              /\ \A j \in 1..Len(s) + Len(e) : (s \o e)[j] = IF j <= Len(s) THEN s[j] ELSE e[j - Len(s)]
          BY <5>2, ConcatProperties, Zenon
        <5> QED BY <4>1, <4>2, <5>3
      <4> QED BY <4>1, <4>3
    <3>2. \A j \in 1..n : j \in 1..(n + k) /\ j <= n OBVIOUS
    <3>3. \A j \in 1..(n + k) : j > n => ~(j <= n) OBVIOUS
    <3> QED BY <3>1, <3>2, <3>3
  <2>7. ASSUME NEW j \in 1..(n + k) PROVE t[j] >= 0
    <3>1. CASE j <= n
      <4>1. j \in 1..n BY <1>1, <3>1
      <4> QED BY <1>1, <2>6, <4>1 DEF RowKnown
    <3>2. CASE ~(j <= n)
      <4>1. j > n /\ j - n \in 1..k BY <1>1, <2>2, <3>2
      <4> QED BY <2>5, <2>6, <4>1
    <3> QED BY <3>1, <3>2
  <2> QED BY <2>6, <2>7 DEF RowKnown
<1> QED BY <1>2, <1>3

Filled(b, c) == SameRanges(b, c) /\ FitOf(c) = FitOf(b)

LEMMA T0sFill ==
  ASSUME setup \in Setups, run \in Block, global \in Block, Known(run), NEW c, c = WithT0s(run)
  PROVE  /\ Filled(run, c) /\ RowKnown(c.t0)
         /\ run.t0 # <<>> => c.t0 # <<>>
<1>1. PICK n \in Nat \ {0} : n = setup.detectors /\ Detectors = 1..n BY SetupIs
<1>2. PICK f : SettingT0s(n, f) BY <1>1, SetsT0s
<1>3. PICK S : S = {m \in 0..n : Filled(run, f[m]) /\ RowKnown(f[m].t0)} OBVIOUS
<1>4. 0 \in S
  <2>1. f[0] = run BY <1>2 DEF SettingT0s
  <2>2. Filled(run, run) BY DEF Filled, SameRanges
  <2>3. RowKnown(run.t0) BY DEF Known, RowKnown
  <2> QED BY <1>3, <2>1, <2>2, <2>3
<1>5. ASSUME NEW m \in 0..(n - 1), m \in S PROVE m + 1 \in S
  <2>1. PICK i \in 1..n : i = m + 1 OBVIOUS
  <2>2. i - 1 = m /\ i \in 0..n /\ m \in 0..n /\ i \in Nat \ {0} BY <2>1
  <2>3. PICK x, y : x = f[m] /\ y = f[i] OBVIOUS
  <2>4. x \in Block /\ y = IF FromMsr(i) # None THEN x ELSE [x EXCEPT !.t0 = SetAt(@, i, T0(i))]
    BY <1>2, <2>2, <2>3 DEF SettingT0s
  <2>5. Filled(run, x) /\ RowKnown(x.t0) BY <1>3, <1>5, <2>3
  <2>6. PICK t : t = SetAt(x.t0, i, T0(i)) OBVIOUS
  <2>7. y = x \/ (FromMsr(i) = None /\ y = [x EXCEPT !.t0 = t]) BY <2>4, <2>6
  <2>8. Filled(x, y) BY <2>4, <2>7 DEF Block, Filled, SameRanges, FitOf
  <2>9. RowKnown(y.t0)
    <3>1. CASE y = x BY <2>5, <3>1
    <3>2. CASE FromMsr(i) = None /\ y = [x EXCEPT !.t0 = t]
      <4>1. T0(i) = FromData(0, i) BY <3>2 DEF T0
      <4>2. 0 \in 0..setup.addRuns BY SetupIs
      <4>3. FromData(0, i) \in 0..Size BY <1>1, <4>2, SetupIs
      <4>4. T0(i) \in Nat BY <4>1, <4>3, BinsAssumption
      <4>5. RowKnown(t) BY <2>2, <2>4, <2>5, <2>6, <4>4, BlockIs, SetAtKnown
      <4>6. y.t0 = t BY <2>4, <3>2 DEF Block
      <4> QED BY <4>5, <4>6
    <3> QED BY <2>7, <3>1, <3>2
  <2>10. Filled(run, y) BY <2>5, <2>8 DEF Filled, SameRanges
  <2> QED BY <1>3, <2>1, <2>2, <2>3, <2>9, <2>10
<1>6. 0..n \subseteq S BY <1>4, <1>5, UpTo
<1>7. n \in 0..n OBVIOUS
<1>8. Filled(run, f[n]) /\ RowKnown(f[n].t0) BY <1>3, <1>6, <1>7
<1>9. c = f[n] BY <1>2 DEF SettingT0s
<1>10. run.t0 # <<>> => c.t0 # <<>>
  <2>1. Len(c.t0) >= Len(run.t0) BY T0sStored DEF Known
  <2>2. SUFFICES ASSUME run.t0 # <<>>, c.t0 = <<>> PROVE FALSE OBVIOUS
  <2>3. run.t0 \in Seq(Int) BY BlockIs
  <2>4. Len(run.t0) \in Nat /\ Len(run.t0) # 0 BY <2>2, <2>3, EmptySeq
  <2>5. Len(c.t0) = 0 BY <2>2
  <2> QED BY <2>1, <2>4, <2>5
<1> QED BY <1>8, <1>9, <1>10

LEMMA SetAddT0Known ==
  ASSUME NEW b \in Block, RowsKnown(b.addT0), NEW k \in Nat \ {0}, NEW d \in Nat \ {0}, NEW v \in Nat,
         NEW c, c = SetAddT0(b, k, d, v)
  PROVE  RowsKnown(c.addT0)
<1>1. PICK a, T : a = b.addT0 /\ T = Seq(Int) OBVIOUS
<1>2. a \in Seq(T) BY <1>1 DEF Block
<1>3. PICK n \in Nat : n = Len(a) BY <1>2
<1>4. PICK more : more = [j \in 1..(k - n) |-> <<>>] OBVIOUS
<1>5. <<>> \in T BY <1>1
<1>6. PICK grown : grown = a \o more OBVIOUS
<1>7. PICK g \in Nat : g = IF k <= n THEN n ELSE k OBVIOUS
<1>8. /\ grown \in Seq(T) /\ Len(grown) = g /\ k \in 1..g
      /\ \A j \in 1..g : IF j <= n THEN grown[j] = a[j] ELSE grown[j] = <<>>
  <2>1. CASE k <= n
    <3>1. more = <<>> BY <1>4, <2>1
    <3>2. grown = a BY <1>2, <1>6, <3>1, ConcatEmptySeq
    <3> QED BY <1>2, <1>3, <1>7, <2>1, <3>2
  <2>2. CASE k > n
    <3>1. PICK e \in Nat : e = k - n BY <2>2
    <3>2. more \in Seq(T) /\ Len(more) = e /\ \A j \in 1..e : more[j] = <<>> BY <1>4, <1>5, <3>1
    <3>3. /\ grown \in Seq(T) /\ Len(grown) = n + e /\ \A j \in 1..n : grown[j] = a[j]
          /\ \A j \in 1..(n + e) : j > n => grown[j] = more[j - n]
      <4>1. /\ grown \in Seq(T) /\ Len(grown) = n + e
            /\ \A j \in 1..(n + e) : grown[j] = IF j <= n THEN a[j] ELSE more[j - n]
        BY <1>2, <1>3, <1>6, <3>2, ConcatProperties
      <4>2. \A j \in 1..n : j \in 1..(n + e) /\ j <= n OBVIOUS
      <4>3. \A j \in 1..(n + e) : j > n => ~(j <= n) OBVIOUS
      <4> QED BY <4>1, <4>2, <4>3
    <3>4. g = n + e /\ k \in 1..g BY <1>7, <2>2, <3>1
    <3>5. ASSUME NEW j \in 1..g PROVE IF j <= n THEN grown[j] = a[j] ELSE grown[j] = <<>>
      <4>1. CASE j <= n
        <5>1. j \in 1..n BY <4>1
        <5> QED BY <3>3, <4>1, <5>1
      <4>2. CASE ~(j <= n)
        <5>1. j > n /\ j - n \in 1..e BY <3>4, <4>2
        <5> QED BY <3>2, <3>3, <3>4, <4>2, <5>1
      <4> QED BY <4>1, <4>2
    <3> QED BY <3>3, <3>4, <3>5
  <2> QED BY <2>1, <2>2
<1>9. ASSUME NEW j \in 1..g PROVE RowKnown(grown[j])
  <2>1. CASE j <= n
    <3>1. j \in 1..n BY <2>1
    <3> QED BY <1>1, <1>3, <1>8, <2>1, <3>1 DEF RowsKnown
  <2>2. CASE ~(j <= n)
    <3>1. grown[j] = <<>> BY <1>8, <2>2
    <3>2. Len(<<>>) = 0 OBVIOUS
    <3> QED BY <3>1, <3>2 DEF RowKnown
  <2> QED BY <2>1, <2>2
<1>10. PICK x, y : x = grown[k] /\ y = SetAt(x, d, v) OBVIOUS
<1>11. x \in Seq(Int) BY <1>1, <1>8, <1>10
<1>12. RowKnown(y) BY <1>8, <1>9, <1>10, <1>11, SetAtKnown
<1>13. y \in Seq(Int)
  <2>1. v \in Int OBVIOUS
  <2> QED BY <1>10, <1>11, <2>1, SetAtIs
<1>14. PICK z : z = [grown EXCEPT ![k] = y] OBVIOUS
<1>15. Len(z) = g /\ z[k] = y /\ \A j \in 1..g : j # k => z[j] = grown[j]
  BY <1>1, <1>8, <1>13, <1>14
<1>16. RowsKnown(z)
  <2>1. ASSUME NEW j \in 1..g PROVE RowKnown(z[j])
    <3>1. CASE j = k BY <1>12, <1>15, <3>1
    <3>2. CASE j # k BY <1>9, <1>15, <3>2
    <3> QED BY <3>1, <3>2
  <2> QED BY <1>15, <2>1 DEF RowsKnown
<1>17. c = [b EXCEPT !.addT0 = z] BY <1>1, <1>3, <1>4, <1>6, <1>10, <1>14 DEF SetAddT0
<1>18. c.addT0 = z BY <1>17 DEF Block
<1> QED BY <1>16, <1>18

LEMMA AddT0sFill ==
  ASSUME setup \in Setups, NEW b \in Block, NoEmpty(b.addT0), RowsKnown(b.addT0), AddT0sMatch(setup.addRuns, b),
         NEW c, c = WithAddT0s(b)
  PROVE  Filled(b, c) /\ RowsKnown(c.addT0) /\ AddT0sMatch(setup.addRuns, c)
<1>1. PICK seq : seq = AddRunDetectors OBVIOUS
<1>2. PICK r \in Nat, nd \in Nat \ {0} : r = setup.addRuns /\ nd = setup.detectors /\ Detectors = 1..nd BY SetupIs
<1>3. PICK X : X = [k : 1..r, d : 1..nd] OBVIOUS
<1>4. seq \in Seq(X) BY <1>1, <1>2, <1>3, AddRunDetectorsAre
<1>5. PICK n \in Nat : n = Len(seq) /\ \A i \in 1..n : seq[i] \in X BY <1>4
<1>6. PICK f : SettingAddT0s(b, n, f) BY <1>1, <1>5, SetsAddT0s
<1>7. PICK limit \in Nat : limit = IF r <= Len(b.addT0) THEN Len(b.addT0) ELSE r
  <2>1. Len(b.addT0) \in Nat BY BlockIs
  <2> QED BY <2>1
<1>8. PICK S : S = {m \in 0..n : Filled(b, f[m]) /\ RowsKnown(f[m].addT0) /\ Len(f[m].addT0) <= limit} OBVIOUS
<1>9. 0 \in S
  <2>1. f[0] = b BY <1>6 DEF SettingAddT0s
  <2>2. Filled(b, b) BY DEF Filled, SameRanges
  <2>3. Len(b.addT0) <= limit
    <3>1. Len(b.addT0) \in Nat BY BlockIs
    <3> QED BY <1>7, <3>1
  <2> QED BY <1>8, <2>1, <2>2, <2>3
<1>10. ASSUME NEW m \in 0..(n - 1), m \in S PROVE m + 1 \in S
  <2>1. PICK i \in 1..n : i = m + 1 OBVIOUS
  <2>2. i - 1 = m /\ i \in 0..n /\ m \in 0..n BY <2>1
  <2>3. PICK x, y, k, d : x = f[m] /\ y = f[i] /\ k = seq[i].k /\ d = seq[i].d OBVIOUS
  <2>4. x \in Block /\ y = IF AddT0FromMsr(b, k, d) # None THEN x ELSE SetAddT0(x, k, d, FromData(k, d))
    BY <1>1, <1>6, <2>2, <2>3 DEF SettingAddT0s
  <2>5. k \in 1..r /\ d \in 1..nd /\ k \in Nat \ {0} /\ d \in Nat \ {0} BY <1>3, <1>5, <2>3
  <2>6. Filled(b, x) /\ RowsKnown(x.addT0) /\ Len(x.addT0) <= limit BY <1>8, <1>10, <2>3
  <2>7. CASE y = x BY <1>8, <2>1, <2>2, <2>3, <2>6, <2>7
  <2>8. CASE y = SetAddT0(x, k, d, FromData(k, d))
    <3>1. FromData(k, d) \in Nat
      <4>1. k \in 0..setup.addRuns /\ d \in Detectors BY <1>2, <2>5
      <4>2. FromData(k, d) \in 0..Size BY <4>1, SetupIs
      <4> QED BY <4>2, BinsAssumption
    <3>2. RowsKnown(y.addT0) BY <2>4, <2>5, <2>6, <2>8, <3>1, SetAddT0Known
    <3>3. PICK z : y = [x EXCEPT !.addT0 = z] BY <2>8 DEF SetAddT0
    <3>4. Filled(x, y) BY <2>4, <3>3 DEF Block, Filled, SameRanges, FitOf
    <3>5. Filled(b, y) BY <2>6, <3>4 DEF Filled, SameRanges
    <3>6. Len(y.addT0) <= limit
      <4>1. Len(x.addT0) \in Nat BY <2>4, BlockIs
      <4>2. Len(y.addT0) = IF k <= Len(x.addT0) THEN Len(x.addT0) ELSE k
        <5>1. FromData(k, d) \in Int BY <3>1
        <5> QED BY <2>4, <2>5, <2>8, <5>1, SetAddT0Is
      <4>3. Len(b.addT0) \in Nat BY BlockIs
      <4> QED BY <1>7, <2>5, <2>6, <4>1, <4>2, <4>3
    <3> QED BY <1>8, <2>1, <2>2, <2>3, <3>2, <3>5, <3>6
  <2> QED BY <2>4, <2>7, <2>8
<1>11. 0..n \subseteq S BY <1>9, <1>10, UpTo
<1>12. n \in 0..n OBVIOUS
<1>13. Filled(b, f[n]) /\ RowsKnown(f[n].addT0) /\ Len(f[n].addT0) <= limit BY <1>8, <1>11, <1>12
<1>14. c = f[n] BY <1>6 DEF SettingAddT0s
<1>15. AddT0sMatch(setup.addRuns, c)
  <2>1. c \in Block /\ Len(c.addT0) >= r BY <1>2, AddT0sStored
  <2>2. Len(c.addT0) \in Nat BY <2>1, BlockIs
  <2>3. r = 0 \/ Len(b.addT0) \in {0, r} BY <1>2 DEF AddT0sMatch
  <2>4. r = 0 \/ Len(c.addT0) = r BY <1>2, <1>7, <1>13, <1>14, <2>1, <2>2, <2>3
  <2> QED BY <1>2, <2>4 DEF AddT0sMatch
<1> QED BY <1>13, <1>14, <1>15

-----------------------------------------------------------------------------
(* What the writer leaves is in order again: one fit line, no addt0 line   *)
(* behind it, and as many addt0 lines as before, or as the block has.      *)

LEMMA BehindConcat ==
  ASSUME NEW s \in Seq(Lines), NEW t \in Seq(Lines), ~AddT0Behind(s), ~AddT0Behind(t),
         ~(HasAny(s, FitWords) /\ HasAny(t, {"addt0"}))
  PROVE  ~AddT0Behind(s \o t)
<1>1. PICK u : u = s \o t OBVIOUS
<1>2. PICK m \in Nat, n \in Nat : m = Len(s) /\ n = Len(t) /\ DOMAIN s = 1..m /\ DOMAIN t = 1..n OBVIOUS
<1>3. /\ DOMAIN u = 1..(m + n) /\ \A i \in 1..m : u[i] = s[i]
      /\ \A i \in 1..(m + n) : i > m => u[i] = t[i - m]
  BY <1>1, <1>2
<1>4. SUFFICES ASSUME NEW i \in 1..(m + n), NEW j \in 1..(m + n), i < j,
                      u[i].word \in FitWords, u[j].word = "addt0"
               PROVE  FALSE
  BY <1>1, <1>3 DEF AddT0Behind, FitWords
<1>5. CASE j <= m
  <2>1. i \in 1..m /\ j \in 1..m BY <1>4, <1>5
  <2>2. s[i].word \in FitWords /\ s[j].word = "addt0" BY <1>3, <1>4, <2>1
  <2> QED BY <1>2, <1>4, <2>1, <2>2 DEF AddT0Behind, FitWords
<1>6. CASE i > m
  <2>1. i - m \in 1..n /\ j - m \in 1..n /\ i - m < j - m /\ j > m BY <1>4, <1>6
  <2>2. t[i - m].word \in FitWords /\ t[j - m].word = "addt0" BY <1>3, <1>4, <1>6, <2>1
  <2> QED BY <1>2, <2>1, <2>2 DEF AddT0Behind, FitWords
<1>7. CASE i <= m /\ j > m
  <2>1. i \in 1..m /\ j - m \in 1..n BY <1>4, <1>7
  <2>2. s[i].word \in FitWords /\ t[j - m].word = "addt0" BY <1>3, <1>4, <1>7, <2>1
  <2> QED BY <1>2, <2>1, <2>2 DEF HasAny
<1> QED BY <1>5, <1>6, <1>7

LEMMA OneWritten ==
  ASSUME NEW lines \in Seq(Lines), NEW b, Writable(lines, b), NEW i \in 1..Len(lines), NEW isis \in BOOLEAN,
         lines[i].word \notin FitWords, NEW w, w = WriteLine(lines, i, b, isis)
  PROVE  \E l \in Lines : w = <<l>> /\ l.word = lines[i].word
<1>1. lines[i].word \in Words
  <2>1. lines[i] \in Lines OBVIOUS
  <2> QED BY <2>1 DEF Lines
<1>2. w \in Seq(Lines) BY WrittenLine
<1>3. PICK l : w = <<l>> /\ l.word = lines[i].word
  <2>1. CASE lines[i].word = "t0"
    <3>1. PICK l : l = Line("t0", b.t0) OBVIOUS
    <3>2. w = <<l>> /\ l.word = "t0" BY <2>1, <3>1 DEF WriteLine, Line
    <3> QED BY <2>1, <3>2
  <2>2. CASE lines[i].word = "addt0"
    <3>1. PICK l : l = Line("addt0", b.addT0[AddT0LinesBefore(lines, i) + 1]) OBVIOUS
    <3>2. w = <<l>> /\ l.word = "addt0" BY <2>2, <3>1 DEF WriteLine, Line
    <3> QED BY <2>2, <3>2
  <2>3. CASE lines[i].word = "background"
    <3>1. PICK l : l = WriteRange("background", b.bkg) OBVIOUS
    <3>2. w = <<l>> BY <2>3, <3>1 DEF WriteLine
    <3>3. l.word = "background" BY <3>1 DEF WriteRange, Line
    <3> QED BY <2>3, <3>2, <3>3
  <2>4. CASE lines[i].word = "data"
    <3>1. PICK l : l = WriteRange("data", b.data) OBVIOUS
    <3>2. w = <<l>> BY <2>4, <3>1 DEF WriteLine
    <3>3. l.word = "data" BY <3>1 DEF WriteRange, Line
    <3> QED BY <2>4, <3>2, <3>3
  <2> QED BY <1>1, <2>1, <2>2, <2>3, <2>4 DEF Words, FitWords
<1>4. l \in Lines
  <2>1. w[1] = l /\ 1 \in DOMAIN w BY <1>3
  <2> QED BY <1>2, <2>1
<1> QED BY <1>3, <1>4

LEMMA LineNotBehind ==
  ASSUME NEW lines \in Seq(Lines), NEW b, Writable(lines, b), NEW i \in 1..Len(lines), NEW isis \in BOOLEAN,
         NEW w, w = WriteLine(lines, i, b, isis)
  PROVE  ~AddT0Behind(w) /\ (HasAny(w, {"addt0"}) => lines[i].word \in FitWords \cup {"addt0"})
<1>1. ASSUME NEW l PROVE ~AddT0Behind(<<l>>)
  <2>1. \A j, k \in DOMAIN <<l>> : ~(j < k) OBVIOUS
  <2> QED BY <2>1 DEF AddT0Behind
<1>2. CASE lines[i].word \notin FitWords
  <2>1. PICK l \in Lines : w = <<l>> /\ l.word = lines[i].word BY <1>2, OneWritten
  <2>2. HasAny(w, {"addt0"}) => l.word = "addt0" BY <2>1, HasOne
  <2> QED BY <1>1, <2>1, <2>2
<1>3. CASE lines[i].word \in FitWords
  <2>1. PICK m, l : m = WriteMissing(lines, i, b, isis) /\ l = WriteFit(b) OBVIOUS
  <2>2. w = m \o <<l>> BY <1>3, <2>1 DEF WriteLine, FitWords
  <2>3. l \in Lines /\ l.word \in FitWords BY <2>1, WriteFitIs DEF FitWords, Writable
  <2>4. m \in Seq(Lines) /\ ~HasAny(m, FitWords) BY <2>1, MissingOnce
  <2>5. <<l>> \in Seq(Lines) BY <2>3
  <2>6. ~AddT0Behind(m) BY <2>4 DEF AddT0Behind, HasAny, FitWords
  <2>7. ~AddT0Behind(m \o <<l>>) BY <1>1, <2>4, <2>5, <2>6, BehindConcat
  <2> QED BY <1>3, <2>2, <2>7
<1> QED BY <1>2, <1>3

FitLineTo(lines, m) == \E j \in 1..m : lines[j].word \in FitWords

Tidy(lines, b, isis, m, s) ==
  /\ Once(s, FitWords) /\ ~AddT0Behind(s)
  /\ HasAny(s, FitWords) <=> FitLineTo(lines, m)
  /\ Len(ReadBlock(s).addT0) = IF ~isis /\ FitLineTo(lines, m) THEN Len(b.addT0) ELSE AddT0LinesBefore(lines, m + 1)

LEMMA TidyLine ==
  ASSUME NEW lines \in Seq(Lines), NEW b, Writable(lines, b), NoEmpty(b.addT0), NEW isis \in BOOLEAN,
         Once(lines, FitWords), ~AddT0Behind(lines), NEW i \in 1..Len(lines), NEW s \in Seq(Lines),
         Tidy(lines, b, isis, i - 1, s), NEW w, w = WriteLine(lines, i, b, isis)
  PROVE  Tidy(lines, b, isis, i, s \o w)
<1>1. /\ w \in Seq(Lines) /\ Once(w, FitWords)
      /\ HasAny(w, FitWords) <=> lines[i].word \in FitWords
  BY WrittenLineOnce, Zenon
<1>2. ~AddT0Behind(w) /\ (HasAny(w, {"addt0"}) => lines[i].word \in FitWords \cup {"addt0"})
  BY LineNotBehind, Zenon
<1>3. PICK n \in Nat : n = Len(lines) /\ DOMAIN lines = 1..n OBVIOUS
<1>4. /\ i \in 1..n /\ i \in Nat \ {0} /\ (i - 1) + 1 = i
      /\ \A j \in 1..(i - 1) : j \in 1..n /\ j # i /\ j < i /\ j \in 1..i
      /\ \A j \in 1..i : j \in 1..(i - 1) \/ j = i
      /\ i \in 1..i
  BY <1>3
<1>5. FitLineTo(lines, i - 1) => lines[i].word \notin FitWords \cup {"addt0"}
  <2>1. FitLineTo(lines, i - 1) => lines[i].word \notin FitWords BY <1>3, <1>4 DEF FitLineTo, Once
  <2>2. FitLineTo(lines, i - 1) => lines[i].word # "addt0"
    BY <1>3, <1>4 DEF FitLineTo, AddT0Behind, FitWords
  <2> QED BY <2>1, <2>2
<1>6. FitLineTo(lines, i) <=> FitLineTo(lines, i - 1) \/ lines[i].word \in FitWords
  BY <1>4, Zenon DEF FitLineTo
<1>7. PICK u : u = s \o w OBVIOUS
<1>8. HasAny(u, FitWords) <=> HasAny(s, FitWords) \/ HasAny(w, FitWords) BY <1>1, <1>7, HasConcat
<1>9. HasAny(s, FitWords) <=> FitLineTo(lines, i - 1) BY DEF Tidy
<1>10. Once(u, FitWords)
  <2>1. ~(HasAny(s, FitWords) /\ HasAny(w, FitWords)) BY <1>1, <1>5, <1>9
  <2> QED BY <1>1, <1>7, <2>1, OnceConcat DEF Tidy
<1>11. ~AddT0Behind(u)
  <2>1. ~(HasAny(s, FitWords) /\ HasAny(w, {"addt0"})) BY <1>2, <1>5, <1>9
  <2> QED BY <1>1, <1>2, <1>7, <2>1, BehindConcat DEF Tidy
<1>12. HasAny(u, FitWords) <=> FitLineTo(lines, i) BY <1>1, <1>6, <1>8, <1>9
<1>13. PICK c, k : c = AddT0LinesBefore(lines, i) /\ k = Len(b.addT0) OBVIOUS
<1>14. c \in 0..k /\ k \in Nat BY <1>3, <1>13, CountLine, BlockIs DEF Writable
<1>15. AddT0LinesBefore(lines, i + 1) = c + (IF lines[i].word = "addt0" THEN 1 ELSE 0) BY <1>4, <1>13, CountUp
<1>16. PICK r, v, z : r = ReadBlock(s).addT0 /\ v = ReadBlock(w).addT0 /\ z = ReadBlock(u).addT0 OBVIOUS
<1>17. r \in Seq(Seq(Int)) /\ v \in Seq(Seq(Int)) BY <1>1, <1>16, ReadBlockIs DEF Blocks
<1>18. z = r \o v BY <1>1, <1>7, <1>16, ReadConcat, Zenon
<1>19. Len(z) = Len(r) + Len(v) BY <1>17, <1>18
<1>20. Len(r) = IF ~isis /\ FitLineTo(lines, i - 1) THEN k ELSE c BY <1>4, <1>13, <1>16 DEF Tidy
<1>21. /\ lines[i].word = "addt0" => Len(v) = 1
       /\ lines[i].word \notin FitWords \cup {"addt0"} => Len(v) = 0
       /\ lines[i].word \in FitWords /\ isis => Len(v) = 0
       /\ lines[i].word \in FitWords /\ ~isis => Len(v) = k - c
  <2>1. /\ lines[i].word = "addt0" => v = <<b.addT0[c + 1]>>
        /\ lines[i].word \notin FitWords \cup {"addt0"} => v = <<>>
        /\ lines[i].word \in FitWords /\ isis => v = <<>>
        /\ lines[i].word \in FitWords /\ ~isis => Len(v) = k - c
    BY <1>13, <1>16, WrittenLine
  <2>2. ASSUME NEW x PROVE Len(<<x>>) = 1 OBVIOUS
  <2>3. Len(<<>>) = 0 OBVIOUS
  <2> QED BY <2>1, <2>2, <2>3
<1>22. Len(z) = IF ~isis /\ FitLineTo(lines, i) THEN k ELSE AddT0LinesBefore(lines, i + 1)
  <2>1. CASE lines[i].word \in FitWords
    <3>1. lines[i].word # "addt0" BY <2>1 DEF FitWords
    <3>2. ~FitLineTo(lines, i - 1) BY <1>5, <2>1
    <3> QED BY <1>6, <1>14, <1>15, <1>19, <1>20, <1>21, <2>1, <3>1, <3>2
  <2>2. CASE lines[i].word = "addt0"
    <3>1. lines[i].word \notin FitWords BY <2>2 DEF FitWords
    <3>2. ~FitLineTo(lines, i - 1) BY <1>5, <2>2
    <3> QED BY <1>6, <1>14, <1>15, <1>19, <1>20, <1>21, <2>2, <3>1, <3>2
  <2>3. CASE lines[i].word \notin FitWords \cup {"addt0"}
    <3>1. lines[i].word \notin FitWords /\ lines[i].word # "addt0" BY <2>3
    <3>2. Len(v) = 0 BY <1>21, <2>3
    <3>3. Len(z) = Len(r) BY <1>14, <1>19, <1>20, <3>2
    <3>4. AddT0LinesBefore(lines, i + 1) = c BY <1>14, <1>15, <3>1
    <3> QED BY <1>6, <1>20, <3>1, <3>3, <3>4
  <2> QED BY <2>1, <2>2, <2>3
<1> QED BY <1>7, <1>10, <1>11, <1>12, <1>13, <1>16, <1>22 DEF Tidy

LEMMA WrittenTidy ==
  ASSUME NEW lines \in Seq(Lines), NEW b, Writable(lines, b), NoEmpty(b.addT0), NEW isis \in BOOLEAN,
         Once(lines, FitWords), ~AddT0Behind(lines)
  PROVE  Tidy(lines, b, isis, Len(lines), WriteRun(lines, b, isis))
<1>1. PICK n \in Nat : n = Len(lines) /\ DOMAIN lines = 1..n OBVIOUS
<1>2. PICK f : Writing(lines, b, isis, f) BY Writes
<1>3. /\ f \in [0..n -> Seq(Lines)] /\ f[0] = <<>> /\ WriteRun(lines, b, isis) = f[n]
      /\ \A i \in 1..n : f[i] = f[i - 1] \o WriteLine(lines, i, b, isis)
  BY <1>1, <1>2, Zenon DEF Writing
<1>4. PICK S : S = {m \in 0..n : Tidy(lines, b, isis, m, f[m])} OBVIOUS
<1>5. 0 \in S
  <2>1. 1..0 = {} /\ 0 \in 0..n /\ 0 + 1 = 1 OBVIOUS
  <2>2. Once(<<>>, FitWords) /\ ~HasAny(<<>>, FitWords) BY NoLine
  <2>3. ReadBlock(<<>>).addT0 = <<>> BY ReadNothing DEF NoBlock
  <2>4. Len(<<>>) = 0 OBVIOUS
  <2>5. ~FitLineTo(lines, 0) BY <2>1 DEF FitLineTo
  <2>6. AddT0LinesBefore(lines, 1) = 0
    <3>1. 1 \in Nat \ {0} OBVIOUS
    <3> QED BY <3>1, CountUp
  <2>7. ~AddT0Behind(<<>>)
    <3>1. DOMAIN <<>> = {} OBVIOUS
    <3> QED BY <3>1 DEF AddT0Behind
  <2>8. Tidy(lines, b, isis, 0, <<>>) BY <2>1, <2>2, <2>3, <2>4, <2>5, <2>6, <2>7 DEF Tidy
  <2> QED BY <1>3, <1>4, <2>1, <2>8
<1>6. ASSUME NEW m \in 0..(n - 1), m \in S PROVE m + 1 \in S
  <2>1. PICK i \in 1..n : i = m + 1 OBVIOUS
  <2>2. i - 1 = m /\ i \in 0..n /\ m \in 0..n BY <2>1
  <2>3. f[m] \in Seq(Lines) BY <1>3, <2>2
  <2>4. Tidy(lines, b, isis, i - 1, f[m]) BY <1>4, <1>6, <2>2
  <2>5. i \in 1..Len(lines) BY <1>1
  <2>6. Tidy(lines, b, isis, i, f[m] \o WriteLine(lines, i, b, isis)) BY <2>3, <2>4, <2>5, TidyLine
  <2>7. f[i] = f[m] \o WriteLine(lines, i, b, isis) BY <1>3, <2>2
  <2> QED BY <1>4, <2>1, <2>2, <2>6, <2>7
<1>7. n \in S
  <2>1. 0..n \subseteq S BY <1>5, <1>6, UpTo
  <2> QED BY <2>1
<1> QED BY <1>1, <1>3, <1>4, <1>7

LEMMA AddT0sMatchAgain ==
  ASSUME NEW lines \in Seq(Lines), NEW b, Writable(lines, b), NoEmpty(b.addT0), NEW isis \in BOOLEAN,
         Once(lines, FitWords), ~AddT0Behind(lines), NEW n \in Nat,
         AddT0sMatch(n, ReadBlock(lines)), AddT0sMatch(n, b)
  PROVE  AddT0sMatch(n, ReadBlock(WriteRun(lines, b, isis)))
<1>1. Tidy(lines, b, isis, Len(lines), WriteRun(lines, b, isis)) BY WrittenTidy
<1>2. Len(ReadBlock(lines).addT0) = AddT0LinesBefore(lines, Len(lines) + 1) BY AddT0sCounted
<1>3. Len(ReadBlock(WriteRun(lines, b, isis)).addT0) \in {Len(b.addT0), Len(ReadBlock(lines).addT0)}
  BY <1>1, <1>2 DEF Tidy
<1> QED BY <1>3 DEF AddT0sMatch

LEMMA GlobalOnce ==
  ASSUME NEW lines \in Seq(Lines), NEW b \in Block, NEW w, w = WriteGlobal(lines, b), Once(lines, FitWords)
  PROVE  Once(w, FitWords)
<1>1. DOMAIN w = 1..Len(lines) /\ DOMAIN lines = 1..Len(lines) BY GlobalIs
<1>2. \A i \in 1..Len(lines) : w[i].word \in FitWords <=> lines[i].word \in FitWords BY GlobalLines
<1> QED BY <1>1, <1>2 DEF Once

(* One fit line gives the range in bins or in time.                        *)
LEMMA BinsOrTime ==
  ASSUME NEW lines \in Seq(Lines), Once(lines, FitWords), ReadBlock(lines).inBins
  PROVE  ~InTime(ReadBlock(lines))
<1>1. PICK b : b = ReadBlock(lines) OBVIOUS
<1>2. PICK n \in Nat : n = Len(lines) /\ DOMAIN lines = 1..n OBVIOUS
<1>3. NoBlock.inBins = FALSE /\ NoBlock.time = <<Undefined, Undefined>> BY DEF NoBlock
<1>4. CASE HasAny(lines, FitWords)
  <2>1. PICK k \in 1..n : lines[k].word \in FitWords BY <1>2, <1>4 DEF HasAny
  <2>2. PICK u : u = lines[k] OBVIOUS
  <2>3. u \in Lines /\ u.word \in FitWords BY <1>2, <2>1, <2>2
  <2>4. \A i \in 1..n : lines[i].word \in FitWords => lines[i] = u BY <1>2, <2>1, <2>2 DEF Once
  <2>5. FitOf(b) = FitOf(ReadLine(NoBlock, u)) BY <1>1, <1>2, <1>4, <2>3, <2>4, FitAs
  <2>6. FitOf(ReadLine(NoBlock, u)) =
          <<NoBlock.inBins \/ u.word = "fit fgb",
            IF u.word = "fit fgb" THEN ReadOffset(u.n) ELSE NoBlock.offset,
            IF u.word = "fit" THEN u.n ELSE NoBlock.time>>
    <3>1. PICK none : none = <<>> OBVIOUS
    <3>2. none \in Seq(Lines) /\ NoBlock \in Blocks(none) BY <3>1, NoBlockIs
    <3> QED BY <2>3, <3>2, ReadFit
  <2>7. /\ b.inBins = (NoBlock.inBins \/ u.word = "fit fgb")
        /\ b.time = IF u.word = "fit" THEN u.n ELSE NoBlock.time
    BY <2>5, <2>6 DEF FitOf
  <2>8. u.word = "fit fgb" BY <1>1, <1>3, <2>7
  <2>9. b.time = <<Undefined, Undefined>> BY <1>3, <2>7, <2>8
  <2> QED BY <1>1, <2>9 DEF InTime
<1>5. CASE ~HasAny(lines, FitWords)
  <2>1. PICK u : u = Line("fit", <<>>) OBVIOUS
  <2>2. u \in Lines /\ u.word \in FitWords
    <3>1. PICK none : none = <<>> OBVIOUS
    <3>2. none \in Seq(Int) /\ u = [word |-> "fit", n |-> none] BY <2>1, <3>1 DEF Line
    <3> QED BY <3>2 DEF Lines, Words, FitWords
  <2>3. \A i \in 1..n : lines[i].word \in FitWords => lines[i] = u BY <1>2, <1>5 DEF HasAny
  <2>4. FitOf(b) = FitOf(NoBlock) BY <1>1, <1>2, <1>5, <2>2, <2>3, FitAs
  <2>5. b.inBins = FALSE BY <1>3, <2>4 DEF FitOf
  <2> QED BY <1>1, <2>5
<1> QED BY <1>4, <1>5

(* A legal line of the RUN block gives something.                          *)
LEMMA LegalHas ==
  ASSUME NEW lines \in Seq(Lines), \A i \in DOMAIN lines : LegalLine(lines[i]), NEW word \in RangeWords,
         Has(lines, word)
  PROVE  RangeIn(ReadBlock(lines), word)[1] # None
<1>1. PICK f : ReadsOf(lines, f) BY Reads
<1>2. PICK n \in Nat : n = Len(lines) /\ DOMAIN lines = 1..n OBVIOUS
<1>3. /\ f \in [0..n -> Blocks(lines)] /\ ReadBlock(lines) = f[n] /\ f[0] = NoBlock
      /\ \A j \in 1..n : f[j] = ReadLine(f[j - 1], lines[j])
  BY <1>1, <1>2, Zenon DEF ReadsOf
<1>4. PICK S : S = {j \in 0..n : (\E h \in 1..j : lines[h].word = word) => RangeIn(f[j], word)[1] > 0} OBVIOUS
<1>5. 0 \in S BY <1>4
<1>6. ASSUME NEW k \in 0..(n - 1), k \in S PROVE k + 1 \in S
  <2>1. PICK j \in 1..n : j = k + 1 OBVIOUS
  <2>2. j - 1 = k /\ j \in 0..n /\ k \in 0..n /\ (\A h \in 1..j : h \in 1..k \/ h = j) BY <2>1
  <2>3. PICK b, c, l : b = f[k] /\ c = f[j] /\ l = lines[j] OBVIOUS
  <2>4. b \in Blocks(lines) /\ c = ReadLine(b, l) /\ l \in Lines /\ LegalLine(l) BY <1>2, <1>3, <2>2, <2>3
  <2>5. PICK x, y : x = RangeIn(b, word) /\ y = RangeIn(c, word) OBVIOUS
  <2>6. y = IF l.word = word THEN Overwritten(x, l.n) ELSE x BY <2>4, <2>5, ReadRanges
  <2>7. CASE l.word = word
    <3>1. PICK m \in Seq(Int) : m = l.n BY <2>4 DEF Lines
    <3>2. m # <<>> /\ \A i \in DOMAIN m : m[i] > 0 BY <2>4, <2>7, <3>1, LegalRange
    <3>3. Len(m) # 0 BY <3>2, EmptySeq
    <3>4. 1 \in DOMAIN m /\ 1 <= Len(m) /\ 1 \in 1..4 BY <3>3
    <3>5. y[1] = m[1] BY <2>6, <2>7, <3>1, <3>4 DEF Overwritten
    <3>6. y[1] > 0 BY <3>2, <3>4, <3>5
    <3> QED BY <1>4, <2>1, <2>2, <2>3, <2>5, <3>6
  <2>8. CASE l.word # word
    <3>1. (\E h \in 1..j : lines[h].word = word) => \E h \in 1..k : lines[h].word = word
      BY <2>2, <2>3, <2>8
    <3>2. y = x BY <2>6, <2>8
    <3> QED BY <1>4, <1>6, <2>1, <2>2, <2>3, <2>5, <3>1, <3>2
  <2> QED BY <2>7, <2>8
<1>7. 0..n \subseteq S BY <1>5, <1>6, UpTo
<1>8. n \in S BY <1>7
<1>9. RangeIn(f[n], word)[1] > 0 BY <1>2, <1>4, <1>8 DEF Has
<1> QED BY <1>3, <1>9 DEF None

LEMMA LegalHasT0 ==
  ASSUME NEW lines \in Seq(Lines), \A i \in DOMAIN lines : LegalLine(lines[i]), Has(lines, "t0")
  PROVE  ReadBlock(lines).t0 # <<>>
<1>1. PICK f : ReadsOf(lines, f) BY Reads
<1>2. PICK n \in Nat : n = Len(lines) /\ DOMAIN lines = 1..n OBVIOUS
<1>3. /\ f \in [0..n -> Blocks(lines)] /\ ReadBlock(lines) = f[n] /\ f[0] = NoBlock
      /\ \A j \in 1..n : f[j] = ReadLine(f[j - 1], lines[j])
  BY <1>1, <1>2, Zenon DEF ReadsOf
<1>4. PICK S : S = {j \in 0..n : (\E h \in 1..j : lines[h].word = "t0") => Len(f[j].t0) > 0} OBVIOUS
<1>5. 0 \in S BY <1>4
<1>6. ASSUME NEW k \in 0..(n - 1), k \in S PROVE k + 1 \in S
  <2>1. PICK j \in 1..n : j = k + 1 OBVIOUS
  <2>2. j - 1 = k /\ j \in 0..n /\ k \in 0..n /\ (\A h \in 1..j : h \in 1..k \/ h = j) BY <2>1
  <2>3. PICK b, c, l : b = f[k] /\ c = f[j] /\ l = lines[j] OBVIOUS
  <2>4. b \in Blocks(lines) /\ c = ReadLine(b, l) /\ l \in Lines /\ LegalLine(l) BY <1>2, <1>3, <2>2, <2>3
  <2>5. PICK x, y, m : x = b.t0 /\ y = c.t0 /\ m = l.n OBVIOUS
  <2>6. y = IF l.word = "t0" THEN x \o m ELSE x BY <2>4, <2>5, ReadT0s
  <2>7. x \in Seq(Int) /\ m \in Seq(Int) BY <2>4, <2>5 DEF Blocks, Lines
  <2>8. CASE l.word = "t0"
    <3>1. m # <<>> BY <2>4, <2>5, <2>8 DEF LegalLine
    <3>2. Len(m) # 0 BY <2>7, <3>1, EmptySeq
    <3>3. Len(x \o m) = Len(x) + Len(m) /\ Len(x) \in Nat /\ Len(m) \in Nat BY <2>7
    <3>4. Len(y) > 0 BY <2>6, <2>8, <3>2, <3>3
    <3> QED BY <1>4, <2>1, <2>2, <2>3, <2>5, <3>4
  <2>9. CASE l.word # "t0"
    <3>1. (\E h \in 1..j : lines[h].word = "t0") => \E h \in 1..k : lines[h].word = "t0"
      BY <2>2, <2>3, <2>9
    <3>2. y = x BY <2>6, <2>9
    <3> QED BY <1>4, <1>6, <2>1, <2>2, <2>3, <2>5, <3>1, <3>2
  <2> QED BY <2>8, <2>9
<1>7. 0..n \subseteq S BY <1>5, <1>6, UpTo
<1>8. n \in S BY <1>7
<1>9. Len(f[n].t0) > 0 BY <1>2, <1>4, <1>8 DEF Has
<1>10. SUFFICES ASSUME ReadBlock(lines).t0 = <<>> PROVE FALSE OBVIOUS
<1>11. Len(f[n].t0) = 0 BY <1>3, <1>10
<1> QED BY <1>9, <1>11

-----------------------------------------------------------------------------
(* What is known in every session of the file and of what has been found.  *)

FilesLegal ==
  /\ session > 1 \/ phase \in Busy => Legal(user, setup.single, setup.addRuns)
  /\ phase \in Busy => Legal(file, setup.single, setup.addRuns)
  /\ session = 1 => file = user

(* The t0's that are meant pass the test of GetProperT0.                   *)
Inside ==
  /\ \A d \in Detectors : InHistogram(MeantT0(0, d))
  /\ setup.single => \A k \in 1..setup.addRuns : \A d \in Detectors : InHistogram(MeantT0(k, d))

T0sPassed ==
  /\ session > 1 \/ phase \in Prepared \ {"failed"} => Inside
  /\ session > 1 \/ phase \in {"done", "commanded"} => before.t0s = TheT0s
  /\ phase \in Prepared => t0s = TheT0s /\ addT0s = TheAddT0s

(* With RangesPass, the file f, and its blocks b and c that have been read,*)
(* give the ranges that are meant.                                         *)
FileAs(f) ==
  /\ ReadBlock(f.run).data \in {UsersRun.data, FilledData}
  /\ ReadBlock(f.global).data = UsersGlobal.data
  /\ SameFit(ReadBlock(f.run), UsersRun) /\ SameFit(ReadBlock(f.global), UsersGlobal)

RunAs(f, b, c) ==
  /\ b.data \in {ReadBlock(f.run).data, FilledData} /\ c.data = UsersGlobal.data
  /\ SameFit(b, UsersRun) /\ SameFit(c, UsersGlobal)

DataInside == \A side \in Sides : EndsFrom(TheData, side)[1] <= Size

Ranged == phase \in {"range", "bins", "done", "commanded"} \/ (phase = "background" /\ setup.single)

RangesAs ==
  /\ FileAs(file)
  /\ phase \in Busy => RunAs(file, run, global)
  /\ session > 1 \/ Ranged => DataInside
  /\ Ranged => good = TheGood

FoundSame ==
  OffsetsPassed =>
    /\ phase = "bins" \/ (phase = "background" /\ setup.single) => fitTime = TheTimes
    /\ session > 1 \/ phase \in {"done", "commanded"} => before = TheFound

RangesKept == RangesAs /\ FoundSame

(* With LinesPass as well, the file is one that is read again, and the     *)
(* background that has been found is that of the session before.           *)
BkgInside ==
  setup.bkgKnown \/ \A side \in Sides : \A i \in 1..2 : InBounds(BkgInterval([bkg |-> FilledBkg], side)[i])

BkgFound == phase \in {"bins", "done", "commanded"} \/ (~setup.single /\ phase \in {"data", "range"})

FileAgain(f) ==
  /\ ReadBlock(f.run).bkg \in {UsersRun.bkg, FilledBkg}
  /\ Once(f.run, FitWords) /\ Once(f.global, FitWords) /\ ~AddT0Behind(f.run)

RunAgain(f, b) ==
  /\ b.bkg \in {ReadBlock(f.run).bkg, FilledBkg}
  /\ Known(b) /\ (Has(f.run, "t0") => b.t0 # <<>>) /\ AddT0sMatch(setup.addRuns, b)

AgainKept ==
  /\ FileAgain(file)
  /\ phase \in Busy => RunAgain(file, run)
  /\ session > 1 \/ BkgFound => BkgInside
  /\ session > 1 => Legal(file, setup.single, setup.addRuns)

KnownSame ==
  Complete => T0sPassed /\ (RangesPass => RangesKept /\ (LinesPass => AgainKept))

KeptInv == Sessions /\ AsMeant /\ FilesLegal /\ KnownSame

LEMMA FileIs ==
  ASSUME Fixed, NEW f, f = file'
  PROVE  /\ FileAs(f) => FileAs(file)'
         /\ FileAgain(f) => FileAgain(file)'
         /\ Legal(f, setup.single, setup.addRuns) => Legal(file, setup.single, setup.addRuns)'
<1>1. /\ UsersRun' = UsersRun /\ UsersGlobal' = UsersGlobal
      /\ FilledData' = FilledData /\ FilledBkg' = FilledBkg
  BY TheSame DEF Fixed
<1>2. FileAs(f) => FileAs(file)' BY <1>1 DEF FileAs, SameFit
<1>3. FileAgain(f) => FileAgain(file)' BY <1>1 DEF FileAgain, Once, AddT0Behind
<1>4. Legal(f, setup.single, setup.addRuns) => Legal(file, setup.single, setup.addRuns)' BY DEF Fixed, Legal
<1> QED BY <1>2, <1>3, <1>4

LEMMA RunIs ==
  ASSUME Fixed, NEW f, f = file', NEW b, b = run', NEW c, c = global'
  PROVE  /\ RunAs(f, b, c) => RunAs(file, run, global)'
         /\ RunAgain(f, b) => RunAgain(file, run)'
<1>1. /\ UsersRun' = UsersRun /\ UsersGlobal' = UsersGlobal
      /\ FilledData' = FilledData /\ FilledBkg' = FilledBkg
  BY TheSame DEF Fixed
<1>2. RunAs(f, b, c) => RunAs(file, run, global)' BY <1>1 DEF RunAs, SameFit
<1>3. setup' = setup BY DEF Fixed
<1>4. RunAgain(f, b) => RunAgain(file, run)'
  BY <1>1, <1>3 DEF RunAgain, Known, NoEmpty, Has, AddT0sMatch
<1> QED BY <1>2, <1>4

LEMMA MeantFixed ==
  ASSUME Fixed
  PROVE  /\ Inside' <=> Inside
         /\ DataInside' <=> DataInside
         /\ BkgInside' <=> BkgInside
         /\ OffsetsPassed' <=> OffsetsPassed
         /\ TheT0s' = TheT0s /\ TheAddT0s' = TheAddT0s
         /\ TheGood' = TheGood /\ TheTimes' = TheTimes /\ TheFound' = TheFound
<1>1. /\ Detectors' = Detectors /\ Sides' = Sides /\ TheT0s' = TheT0s /\ TheAddT0s' = TheAddT0s
      /\ TheData' = TheData /\ FilledBkg' = FilledBkg /\ (OffsetsPassed' <=> OffsetsPassed)
  BY TheSame DEF Fixed
<1>2. setup' = setup /\ \A r, d : MeantT0(r, d)' = MeantT0(r, d) BY UsersSame DEF Fixed
<1>3. Inside' <=> Inside BY <1>1, <1>2 DEF Inside
<1>4. DataInside' <=> DataInside BY <1>1 DEF DataInside, EndsFrom
<1>5. BkgInside' <=> BkgInside BY <1>1, <1>2 DEF BkgInside, BkgInterval
<1>6. TheGood' = TheGood /\ TheTimes' = TheTimes /\ TheFound' = TheFound BY FromSame DEF Fixed
<1> QED BY <1>1, <1>3, <1>4, <1>5, <1>6

LEMMA KnownSameStep ==
  ASSUME Fixed, Complete => T0sPassed', Complete /\ RangesPass => RangesKept',
         Complete /\ RangesPass /\ LinesPass => AgainKept'
  PROVE  KnownSame'
<1>1. (Complete' <=> Complete) /\ (RangesPass' <=> RangesPass) /\ (LinesPass' <=> LinesPass)
  BY TheSame DEF Fixed
<1> QED BY <1>1 DEF KnownSame

(* A step from a block that has been read to one that has.                 *)
LEMMA LegalKept ==
  ASSUME Fixed, file' = file, session' = session, phase \in Busy, phase' \in Busy, FilesLegal
  PROVE  FilesLegal'
BY DEF FilesLegal, Fixed, Busy

(* Steps after GetProperT0 but PrepareFitData.                             *)
LEMMA T0sPassedKept ==
  ASSUME Fixed, session' = session, t0s' = t0s, addT0s' = addT0s, before' = before,
         phase \in Prepared \ {"failed"}, phase' \in Prepared,
         phase' \in {"done", "commanded"} => phase \in {"done", "commanded"}, T0sPassed
  PROVE  T0sPassed'
<1>1. (Inside' <=> Inside) /\ TheT0s' = TheT0s /\ TheAddT0s' = TheAddT0s BY MeantFixed
<1>2. Inside /\ t0s = TheT0s /\ addT0s = TheAddT0s BY DEF T0sPassed
<1>3. session > 1 \/ phase \in {"done", "commanded"} => before.t0s = TheT0s BY DEF T0sPassed
<1> QED BY <1>1, <1>2, <1>3 DEF T0sPassed

LEMMA SameFitSame ==
  ASSUME NEW u
  PROVE  SameFit(u, u)
BY DEF SameFit

LEMMA KeptInit ==
  ASSUME Init, Sessions
  PROVE  FilesLegal /\ KnownSame
<1>1. session = 1 /\ phase = "start" /\ file = user BY DEF Init
<1>2. FilesLegal BY <1>1 DEF FilesLegal, Busy
<1>3. T0sPassed BY <1>1 DEF T0sPassed, Prepared
<1>4. FileAs(file)
  <2>1. SameFit(UsersRun, UsersRun) /\ SameFit(UsersGlobal, UsersGlobal) BY SameFitSame
  <2> QED BY <1>1, <2>1 DEF FileAs, UsersRun, UsersGlobal
<1>5. ~Ranged BY <1>1 DEF Ranged
<1>6. RangesKept BY <1>1, <1>4, <1>5 DEF RangesKept, RangesAs, FoundSame, Busy
<1>7. ASSUME LinesPass PROVE AgainKept
  <2>1. FileAgain(file) BY <1>1, <1>7 DEF FileAgain, LinesPass, FitWords, UsersRun
  <2>2. ~BkgFound BY <1>1 DEF BkgFound
  <2> QED BY <1>1, <2>1, <2>2 DEF AgainKept, Busy
<1> QED BY <1>2, <1>3, <1>6, <1>7 DEF KnownSame

LEMMA ReadKept ==
  ASSUME KeptInv, Read
  PROVE  FilesLegal' /\ KnownSame'
<1>1. /\ phase = "start" /\ setup' = setup /\ user' = user /\ file' = file /\ session' = session
      /\ before' = before /\ phase' \in {"t0", "refused"}
      /\ phase' = "t0" => /\ Legal(file, setup.single, setup.addRuns)
                          /\ run' = ReadBlock(file.run) /\ global' = ReadBlock(file.global)
  BY DEF Read
<1>2. Sessions /\ FilesLegal /\ KnownSame BY DEF KeptInv
<1>3. Fixed BY <1>1 DEF Fixed
<1>4. phase' \in Busy => phase' = "t0" BY <1>1 DEF Busy
<1>5. phase' \notin Prepared /\ ~Ranged' /\ ~BkgFound' BY <1>1 DEF Prepared, Ranged, BkgFound
<1>6. /\ Legal(file, setup.single, setup.addRuns)' <=> Legal(file, setup.single, setup.addRuns)
      /\ Legal(user, setup.single, setup.addRuns)' <=> Legal(user, setup.single, setup.addRuns)
  BY <1>1
<1>7. session \in Nat \ {0} BY <1>2 DEF Sessions, SessionsTyped
<1>8. FilesLegal'
  <2>1. session > 1 \/ session = 1 BY <1>7
  <2>2. phase' = "t0" => Legal(user, setup.single, setup.addRuns) BY <1>1, <1>2, <2>1 DEF FilesLegal
  <2> QED BY <1>1, <1>2, <1>4, <1>6, <2>2 DEF FilesLegal
<1>9. PICK f, b, c : f = file /\ b = ReadBlock(file.run) /\ c = ReadBlock(file.global) OBVIOUS
<1>10. f = file' /\ (phase' = "t0" => b = run' /\ c = global') BY <1>1, <1>9
<1>11. file.run \in Seq(Lines) /\ file.global \in Seq(Lines) BY <1>2 DEF Sessions, FilesTyped
<1>12. ASSUME T0sPassed PROVE T0sPassed'
  <2>1. (Inside' <=> Inside) /\ TheT0s' = TheT0s BY <1>3, MeantFixed
  <2>2. session > 1 => Inside /\ before.t0s = TheT0s BY <1>12 DEF T0sPassed
  <2>3. phase' \notin {"done", "commanded"} BY <1>1
  <2> QED BY <1>1, <1>5, <2>1, <2>2, <2>3 DEF T0sPassed
<1>13. ASSUME RangesKept PROVE RangesKept'
  <2>1. FileAs(f) /\ (session > 1 => DataInside) /\ (OffsetsPassed /\ session > 1 => before = TheFound)
    BY <1>9, <1>13 DEF RangesKept, RangesAs, FoundSame
  <2>2. FileAs(file)' BY <1>3, <1>10, <2>1, FileIs
  <2>3. phase' \in Busy => RunAs(file, run, global)'
    <3>1. RunAs(f, b, c) BY <1>9, <2>1 DEF FileAs, RunAs
    <3> QED BY <1>3, <1>4, <1>10, <3>1, RunIs
  <2>4. /\ DataInside' <=> DataInside
        /\ OffsetsPassed' <=> OffsetsPassed
        /\ TheFound' = TheFound
    BY <1>3, MeantFixed
  <2>5. RangesAs' BY <1>1, <1>5, <2>1, <2>2, <2>3, <2>4 DEF RangesAs
  <2>6. FoundSame' BY <1>1, <2>1, <2>4 DEF FoundSame
  <2> QED BY <2>5, <2>6 DEF RangesKept
<1>14. ASSUME AgainKept PROVE AgainKept'
  <2>1. FileAgain(f) /\ (session > 1 => BkgInside /\ Legal(file, setup.single, setup.addRuns))
    BY <1>9, <1>14 DEF AgainKept
  <2>2. FileAgain(file)' BY <1>3, <1>10, <2>1, FileIs
  <2>3. ASSUME phase' \in Busy PROVE RunAgain(file, run)'
    <3>1. phase' = "t0" BY <1>4, <2>3
    <3>2. Legal(file, setup.single, setup.addRuns) BY <1>1, <3>1
    <3>3. \A i \in DOMAIN file.run : LegalLine(file.run[i]) BY <3>2 DEF Legal
    <3>4. Known(b) BY <1>9, <1>11, <3>3, ReadFile
    <3>5. Has(f.run, "t0") => b.t0 # <<>> BY <1>9, <1>11, <3>3, LegalHasT0
    <3>6. AddT0sMatch(setup.addRuns, b) BY <1>9, <3>2 DEF Legal
    <3>7. RunAgain(f, b) BY <1>9, <2>1, <3>4, <3>5, <3>6 DEF RunAgain
    <3> QED BY <1>3, <1>10, <3>1, <3>7, RunIs
  <2>4. BkgInside' <=> BkgInside BY <1>3, MeantFixed
  <2> QED BY <1>1, <1>5, <1>6, <2>1, <2>2, <2>3, <2>4 DEF AgainKept
<1>15. KnownSame' BY <1>2, <1>3, <1>12, <1>13, <1>14, KnownSameStep DEF KnownSame
<1> QED BY <1>8, <1>15

(* What fills in t0's keeps what is known of the block.                    *)
LEMMA FilledAs ==
  ASSUME NEW f, NEW b, NEW c, NEW d, Filled(b, c)
  PROVE  /\ RunAs(f, b, d) => RunAs(f, c, d)
         /\ RunAgain(f, b) /\ Known(c) /\ (b.t0 # <<>> => c.t0 # <<>>) /\ AddT0sMatch(setup.addRuns, c)
              => RunAgain(f, c)
<1>1. c.data = b.data /\ c.bkg = b.bkg /\ FitOf(c) = FitOf(b) BY DEF Filled, SameRanges
<1>2. SameFit(b, UsersRun) => SameFit(c, UsersRun) BY <1>1, SameFitAs
<1> QED BY <1>1, <1>2 DEF RunAs, RunAgain

LEMMA GetProperT0Kept ==
  ASSUME KeptInv, AsMeant', GetProperT0
  PROVE  FilesLegal' /\ KnownSame'
<1>1. /\ phase = "t0" /\ phase' \in {"data", "background", "failed"} 
      /\ (phase' = "background" => ~setup.single) /\ (phase' = "data" => setup.single)
      /\ setup' = setup /\ user' = user /\ file' = file /\ session' = session /\ before' = before
      /\ global' = global /\ run' = WithAddT0s(WithT0s(run))
      /\ t0s' = [d \in Detectors |-> T0(d)]
      /\ addT0s' = [k \in 1..setup.addRuns |-> [d \in Detectors |-> AddT0Of(WithT0s(run), k, d)]]
      /\ phase' # "failed" =>
           /\ \A d \in Detectors : InHistogram(t0s'[d])
           /\ ~setup.single \/ \A k \in 1..setup.addRuns : \A d \in Detectors : InHistogram(addT0s'[k][d])
  BY DEF GetProperT0
<1>2. Sessions /\ FilesLegal /\ KnownSame BY DEF KeptInv
<1>3. Fixed BY <1>1 DEF Fixed
<1>4. phase \in Busy /\ phase' \in Busy /\ phase' \in Prepared BY <1>1 DEF Busy, Prepared
<1>5. FilesLegal' BY <1>1, <1>2, <1>3, <1>4, LegalKept
<1>6. /\ setup \in Setups /\ run \in Block /\ global \in Block
      /\ Known(run) /\ AddT0sMatch(setup.addRuns, run)
  BY <1>1, <1>2, <1>4 DEF Sessions, FilesTyped, BlocksTyped, ReadBefore
<1>7. PICK b, c : b = WithT0s(run) /\ c = run' OBVIOUS
<1>8. b \in Block /\ b.addT0 = run.addT0 BY <1>6, <1>7, T0sSet
<1>9. Filled(run, b) /\ RowKnown(b.t0) /\ (run.t0 # <<>> => b.t0 # <<>>) BY <1>6, <1>7, T0sFill
<1>10. NoEmpty(b.addT0) /\ RowsKnown(b.addT0) BY <1>6, <1>8 DEF Known, RowsKnown, RowKnown
<1>11. AddT0sMatch(setup.addRuns, b) BY <1>6, <1>8 DEF AddT0sMatch
<1>12. c = WithAddT0s(b) BY <1>1, <1>7
<1>13. Filled(b, c) /\ RowsKnown(c.addT0) /\ AddT0sMatch(setup.addRuns, c)
  BY <1>6, <1>8, <1>10, <1>11, <1>12, AddT0sFill
<1>14. NoEmpty(c.addT0) BY <1>6, <1>8, <1>10, <1>11, <1>12, AddT0sStored
<1>15. c.t0 = b.t0 BY <1>6, <1>8, <1>12, AddT0sLonger
<1>16. Known(c) BY <1>9, <1>13, <1>14, <1>15 DEF Known, RowsKnown, RowKnown
<1>17. Filled(run, c) BY <1>9, <1>13 DEF Filled, SameRanges
<1>18. run.t0 # <<>> => c.t0 # <<>> BY <1>9, <1>15
<1>19. PICK f, g : f = file /\ g = global OBVIOUS
<1>20. f = file' /\ g = global' BY <1>1, <1>19
<1>21. ~Ranged' /\ ~BkgFound' BY <1>1 DEF Ranged, BkgFound
<1>22. ASSUME Complete, T0sPassed PROVE T0sPassed'
  <2>1. /\ Inside' <=> Inside
        /\ TheT0s' = TheT0s /\ TheAddT0s' = TheAddT0s
    BY <1>3, MeantFixed
  <2>2. Complete' <=> Complete BY <1>3, TheSame DEF Fixed
  <2>3. RunAsMeant' BY <1>22, <2>2 DEF AsMeant
  <2>4. Detectors' = Detectors /\ \A r, d : MeantT0(r, d)' = MeantT0(r, d) BY <1>3, UsersSame DEF Fixed
  <2>5. /\ \A d \in Detectors : t0s'[d] = MeantT0(0, d)
        /\ \A k \in 1..setup.addRuns, d \in Detectors : addT0s'[k][d] = MeantT0(k, d)
    BY <1>1, <1>4, <2>3, <2>4 DEF RunAsMeant
  <2>6. t0s' = TheT0s
    <3>1. \A d \in Detectors : T0(d) = MeantT0(0, d) BY <1>1, <2>5
    <3> QED BY <1>1, <3>1 DEF TheT0s
  <2>7. addT0s' = TheAddT0s
    <3>1. \A k \in 1..setup.addRuns, d \in Detectors : AddT0Of(WithT0s(run), k, d) = MeantT0(k, d)
      BY <1>1, <2>5
    <3> QED BY <1>1, <3>1 DEF TheAddT0s
  <2>8. phase' # "failed" => Inside BY <1>1, <2>5 DEF Inside
  <2>9. session > 1 => Inside /\ before.t0s = TheT0s BY <1>22 DEF T0sPassed
  <2>10. phase' \notin {"done", "commanded"} BY <1>1
  <2> QED BY <1>1, <2>1, <2>6, <2>7, <2>8, <2>9, <2>10 DEF T0sPassed
<1>23. ASSUME RangesKept PROVE RangesKept'
  <2>1. /\ FileAs(f) /\ RunAs(f, run, g)
        /\ session > 1 => DataInside
        /\ OffsetsPassed /\ session > 1 => before = TheFound
    BY <1>4, <1>19, <1>23 DEF RangesKept, RangesAs, FoundSame
  <2>2. FileAs(file)' BY <1>3, <1>20, <2>1, FileIs
  <2>3. RunAs(file, run, global)'
    <3>1. RunAs(f, c, g) BY <1>17, <2>1, FilledAs
    <3> QED BY <1>3, <1>7, <1>20, <3>1, RunIs
  <2>4. /\ DataInside' <=> DataInside
        /\ OffsetsPassed' <=> OffsetsPassed
        /\ TheFound' = TheFound
    BY <1>3, MeantFixed
  <2>5. RangesAs' BY <1>1, <1>21, <2>1, <2>2, <2>3, <2>4 DEF RangesAs
  <2>6. FoundSame'
    <3>1. ~(phase' = "bins" \/ (phase' = "background" /\ setup'.single)) BY <1>1
    <3>2. phase' \notin {"done", "commanded"} BY <1>1
    <3> QED BY <1>1, <2>1, <2>4, <3>1, <3>2 DEF FoundSame
  <2> QED BY <2>5, <2>6 DEF RangesKept
<1>24. ASSUME AgainKept PROVE AgainKept'
  <2>1. FileAgain(f) /\ RunAgain(f, run) /\ (session > 1 => BkgInside /\ Legal(file, setup.single, setup.addRuns))
    BY <1>4, <1>19, <1>24 DEF AgainKept
  <2>2. FileAgain(file)' BY <1>3, <1>20, <2>1, FileIs
  <2>3. RunAgain(file, run)'
    <3>1. RunAgain(f, c) BY <1>13, <1>16, <1>17, <1>18, <2>1, FilledAs
    <3> QED BY <1>3, <1>7, <1>20, <3>1, RunIs
  <2>4. BkgInside' <=> BkgInside BY <1>3, MeantFixed
  <2>5. Legal(file, setup.single, setup.addRuns)' <=> Legal(file, setup.single, setup.addRuns) BY <1>1
  <2> QED BY <1>1, <1>21, <2>1, <2>2, <2>3, <2>4, <2>5 DEF AgainKept
<1>25. KnownSame' BY <1>2, <1>3, <1>22, <1>23, <1>24, KnownSameStep DEF KnownSame
<1> QED BY <1>5, <1>25

(* What is meant of the t0's and ranges, from the phases that have them.   *)
LEMMA RangesAreMeant ==
  ASSUME KeptInv, Complete, RangesPass, phase \in Prepared \ {"failed"}
  PROVE  KnownRanges
<1>1. Sessions /\ FilesLegal /\ T0sPassed /\ RangesKept BY DEF KeptInv, KnownSame
<1>2. phase \in Busy /\ phase \in Prepared BY DEF Busy, Prepared
<1>3. UsersRanges BY <1>1, <1>2, UsersRangesAre DEF FilesLegal
<1>4. t0s = TheT0s BY <1>1, <1>2 DEF T0sPassed
<1>5. run \in Block BY <1>1, <1>2 DEF Sessions, BlocksTyped
<1>6. FileAs(file) /\ RunAs(file, run, global) BY <1>1, <1>2 DEF RangesKept, RangesAs
<1> QED BY <1>3, <1>4, <1>5, <1>6 DEF KnownRanges, FileAs, RunAs

(* EstimateBkg and GetProperDataRange: what is filled in in the RUN block. *)
LEMMA RangeFilled ==
  ASSUME NEW f, NEW b, NEW c, NEW d, FitOf(c) = FitOf(b)
  PROVE  /\ RunAs(f, b, d) /\ c.data \in {b.data, FilledData} => RunAs(f, c, d)
         /\ RunAgain(f, b) /\ c.bkg \in {b.bkg, FilledBkg} /\ c.t0 = b.t0 /\ c.addT0 = b.addT0 => RunAgain(f, c)
<1>1. SameFit(b, UsersRun) => SameFit(c, UsersRun) BY SameFitAs
<1>2. RunAs(f, b, d) /\ c.data \in {b.data, FilledData} => RunAs(f, c, d) BY <1>1 DEF RunAs
<1>3. ASSUME RunAgain(f, b), c.bkg \in {b.bkg, FilledBkg}, c.t0 = b.t0, c.addT0 = b.addT0
      PROVE  RunAgain(f, c)
  <2>1. Known(c) BY <1>3 DEF RunAgain, Known
  <2>2. AddT0sMatch(setup.addRuns, c) BY <1>3 DEF RunAgain, AddT0sMatch
  <2> QED BY <1>3, <2>1, <2>2 DEF RunAgain
<1> QED BY <1>2, <1>3

LEMMA BkgOnly ==
  ASSUME NEW b \in Block, NEW c, c = WithBkg(b)
  PROVE  c.data = b.data /\ FitOf(c) = FitOf(b)
<1>1. PICK x : c = b \/ c = [b EXCEPT !.bkg = x] BY DEF WithBkg
<1>2. c.data = b.data /\ c.inBins = b.inBins /\ c.offset = b.offset /\ c.time = b.time BY <1>1 DEF Block
<1> QED BY <1>2 DEF FitOf

LEMMA EstimateBkgKept ==
  ASSUME KeptInv, EstimateBkg
  PROVE  FilesLegal' /\ KnownSame'
<1>1. /\ phase = "background" /\ phase' \in {"bins", "data", "failed"}
      /\ phase' = "bins" => setup.single
      /\ phase' = "data" => ~setup.single
      /\ setup' = setup /\ user' = user /\ file' = file /\ session' = session /\ before' = before
      /\ global' = global /\ t0s' = t0s /\ addT0s' = addT0s /\ good' = good /\ fitTime' = fitTime
      /\ (setup.bkgKnown /\ run' = run) \/ (~setup.bkgKnown /\ run' = WithBkg(run))
      /\ phase' # "failed" =>
           setup.bkgKnown \/ \A side \in Sides : \A i \in 1..2 : InBounds(BkgInterval(run', side)[i])
  BY DEF EstimateBkg
<1>2. Sessions /\ FilesLegal /\ KnownSame BY DEF KeptInv
<1>3. Fixed BY <1>1 DEF Fixed
<1>4. phase \in Busy /\ phase' \in Busy /\ phase \in Prepared \ {"failed"} /\ phase' \in Prepared
  BY <1>1 DEF Busy, Prepared
<1>5. FilesLegal' BY <1>1, <1>2, <1>3, <1>4, LegalKept
<1>6. T0sPassed => T0sPassed' BY <1>1, <1>3, <1>4, T0sPassedKept
<1>7. run \in Block BY <1>2, <1>4 DEF Sessions, BlocksTyped
<1>8. run'.t0 = run.t0 /\ run'.addT0 = run.addT0 BY <1>2, EstimateBkgSessions
<1>9. PICK f, c, g : f = file /\ c = run' /\ g = global OBVIOUS
<1>10. f = file' /\ g = global' BY <1>1, <1>9
<1>11. c.data = run.data /\ FitOf(c) = FitOf(run) BY <1>1, <1>7, <1>9, BkgOnly
<1>12. /\ DataInside' <=> DataInside
       /\ BkgInside' <=> BkgInside
       /\ OffsetsPassed' <=> OffsetsPassed
       /\ TheGood' = TheGood /\ TheTimes' = TheTimes /\ TheFound' = TheFound
  BY <1>3, MeantFixed
<1>13. /\ Ranged' => Ranged
       /\ phase' = "bins" \/ (phase' = "background" /\ setup'.single) => phase = "background" /\ setup.single
       /\ phase' \notin {"done", "commanded"}
  BY <1>1 DEF Ranged
<1>14. ASSUME RangesKept PROVE RangesKept'
  <2>1. /\ FileAs(f) /\ RunAs(f, run, g)
        /\ session > 1 \/ Ranged => DataInside
        /\ Ranged => good = TheGood
        /\ OffsetsPassed =>
             /\ phase = "background" /\ setup.single => fitTime = TheTimes
             /\ session > 1 => before = TheFound
    BY <1>4, <1>9, <1>14 DEF RangesKept, RangesAs, FoundSame
  <2>2. FileAs(file)' BY <1>3, <1>10, <2>1, FileIs
  <2>3. RunAs(file, run, global)'
    <3>1. RunAs(f, c, g) BY <1>11, <2>1, RangeFilled
    <3> QED BY <1>3, <1>9, <1>10, <3>1, RunIs
  <2>4. RangesAs' BY <1>1, <1>12, <1>13, <2>1, <2>2, <2>3 DEF RangesAs
  <2>5. FoundSame' BY <1>1, <1>12, <1>13, <2>1 DEF FoundSame
  <2> QED BY <2>4, <2>5 DEF RangesKept
<1>15. ASSUME Complete, RangesPass, LinesPass, AgainKept PROVE AgainKept'
  <2>1. FileAgain(f) /\ RunAgain(f, run) /\ (session > 1 => BkgInside /\ Legal(file, setup.single, setup.addRuns))
    BY <1>4, <1>9, <1>15 DEF AgainKept
  <2>2. UsersRanges /\ t0s = TheT0s BY <1>4, <1>15, RangesAreMeant DEF KnownRanges
  <2>3. run.bkg \in {UsersRun.bkg, FilledBkg} BY <2>1 DEF FileAgain, RunAgain
  <2>4. CASE setup.bkgKnown
    <3>1. BkgInside BY <2>4 DEF BkgInside
    <3>2. c = run BY <1>1, <1>9, <2>4
    <3>3. RunAgain(file, run)' BY <1>3, <1>9, <1>10, <2>1, <3>2, RunIs
    <3>4. FileAgain(file)' BY <1>3, <1>10, <2>1, FileIs
    <3>5. Legal(file, setup.single, setup.addRuns)' <=> Legal(file, setup.single, setup.addRuns) BY <1>1
    <3> QED BY <1>1, <1>12, <2>1, <3>1, <3>3, <3>4, <3>5 DEF AgainKept
  <2>5. CASE ~setup.bkgKnown
    <3>1. c = WithBkg(run) BY <1>1, <1>9, <2>5
    <3>2. c.bkg = FilledBkg BY <1>7, <2>2, <2>3, <2>5, <3>1, WithBkgFills
    <3>3. RunAgain(f, c) BY <1>8, <1>9, <1>11, <2>1, <3>2, RangeFilled
    <3>4. RunAgain(file, run)' BY <1>3, <1>9, <1>10, <3>3, RunIs
    <3>5. FileAgain(file)' BY <1>3, <1>10, <2>1, FileIs
    <3>6. phase' # "failed" => BkgInside
      <4>1. PICK e : e = [bkg |-> FilledBkg] OBVIOUS
      <4>2. c.bkg = e.bkg BY <3>2, <4>1
      <4>3. \A side : BkgInterval(c, side) = BkgInterval(e, side) BY <4>2, IntervalOf
      <4> QED BY <1>1, <1>9, <4>1, <4>3 DEF BkgInside
    <3>7. BkgFound' => phase' # "failed" BY <1>1 DEF BkgFound
    <3>8. Legal(file, setup.single, setup.addRuns)' <=> Legal(file, setup.single, setup.addRuns) BY <1>1
    <3> QED BY <1>1, <1>12, <2>1, <3>4, <3>5, <3>6, <3>7, <3>8 DEF AgainKept
  <2> QED BY <2>4, <2>5
<1>16. KnownSame' BY <1>2, <1>3, <1>6, <1>14, <1>15, KnownSameStep DEF KnownSame
<1> QED BY <1>5, <1>16

LEMMA DataRangeKept ==
  ASSUME KeptInv, GetProperDataRange
  PROVE  FilesLegal' /\ KnownSame'
<1>1. /\ phase = "data" /\ phase' \in {"range", "failed"}
      /\ setup' = setup /\ user' = user /\ file' = file /\ session' = session /\ before' = before
      /\ global' = global /\ t0s' = t0s /\ addT0s' = addT0s
      /\ run' = WithData(run)
      /\ phase' = "range" => (\A side \in Sides : Ordered(side)[1] <= Size) /\ good' = GoodBins
  BY DEF GetProperDataRange
<1>2. Sessions /\ FilesLegal /\ KnownSame BY DEF KeptInv
<1>3. Fixed BY <1>1 DEF Fixed
<1>4. phase \in Busy /\ phase' \in Busy /\ phase \in Prepared \ {"failed"} /\ phase' \in Prepared
  BY <1>1 DEF Busy, Prepared
<1>5. FilesLegal' BY <1>1, <1>2, <1>3, <1>4, LegalKept
<1>6. T0sPassed => T0sPassed' BY <1>1, <1>3, <1>4, T0sPassedKept
<1>7. run'.t0 = run.t0 /\ run'.addT0 = run.addT0 BY <1>2, DataRangeSessions
<1>8. PICK f, c, g : f = file /\ c = run' /\ g = global OBVIOUS
<1>9. f = file' /\ g = global' /\ c = WithData(run) BY <1>1, <1>8
<1>10. /\ DataInside' <=> DataInside
       /\ BkgInside' <=> BkgInside
       /\ OffsetsPassed' <=> OffsetsPassed
       /\ TheGood' = TheGood /\ TheTimes' = TheTimes /\ TheFound' = TheFound
  BY <1>3, MeantFixed
<1>11. /\ Ranged' => phase' = "range"
       /\ ~(phase' = "bins" \/ (phase' = "background" /\ setup'.single))
       /\ phase' \notin {"done", "commanded"}
       /\ BkgFound' => BkgFound
  BY <1>1 DEF Ranged, BkgFound
<1>12. ASSUME Complete, RangesPass PROVE KnownRanges BY <1>4, <1>12, RangesAreMeant
<1>13. ASSUME Complete, RangesPass, RangesKept PROVE RangesKept'
  <2>1. /\ FileAs(f) /\ RunAs(f, run, g)
        /\ session > 1 => DataInside
        /\ OffsetsPassed /\ session > 1 => before = TheFound
    BY <1>4, <1>8, <1>13 DEF RangesKept, RangesAs, FoundSame
  <2>2. FileAs(file)' BY <1>3, <1>9, <2>1, FileIs
  <2>3. c.data = FilledData /\ FitOf(c) = FitOf(run) BY <1>9, <1>12, <1>13, WithDataFills
  <2>4. RunAs(file, run, global)'
    <3>1. RunAs(f, c, g) BY <2>1, <2>3, RangeFilled
    <3> QED BY <1>3, <1>8, <1>9, <3>1, RunIs
  <2>5. phase' = "range" => DataInside /\ good' = TheGood
    <3>1. \A side \in Sides : Ordered(side) = EndsFrom(TheData, side) BY <1>12, <1>13, OrderedAs
    <3>2. GoodBins = TheGood BY <1>12, <1>13, GoodAs
    <3> QED BY <1>1, <3>1, <3>2 DEF DataInside
  <2>6. RangesAs' BY <1>1, <1>10, <1>11, <2>1, <2>2, <2>4, <2>5 DEF RangesAs
  <2>7. FoundSame' BY <1>1, <1>10, <1>11, <2>1 DEF FoundSame
  <2> QED BY <2>6, <2>7 DEF RangesKept
<1>14. ASSUME Complete, RangesPass, AgainKept PROVE AgainKept'
  <2>1. /\ FileAgain(f) /\ RunAgain(f, run)
        /\ session > 1 \/ BkgFound => BkgInside
        /\ session > 1 => Legal(file, setup.single, setup.addRuns)
    BY <1>4, <1>8, <1>14 DEF AgainKept
  <2>2. c.bkg = run.bkg /\ FitOf(c) = FitOf(run) BY <1>9, <1>12, <1>14, WithDataFills
  <2>3. RunAgain(f, c) BY <1>7, <1>8, <2>1, <2>2, RangeFilled
  <2>4. RunAgain(file, run)' BY <1>3, <1>8, <1>9, <2>3, RunIs
  <2>5. FileAgain(file)' BY <1>3, <1>9, <2>1, FileIs
  <2>6. Legal(file, setup.single, setup.addRuns)' <=> Legal(file, setup.single, setup.addRuns) BY <1>1
  <2> QED BY <1>1, <1>10, <1>11, <2>1, <2>4, <2>5, <2>6 DEF AgainKept
<1>15. KnownSame' BY <1>2, <1>3, <1>6, <1>13, <1>14, KnownSameStep DEF KnownSame
<1> QED BY <1>5, <1>15

(* Steps that leave the files and blocks and the good bins as they are.    *)
LEMMA BlocksKept ==
  ASSUME Fixed, file' = file, run' = run, global' = global, session' = session,
         phase \in Busy, phase' \in Busy
  PROVE  /\ RangesAs /\ good' = good /\ (Ranged' => Ranged) => RangesAs'
         /\ AgainKept /\ (BkgFound' => BkgFound) => AgainKept'
<1>1. (DataInside' <=> DataInside) /\ (BkgInside' <=> BkgInside) /\ TheGood' = TheGood BY MeantFixed
<1>2. PICK f, b, g : f = file /\ b = run /\ g = global OBVIOUS
<1>3. f = file' /\ b = run' /\ g = global' BY <1>2
<1>4. ASSUME RangesAs, good' = good, Ranged' => Ranged PROVE RangesAs'
  <2>1. FileAs(f) /\ RunAs(f, b, g) BY <1>2, <1>4 DEF RangesAs
  <2>2. FileAs(file)' /\ RunAs(file, run, global)' BY <1>3, <2>1, FileIs, RunIs
  <2> QED BY <1>1, <1>4, <2>2 DEF RangesAs
<1>5. ASSUME AgainKept, BkgFound' => BkgFound PROVE AgainKept'
  <2>1. FileAgain(f) /\ RunAgain(f, b) BY <1>2, <1>5 DEF AgainKept
  <2>2. FileAgain(file)' /\ RunAgain(file, run)' BY <1>3, <2>1, FileIs, RunIs
  <2>3. Legal(file, setup.single, setup.addRuns)' <=> Legal(file, setup.single, setup.addRuns) BY DEF Fixed
  <2> QED BY <1>1, <1>5, <2>2, <2>3 DEF AgainKept
<1> QED BY <1>4, <1>5

LEMMA TheTimesAre ==
  ASSUME OffsetsPassed, RunAs(file, run, global), UsersRun \in Block, UsersGlobal \in Block,
         good = TheGood, t0s = TheT0s
  PROVE  TimesFrom(good, t0s, run, global) = TheTimes
<1>1. PICK u, v, b, c, g, t : /\ u = UsersRun /\ v = UsersGlobal /\ b = run /\ c = global
                              /\ g = TheGood /\ t = TheT0s
  OBVIOUS
<1>2. SameFit(b, u) /\ SameFit(c, v) BY <1>1 DEF RunAs
<1>3. \A x \in {u, v} : x.inBins => x.offset[1] >= 0 /\ x.offset[2] > 0 BY <1>1 DEF OffsetsPassed
<1>4. u.inBins \in BOOLEAN /\ v.inBins \in BOOLEAN BY <1>1, RangesIs
<1>5. TimesFrom(g, t, b, c) = TimesFrom(g, t, u, v) BY <1>2, <1>3, <1>4, SameTimes
<1> QED BY <1>1, <1>5 DEF TheTimes

LEMMA FitRangeKept ==
  ASSUME KeptInv, GetProperFitRange
  PROVE  FilesLegal' /\ KnownSame'
<1>1. /\ phase = "range" /\ phase' \in {"background", "bins"} /\ (phase' = "background" <=> setup.single)
      /\ setup' = setup /\ user' = user /\ file' = file /\ session' = session /\ before' = before
      /\ run' = run /\ global' = global /\ t0s' = t0s /\ addT0s' = addT0s /\ good' = good
      /\ fitTime' = IF Undefined \in {ProperFitRange[1], ProperFitRange[2]} THEN InBinsOf(0, 0)
                      ELSE ProperFitRange
  BY DEF GetProperFitRange
<1>2. Sessions /\ FilesLegal /\ KnownSame BY DEF KeptInv
<1>3. Fixed BY <1>1 DEF Fixed
<1>4. phase \in Busy /\ phase' \in Busy /\ phase \in Prepared \ {"failed"} /\ phase' \in Prepared
  BY <1>1 DEF Busy, Prepared
<1>5. FilesLegal' BY <1>1, <1>2, <1>3, <1>4, LegalKept
<1>6. T0sPassed => T0sPassed' BY <1>1, <1>3, <1>4, T0sPassedKept
<1>7. Ranged /\ (BkgFound' => BkgFound) /\ phase' \notin {"done", "commanded"} BY <1>1 DEF Ranged, BkgFound
<1>8. ASSUME Complete, RangesPass, RangesKept PROVE RangesKept'
  <2>1. RangesAs /\ FoundSame BY <1>8 DEF RangesKept
  <2>2. RangesAs' BY <1>1, <1>3, <1>4, <1>7, <2>1, BlocksKept
  <2>3. /\ OffsetsPassed' <=> OffsetsPassed
        /\ TheTimes' = TheTimes /\ TheFound' = TheFound
    BY <1>3, MeantFixed
  <2>4. ASSUME OffsetsPassed PROVE fitTime' = TheTimes
    <3>1. good = TheGood /\ RunAs(file, run, global) BY <1>4, <1>7, <2>1 DEF RangesAs
    <3>2. t0s = TheT0s /\ UsersRun \in Block /\ UsersGlobal \in Block
      BY <1>4, <1>8, RangesAreMeant DEF KnownRanges, UsersRanges
    <3>3. TimesFrom(good, t0s, run, global) = TheTimes BY <2>4, <3>1, <3>2, TheTimesAre
    <3> QED BY <1>1, <3>3, TimesAs
  <2>5. FoundSame' BY <1>1, <1>7, <2>1, <2>3, <2>4 DEF FoundSame
  <2> QED BY <2>2, <2>5 DEF RangesKept
<1>9. AgainKept => AgainKept' BY <1>1, <1>3, <1>4, <1>7, BlocksKept
<1>10. KnownSame' BY <1>2, <1>3, <1>6, <1>8, <1>9, KnownSameStep DEF KnownSame
<1> QED BY <1>5, <1>10

(* What has been found is what is meant.                                   *)
LEMMA FoundIs ==
  ASSUME KeptInv, Complete, RangesPass, OffsetsPassed, PrepareFitData
  PROVE  before' = TheFound
<1>1. /\ phase = "bins"
      /\ bins' = NoOfFitBins(MinOf({NoOfData(side) : side \in Sides}))
      /\ before' = [Found EXCEPT !.bins = bins']
  BY DEF PrepareFitData
<1>2. Sessions /\ T0sPassed /\ RangesKept BY DEF KeptInv, KnownSame
<1>3. phase \in Prepared /\ Ranged BY <1>1 DEF Prepared, Ranged
<1>4. t0s = TheT0s /\ addT0s = TheAddT0s BY <1>2, <1>3 DEF T0sPassed
<1>5. good = TheGood BY <1>2, <1>3 DEF RangesKept, RangesAs
<1>6. fitTime = TheTimes BY <1>1, <1>2 DEF RangesKept, FoundSame
<1>7. bins' = BinsFrom(TheGood, TheT0s, TheTimes) BY <1>1, <1>4, <1>5, <1>6, BinsAs
<1>8. before' = [t0s |-> t0s, addT0s |-> addT0s, good |-> good, fitTime |-> fitTime, bins |-> bins']
  BY <1>1 DEF Found
<1> QED BY <1>4, <1>5, <1>6, <1>7, <1>8 DEF TheFound

LEMMA FitDataKept ==
  ASSUME KeptInv, PrepareFitData
  PROVE  FilesLegal' /\ KnownSame'
<1>1. /\ phase = "bins" /\ phase' = "done"
      /\ setup' = setup /\ user' = user /\ file' = file /\ session' = session
      /\ run' = run /\ global' = global /\ t0s' = t0s /\ addT0s' = addT0s /\ good' = good
      /\ before' = [Found EXCEPT !.bins = bins']
  BY DEF PrepareFitData
<1>2. Sessions /\ FilesLegal /\ KnownSame BY DEF KeptInv
<1>3. Fixed BY <1>1 DEF Fixed
<1>4. phase \in Busy /\ phase' \in Busy /\ phase \in Prepared \ {"failed"} /\ phase' \in Prepared
  BY <1>1 DEF Busy, Prepared
<1>5. FilesLegal' BY <1>1, <1>2, <1>3, <1>4, LegalKept
<1>6. ASSUME T0sPassed PROVE T0sPassed'
  <2>1. (Inside' <=> Inside) /\ TheT0s' = TheT0s /\ TheAddT0s' = TheAddT0s BY <1>3, MeantFixed
  <2>2. Inside /\ t0s = TheT0s /\ addT0s = TheAddT0s BY <1>4, <1>6 DEF T0sPassed
  <2>3. before'.t0s = t0s BY <1>1 DEF Found
  <2> QED BY <1>1, <2>1, <2>2, <2>3 DEF T0sPassed
<1>7. Ranged /\ BkgFound BY <1>1 DEF Ranged, BkgFound
<1>8. ASSUME Complete, RangesPass, RangesKept PROVE RangesKept'
  <2>1. RangesAs BY <1>8 DEF RangesKept
  <2>2. RangesAs' BY <1>1, <1>3, <1>4, <1>7, <2>1, BlocksKept
  <2>3. (OffsetsPassed' <=> OffsetsPassed) /\ TheFound' = TheFound BY <1>3, MeantFixed
  <2>4. OffsetsPassed => before' = TheFound BY <1>8, FoundIs
  <2>5. FoundSame' BY <1>1, <2>3, <2>4 DEF FoundSame
  <2> QED BY <2>2, <2>5 DEF RangesKept
<1>9. AgainKept => AgainKept' BY <1>1, <1>3, <1>4, <1>7, BlocksKept
<1>10. KnownSame' BY <1>2, <1>3, <1>6, <1>8, <1>9, KnownSameStep DEF KnownSame
<1> QED BY <1>5, <1>10

LEMMA CommandKept ==
  ASSUME KeptInv, FitRangeBin \/ CalcNoOfFitBins
  PROVE  FilesLegal' /\ KnownSame'
<1>1. /\ phase \in {"done", "commanded"} /\ phase' \in {"done", "commanded"}
      /\ setup' = setup /\ user' = user /\ file' = file /\ session' = session /\ before' = before
      /\ run' = run /\ global' = global /\ t0s' = t0s /\ addT0s' = addT0s /\ good' = good
  BY DEF FitRangeBin, CalcNoOfFitBins
<1>2. Sessions /\ FilesLegal /\ KnownSame BY DEF KeptInv
<1>3. Fixed BY <1>1 DEF Fixed
<1>4. phase \in Busy /\ phase' \in Busy /\ phase \in Prepared \ {"failed"} /\ phase' \in Prepared
  BY <1>1 DEF Busy, Prepared
<1>5. FilesLegal' BY <1>1, <1>2, <1>3, <1>4, LegalKept
<1>6. T0sPassed => T0sPassed' BY <1>1, <1>3, <1>4, T0sPassedKept
<1>7. Ranged /\ BkgFound BY <1>1 DEF Ranged, BkgFound
<1>8. ASSUME RangesKept PROVE RangesKept'
  <2>1. RangesAs /\ FoundSame BY <1>8 DEF RangesKept
  <2>2. RangesAs' BY <1>1, <1>3, <1>4, <1>7, <2>1, BlocksKept
  <2>3. (OffsetsPassed' <=> OffsetsPassed) /\ TheFound' = TheFound BY <1>3, MeantFixed
  <2>4. FoundSame' BY <1>1, <2>1, <2>3 DEF FoundSame
  <2> QED BY <2>2, <2>4 DEF RangesKept
<1>9. AgainKept => AgainKept' BY <1>1, <1>3, <1>4, <1>7, BlocksKept
<1>10. KnownSame' BY <1>2, <1>3, <1>6, <1>8, <1>9, KnownSameStep DEF KnownSame
<1> QED BY <1>5, <1>10

LEMMA NothingKept ==
  ASSUME KeptInv, UNCHANGED vars
  PROVE  FilesLegal' /\ KnownSame'
<1>1. /\ phase' = phase /\ setup' = setup /\ user' = user /\ file' = file /\ session' = session
      /\ before' = before /\ run' = run /\ global' = global /\ t0s' = t0s /\ addT0s' = addT0s
      /\ good' = good /\ fitTime' = fitTime
  BY DEF vars
<1>2. FilesLegal /\ KnownSame BY DEF KeptInv
<1>3. Fixed BY <1>1 DEF Fixed
<1>4. FilesLegal' BY <1>1, <1>2 DEF FilesLegal
<1>5. /\ Inside' <=> Inside
      /\ DataInside' <=> DataInside
      /\ BkgInside' <=> BkgInside
      /\ OffsetsPassed' <=> OffsetsPassed
      /\ TheT0s' = TheT0s /\ TheAddT0s' = TheAddT0s
      /\ TheGood' = TheGood /\ TheTimes' = TheTimes /\ TheFound' = TheFound
  BY <1>3, MeantFixed
<1>6. (Ranged' <=> Ranged) /\ (BkgFound' <=> BkgFound) BY <1>1 DEF Ranged, BkgFound
<1>7. T0sPassed => T0sPassed' BY <1>1, <1>5 DEF T0sPassed
<1>8. PICK f, b, g : f = file /\ b = run /\ g = global OBVIOUS
<1>9. f = file' /\ b = run' /\ g = global' BY <1>1, <1>8
<1>10. /\ FileAs(f) => FileAs(file)'
       /\ FileAgain(f) => FileAgain(file)'
       /\ RunAs(f, b, g) => RunAs(file, run, global)'
       /\ RunAgain(f, b) => RunAgain(file, run)'
  BY <1>3, <1>9, FileIs, RunIs
<1>11. RangesAs => RangesAs' BY <1>1, <1>5, <1>6, <1>8, <1>10 DEF RangesAs
<1>12. FoundSame => FoundSame' BY <1>1, <1>5 DEF FoundSame
<1>13. AgainKept => AgainKept'
  <2>1. Legal(file, setup.single, setup.addRuns)' <=> Legal(file, setup.single, setup.addRuns) BY <1>1
  <2> QED BY <1>1, <1>5, <1>6, <1>8, <1>10, <2>1 DEF AgainKept
<1>14. KnownSame' BY <1>2, <1>3, <1>7, <1>11, <1>12, <1>13, KnownSameStep DEF KnownSame, RangesKept
<1> QED BY <1>4, <1>14

-----------------------------------------------------------------------------
(* WriteMsrLogFile: what it writes is read again as what is known.         *)

LEMMA FitRangeAgain ==
  ASSUME NEW single, NEW u, NEW v, NEW b, NEW c, HasFitRange(single, u, v), SameFit(b, u), SameFit(c, v),
         u.inBins \in BOOLEAN, v.inBins \in BOOLEAN, v.inBins => ~InTime(v)
  PROVE  HasFitRange(single, b, c)
<1>1. b.inBins = u.inBins /\ (~u.inBins => b.time = u.time) BY DEF SameFit
<1>2. c.inBins = v.inBins /\ (~v.inBins => c.time = v.time) BY DEF SameFit
<1>3. CASE u.inBins BY <1>1, <1>3 DEF HasFitRange
<1>4. CASE ~u.inBins /\ InTime(u)
  <2>1. InTime(b) BY <1>1, <1>4 DEF InTime
  <2> QED BY <2>1 DEF HasFitRange
<1>5. CASE InTime(v)
  <2>1. InTime(c) BY <1>2, <1>5 DEF InTime
  <2> QED BY <2>1 DEF HasFitRange
<1>6. CASE single /\ v.inBins BY <1>2, <1>6 DEF HasFitRange
<1> QED BY <1>3, <1>4, <1>5, <1>6 DEF HasFitRange

(* What holds when a session writes its file.                              *)
AtEnd ==
  /\ Fixed /\ setup \in Setups /\ phase = "done" /\ user.global \in Seq(Lines)
  /\ file.run \in Seq(Lines) /\ file.global \in Seq(Lines)
  /\ Writable(file.run, run) /\ global \in Block /\ NoEmpty(run.addT0)
  /\ UsersRanges /\ Legal(user, setup.single, setup.addRuns) /\ Legal(file, setup.single, setup.addRuns)
  /\ FileAs(file) /\ RunAs(file, run, global)

LEMMA EndIs ==
  ASSUME KeptInv, Complete, RangesPass, WriteMsrLogFile
  PROVE  AtEnd
<1>1. phase = "done" /\ setup' = setup /\ user' = user BY DEF WriteMsrLogFile
<1>2. Fixed BY <1>1 DEF Fixed
<1>3. phase \in Busy /\ phase \in Prepared /\ phase \in Prepared \ {"failed"} BY <1>1 DEF Busy, Prepared
<1>4. Sessions /\ AsMeant /\ FilesLegal /\ RangesKept BY DEF KeptInv, KnownSame
<1>5. /\ setup \in Setups /\ file.run \in Seq(Lines) /\ file.global \in Seq(Lines)
      /\ user.global \in Seq(Lines) /\ Writable(file.run, run) /\ global \in Block
  BY <1>3, <1>4 DEF Sessions, FilesTyped, BlocksTyped
<1>6. NoEmpty(run.addT0) BY <1>3, <1>4 DEF AsMeant, RunAsMeant
<1>7. UsersRanges BY <1>3, RangesAreMeant DEF KnownRanges
<1>8. Legal(user, setup.single, setup.addRuns) /\ Legal(file, setup.single, setup.addRuns)
  BY <1>3, <1>4 DEF FilesLegal
<1>9. FileAs(file) /\ RunAs(file, run, global) BY <1>3, <1>4 DEF RangesKept, RangesAs
<1> QED BY <1>1, <1>2, <1>5, <1>6, <1>7, <1>8, <1>9 DEF AtEnd

(* A range of the RUN block is written and read again, or was read before; *)
(* x is what the user gave, y what has been filled in.                     *)
LEMMA RunRangesWritten ==
  ASSUME AtEnd, NEW word \in RangeWords, NEW x, NEW y,
         RangeIn(ReadBlock(file.run), word) \in {x, y}, RangeIn(run, word) \in {RangeIn(ReadBlock(file.run), word), y},
         y[1] = None => x[1] = None, y[1] # None => PairedRange(y)
  PROVE  /\ RangeIn(ReadBlock(WriteRun(file.run, run, setup.isis)), word) \in {x, y}
         /\ RangeIn(run, word)[1] # None => PairedRange(RangeIn(run, word))
         /\ RangeIn(run, word)[1] = None => ~Has(file.run, word)
<1>1. PICK lines, b, isis : lines = file.run /\ b = run /\ isis = setup.isis OBVIOUS
<1>2. lines \in Seq(Lines) /\ Writable(lines, b) /\ isis \in BOOLEAN BY <1>1, SetupIs DEF AtEnd
<1>3. \A i \in DOMAIN lines : LegalLine(lines[i]) BY <1>1 DEF AtEnd, Legal
<1>4. RangeIn(ReadBlock(lines), word) \in {x, y} /\ RangeIn(b, word) \in {RangeIn(ReadBlock(lines), word), y}
  BY <1>1
<1>5. PICK r, z : r = RangeIn(ReadBlock(lines), word) /\ z = RangeIn(b, word) OBVIOUS
<1>6. PairedRange(r) BY <1>2, <1>3, <1>5, LegalRanges
<1>7. Has(lines, word) => r[1] # None BY <1>2, <1>3, <1>5, LegalHas
<1>8. z \in {r, y} /\ r \in {x, y} BY <1>4, <1>5
<1>9. z[1] # None => PairedRange(z) BY <1>6, <1>8
<1>10. z[1] = None => ~Has(lines, word) BY <1>7, <1>8
<1>11. RangeIn(ReadBlock(WriteRun(lines, b, isis)), word) \in {z, r}
  BY <1>2, <1>3, <1>5, <1>9, <1>10, RangeWrittenAs
<1>12. RangeIn(ReadBlock(WriteRun(lines, b, isis)), word) \in {x, y} BY <1>8, <1>11
<1> QED BY <1>1, <1>5, <1>9, <1>10, <1>12

LEMMA DataWritten ==
  ASSUME AtEnd, RangesPass
  PROVE  /\ ReadBlock(WriteRun(file.run, run, setup.isis)).data \in {UsersRun.data, FilledData}
         /\ run.data[1] # None => PairedRange(run.data)
         /\ run.data[1] = None => ~Has(file.run, "data")
<1>1. PICK x, y, r : x = UsersRun.data /\ y = FilledData /\ r = ReadBlock(file.run) OBVIOUS
<1>2. \A b : RangeIn(b, "data") = b.data BY DEF RangeIn
<1>3. "data" \in RangeWords BY DEF RangeWords
<1>4. UsersRanges BY DEF AtEnd
<1>5. (y[1] = None => x[1] = None) /\ (y[1] # None => PairedRange(y)) BY <1>1, <1>4, FilledDataIs
<1>6. r.data \in {x, y} /\ run.data \in {r.data, y} BY <1>1 DEF AtEnd, FileAs, RunAs
<1>7. RangeIn(r, "data") \in {x, y} /\ RangeIn(run, "data") \in {RangeIn(r, "data"), y} BY <1>2, <1>6
<1>8. /\ RangeIn(ReadBlock(WriteRun(file.run, run, setup.isis)), "data") \in {x, y}
      /\ RangeIn(run, "data")[1] # None => PairedRange(RangeIn(run, "data"))
      /\ RangeIn(run, "data")[1] = None => ~Has(file.run, "data")
  BY <1>1, <1>3, <1>5, <1>7, RunRangesWritten
<1> QED BY <1>1, <1>2, <1>8

LEMMA BkgWritten ==
  ASSUME AtEnd, RangesPass, LinesPass, FileAgain(file), RunAgain(file, run)
  PROVE  /\ ReadBlock(WriteRun(file.run, run, setup.isis)).bkg \in {UsersRun.bkg, FilledBkg}
         /\ run.bkg[1] # None => PairedRange(run.bkg)
         /\ run.bkg[1] = None => ~Has(file.run, "background")
<1>1. PICK x, y, r : x = UsersRun.bkg /\ y = FilledBkg /\ r = ReadBlock(file.run) OBVIOUS
<1>2. \A b : RangeIn(b, "background") = b.bkg BY DEF RangeIn
<1>3. "background" \in RangeWords BY DEF RangeWords
<1>4. UsersRanges BY DEF AtEnd
<1>5. (y[1] = None => x[1] = None) /\ (y[1] # None => PairedRange(y)) BY <1>1, <1>4, FilledBkgIs
<1>6. r.bkg \in {x, y} /\ run.bkg \in {r.bkg, y} BY <1>1 DEF FileAgain, RunAgain
<1>7. RangeIn(r, "background") \in {x, y} /\ RangeIn(run, "background") \in {RangeIn(r, "background"), y}
  BY <1>2, <1>6
<1>8. /\ RangeIn(ReadBlock(WriteRun(file.run, run, setup.isis)), "background") \in {x, y}
      /\ RangeIn(run, "background")[1] # None => PairedRange(RangeIn(run, "background"))
      /\ RangeIn(run, "background")[1] = None => ~Has(file.run, "background")
  BY <1>1, <1>3, <1>5, <1>7, RunRangesWritten
<1> QED BY <1>1, <1>2, <1>8

LEMMA FitsWritten ==
  ASSUME AtEnd, RangesPass
  PROVE  /\ SameFit(ReadBlock(WriteRun(file.run, run, setup.isis)), UsersRun)
         /\ Len(WriteFit(run).n) = 2
         /\ SameFit(ReadBlock(WriteGlobal(file.global, global)), UsersGlobal)
         /\ ReadBlock(WriteGlobal(file.global, global)).data = UsersGlobal.data
         /\ Len(WriteFit(global).n) = 2
         /\ PairedRange(global.data)
         /\ HasAny(file.global, {"data"}) => global.data[1] # None
<1>1. PICK u, v, b, c, lines, g, isis : /\ u = UsersRun /\ v = UsersGlobal /\ b = run /\ c = global
                                        /\ lines = file.run /\ g = file.global /\ isis = setup.isis
  OBVIOUS
<1>2. /\ u \in Block /\ v \in Block /\ b \in Block /\ c \in Block
      /\ lines \in Seq(Lines) /\ g \in Seq(Lines) /\ Writable(lines, b) /\ isis \in BOOLEAN
  BY <1>1, SetupIs DEF AtEnd, UsersRanges, Writable
<1>3. FitPassed(u) /\ FitPassed(v) BY <1>1 DEF RangesPass, FitPassed
<1>4. SameFit(ReadBlock(lines), u) /\ SameFit(b, u) /\ SameFit(ReadBlock(g), v) /\ SameFit(c, v)
  BY <1>1 DEF AtEnd, FileAs, RunAs
<1>5. SameFit(ReadBlock(WriteRun(lines, b, isis)), u) BY <1>2, <1>3, <1>4, FitWritten
<1>6. Len(WriteFit(b).n) = 2 /\ Len(WriteFit(c).n) = 2 BY <1>2, <1>3, <1>4, WrittenFit
<1>7. ReadBlock(g).data = c.data /\ c.data = v.data BY <1>1 DEF AtEnd, FileAs, RunAs
<1>8. PairedRange(c.data)
  <2>1. PICK x : x = v.data OBVIOUS
  <2>2. x \in [1..4 -> Int] BY <1>2, <2>1, RangesIs
  <2>3. GlobalRange(x) BY <1>1, <2>1 DEF AtEnd, UsersRanges
  <2>4. (\A i \in 1..4 : x[i] # 0) /\ (x[3] = None <=> x[4] = None) BY <1>1, <2>1 DEF RangesPass
  <2>5. PairedRange(x) BY <2>2, <2>3, <2>4, GlobalPaired
  <2> QED BY <1>7, <2>1, <2>5
<1>9. HasAny(g, {"data"}) => c.data[1] # None
  <2>1. \A i \in DOMAIN g : LegalGlobalLine(g[i]) BY <1>1 DEF AtEnd, Legal
  <2>2. HasAny(g, {"data"}) => ReadBlock(g).data[1] # None BY <1>2, <2>1, GlobalHas
  <2> QED BY <1>7, <2>2
<1>10. SameFit(ReadBlock(WriteGlobal(g, c)), v) /\ ReadBlock(WriteGlobal(g, c)).data = c.data
  BY <1>2, <1>3, <1>4, <1>7, <1>8, <1>9, GlobalWritten
<1> QED BY <1>1, <1>5, <1>6, <1>7, <1>8, <1>9, <1>10

LEMMA FileWrittenAs ==
  ASSUME AtEnd, RangesPass, NEW f, f.run = WriteRun(file.run, run, setup.isis), f.global = WriteGlobal(file.global, global)
  PROVE  FileAs(f)
<1>1. ReadBlock(f.run).data \in {UsersRun.data, FilledData} BY DataWritten
<1>2. /\ SameFit(ReadBlock(f.run), UsersRun) /\ SameFit(ReadBlock(f.global), UsersGlobal)
      /\ ReadBlock(f.global).data = UsersGlobal.data
  BY FitsWritten
<1> QED BY <1>1, <1>2 DEF FileAs

LEMMA FileWrittenAgain ==
  ASSUME AtEnd, RangesPass, LinesPass, FileAgain(file), RunAgain(file, run),
         NEW f, f.run = WriteRun(file.run, run, setup.isis), f.global = WriteGlobal(file.global, global)
  PROVE  FileAgain(f) /\ Legal(f, setup.single, setup.addRuns)
<1>1. PICK b, c, lines, g, isis, n : /\ b = run /\ c = global
                                     /\ lines = file.run /\ g = file.global /\ isis = setup.isis /\ n = setup.addRuns
  OBVIOUS
<1>2. PICK r, s : r = f.run /\ s = f.global OBVIOUS
<1>3. r = WriteRun(lines, b, isis) /\ s = WriteGlobal(g, c) BY <1>1, <1>2
<1>4. /\ b \in Block /\ c \in Block /\ n \in Nat
      /\ lines \in Seq(Lines) /\ g \in Seq(Lines) /\ Writable(lines, b) /\ isis \in BOOLEAN /\ NoEmpty(b.addT0)
  BY <1>1, SetupIs DEF AtEnd, Writable
<1>5. /\ Once(lines, FitWords) /\ Once(g, FitWords) /\ ~AddT0Behind(lines)
      /\ Known(b) /\ (Has(lines, "t0") => b.t0 # <<>>) /\ AddT0sMatch(n, b)
  BY <1>1 DEF FileAgain, RunAgain
<1>6. /\ \A i \in DOMAIN lines : LegalLine(lines[i])
      /\ \A i \in DOMAIN g : LegalGlobalLine(g[i])
      /\ AddT0sMatch(n, ReadBlock(lines))
  BY <1>1 DEF AtEnd, Legal
<1>7. FileAgain(f)
  <2>1. ReadBlock(r).bkg \in {UsersRun.bkg, FilledBkg} BY <1>2, BkgWritten
  <2>2. Tidy(lines, b, isis, Len(lines), r) BY <1>3, <1>4, <1>5, WrittenTidy
  <2>3. Once(r, FitWords) /\ ~AddT0Behind(r) BY <2>2 DEF Tidy
  <2>4. Once(s, FitWords) BY <1>3, <1>4, <1>5, GlobalOnce
  <2> QED BY <1>2, <2>1, <2>3, <2>4 DEF FileAgain
<1>8. \A i \in DOMAIN r : LegalLine(r[i])
  <2>1. r \in Seq(Lines) /\ \A i \in 1..Len(r) : r[i] \in OwnLines(lines, b) BY <1>3, <1>4, RunOwn
  <2>2. \A word \in RangeWords : /\ RangeIn(b, word)[1] # None => PairedRange(RangeIn(b, word))
                                 /\ RangeIn(b, word)[1] = None => ~Has(lines, word)
    <3>1. /\ b.data[1] # None => PairedRange(b.data)
          /\ b.data[1] = None => ~Has(lines, "data")
      BY <1>1, DataWritten
    <3>2. /\ b.bkg[1] # None => PairedRange(b.bkg)
          /\ b.bkg[1] = None => ~Has(lines, "background")
      BY <1>1, BkgWritten
    <3>3. RangeIn(b, "data") = b.data /\ RangeIn(b, "background") = b.bkg BY DEF RangeIn
    <3> QED BY <3>1, <3>2, <3>3 DEF RangeWords
  <2>3. Len(WriteFit(b).n) = 2 BY <1>1, FitsWritten
  <2>4. \A l \in OwnLines(lines, b) : LegalLine(l) BY <1>4, <1>5, <2>2, <2>3, OwnLegal
  <2>5. DOMAIN r = 1..Len(r) BY <2>1
  <2> QED BY <2>1, <2>4, <2>5
<1>9. \A i \in DOMAIN s : LegalGlobalLine(s[i])
  <2>1. Len(WriteFit(c).n) = 2 /\ PairedRange(c.data) /\ (HasAny(g, {"data"}) => c.data[1] # None)
    BY <1>1, FitsWritten
  <2> QED BY <1>3, <1>4, <1>6, <2>1, GlobalLegal
<1>10. HasFitRange(setup.single, ReadBlock(r), ReadBlock(s))
  <2>1. PICK u, v, x, y : u = UsersRun /\ v = UsersGlobal /\ x = ReadBlock(r) /\ y = ReadBlock(s) OBVIOUS
  <2>2. SameFit(x, u) /\ SameFit(y, v) BY <1>2, <2>1, FitsWritten
  <2>3. HasFitRange(setup.single, u, v) BY <2>1 DEF AtEnd, Legal, UsersRun, UsersGlobal
  <2>4. u.inBins \in BOOLEAN /\ v.inBins \in BOOLEAN BY <2>1, RangesIs DEF AtEnd, UsersRanges
  <2>5. v.inBins => ~InTime(v)
    <3>1. PICK t : t = user.global OBVIOUS
    <3>2. t \in Seq(Lines) /\ Once(t, FitWords) BY <3>1 DEF AtEnd, LinesPass, FitWords
    <3> QED BY <2>1, <3>1, <3>2, BinsOrTime DEF UsersGlobal
  <2> QED BY <2>1, <2>2, <2>3, <2>4, <2>5, FitRangeAgain
<1>11. AddT0sMatch(n, ReadBlock(r)) BY <1>3, <1>4, <1>5, <1>6, AddT0sMatchAgain
<1> QED BY <1>1, <1>2, <1>7, <1>8, <1>9, <1>10, <1>11 DEF Legal

LEMMA WriteKept ==
  ASSUME KeptInv, WriteMsrLogFile
  PROVE  FilesLegal' /\ KnownSame'
<1>1. /\ phase = "done" /\ phase' = "start" /\ session' = session + 1
      /\ setup' = setup /\ user' = user /\ before' = before
      /\ file' = [global |-> WriteGlobal(file.global, global), run |-> WriteRun(file.run, run, setup.isis)]
  BY DEF WriteMsrLogFile
<1>2. Sessions /\ FilesLegal /\ KnownSame BY DEF KeptInv
<1>3. Fixed BY <1>1 DEF Fixed
<1>4. phase \in Busy /\ phase \in Prepared \ {"failed"} BY <1>1 DEF Busy, Prepared
<1>5. session \in Nat \ {0} /\ session' > 1 /\ session' # 1
  <2>1. session \in 1..(MaxSessions + 1) BY <1>2 DEF Sessions, SessionsTyped
  <2> QED BY <1>1, <2>1, BinsAssumption
<1>6. phase' \notin Busy /\ phase' \notin Prepared BY <1>1 DEF Busy, Prepared
<1>7. FilesLegal'
  <2>1. Legal(user, setup.single, setup.addRuns) BY <1>2, <1>4 DEF FilesLegal
  <2> QED BY <1>1, <1>5, <1>6, <2>1 DEF FilesLegal
<1>8. Ranged /\ BkgFound /\ ~Ranged' BY <1>1 DEF Ranged, BkgFound
<1>9. ASSUME T0sPassed PROVE T0sPassed'
  <2>1. (Inside' <=> Inside) /\ TheT0s' = TheT0s BY <1>3, MeantFixed
  <2>2. Inside /\ before.t0s = TheT0s BY <1>1, <1>4, <1>9 DEF T0sPassed
  <2> QED BY <1>1, <1>6, <2>1, <2>2 DEF T0sPassed
<1>10. PICK f : f = file' OBVIOUS
<1>11. f.run = WriteRun(file.run, run, setup.isis) /\ f.global = WriteGlobal(file.global, global) BY <1>1, <1>10
<1>12. /\ DataInside' <=> DataInside
       /\ BkgInside' <=> BkgInside
       /\ OffsetsPassed' <=> OffsetsPassed
       /\ TheFound' = TheFound
  BY <1>3, MeantFixed
<1>13. ASSUME Complete, RangesPass, RangesKept PROVE RangesKept'
  <2>1. FileAs(f) BY <1>11, <1>13, EndIs, FileWrittenAs
  <2>2. FileAs(file)' BY <1>3, <1>10, <2>1, FileIs
  <2>3. DataInside /\ (OffsetsPassed => before = TheFound)
    BY <1>1, <1>8, <1>13 DEF RangesKept, RangesAs, FoundSame
  <2>4. RangesAs' BY <1>6, <1>8, <1>12, <2>2, <2>3 DEF RangesAs
  <2>5. FoundSame' BY <1>1, <1>12, <2>3 DEF FoundSame
  <2> QED BY <2>4, <2>5 DEF RangesKept
<1>14. ASSUME Complete, RangesPass, LinesPass, AgainKept PROVE AgainKept'
  <2>1. FileAgain(file) /\ RunAgain(file, run) /\ BkgInside BY <1>4, <1>8, <1>14 DEF AgainKept
  <2>2. FileAgain(f) /\ Legal(f, setup.single, setup.addRuns) BY <1>11, <1>14, <2>1, EndIs, FileWrittenAgain
  <2>3. FileAgain(file)' /\ Legal(file, setup.single, setup.addRuns)' BY <1>3, <1>10, <2>2, FileIs
  <2> QED BY <1>6, <1>12, <2>1, <2>3 DEF AgainKept
<1>15. KnownSame' BY <1>2, <1>3, <1>9, <1>13, <1>14, KnownSameStep DEF KnownSame
<1> QED BY <1>7, <1>15

-----------------------------------------------------------------------------
LEMMA KeptStep ==
  KeptInv /\ [Next]_vars => KeptInv'
<1> SUFFICES ASSUME KeptInv, [Next]_vars PROVE KeptInv'
  OBVIOUS
<1>1. Sessions' /\ AsMeant' BY SessionsStep, AsMeantStep DEF KeptInv
<1>2. FilesLegal' /\ KnownSame'
  <2>1. CASE Read BY <2>1, ReadKept
  <2>2. CASE GetProperT0 BY <1>1, <2>2, GetProperT0Kept
  <2>3. CASE EstimateBkg BY <2>3, EstimateBkgKept
  <2>4. CASE GetProperDataRange BY <2>4, DataRangeKept
  <2>5. CASE GetProperFitRange BY <2>5, FitRangeKept
  <2>6. CASE PrepareFitData BY <2>6, FitDataKept
  <2>7. CASE FitRangeBin \/ CalcNoOfFitBins BY <2>7, CommandKept
  <2>8. CASE WriteMsrLogFile BY <2>8, WriteKept
  <2>9. CASE UNCHANGED vars BY <2>9, NothingKept
  <2> QED BY <2>1, <2>2, <2>3, <2>4, <2>5, <2>6, <2>7, <2>8, <2>9 DEF Next, Prepare, Terminated
<1> QED BY <1>1, <1>2 DEF KeptInv

(* Of every session: the file, the blocks and what has been found are what *)
(* the user's file and the data files mean (SessionsAgree rests on it).    *)
THEOREM KeptInvariant ==
  Spec => []KeptInv
<1>1. Init => KeptInv BY SessionsInit, AsMeantInit, KeptInit DEF KeptInv
<1>2. KeptInv /\ [Next]_vars => KeptInv' BY KeptStep
<1> QED BY <1>1, <1>2, PTL DEF Spec

(* The conditions of SameAgain are those of what is meant, once a session  *)
(* has found its t0's.                                                     *)
LEMMA ConditionsAre ==
  ASSUME KeptInv, Complete, session > 1
  PROVE  (RangesPassed => RangesPass) /\ (Passed => RangesPass /\ LinesPass)
<1>1. setup \in Setups BY DEF KeptInv, Sessions, FilesTyped
<1>2. before.t0s = TheT0s BY DEF KeptInv, KnownSame, T0sPassed
<1>3. \A side \in Sides : before.t0s[side] = MeantT0(0, side) BY <1>1, <1>2, SetupIs DEF TheT0s
<1>4. RangesPassed => RangesPass BY <1>3 DEF RangesPassed, RangesPass
<1>5. Passed => LinesPass BY <1>3 DEF Passed, LinesPass
<1> QED BY <1>4, <1>5 DEF Passed

LEMMA NotRefused ==
  ASSUME KeptInv, Complete, session > 1, RangesPass, LinesPass, [Next]_vars, phase' \in {"refused", "failed"}
  PROVE  phase' = phase
<1>1. T0sPassed /\ RangesKept /\ AgainKept /\ Sessions BY DEF KeptInv, KnownSame
<1>2. CASE Read
  <2>1. Legal(file, setup.single, setup.addRuns) BY <1>1 DEF AgainKept
  <2> QED BY <1>2, <2>1 DEF Read
<1>3. CASE GetProperT0
  <2>1. Inside BY <1>1 DEF T0sPassed
  <2>2. Complete' <=> Complete BY <1>3, TheSame DEF GetProperT0
  <2>3. RunAsMeant' BY <2>2, SessionsStep, AsMeantStep DEF KeptInv, AsMeant
  <2>4. /\ setup' = setup /\ user' = user
        /\ phase' = "failed" => ~(/\ \A d \in Detectors : InHistogram(t0s'[d])
                                  /\ ~setup.single \/ \A k \in 1..setup.addRuns : \A d \in Detectors :
                                                        InHistogram(addT0s'[k][d]))
        /\ phase' \in {"data", "background", "failed"}
    BY <1>3 DEF GetProperT0
  <2>5. Detectors' = Detectors /\ \A r, d : MeantT0(r, d)' = MeantT0(r, d) BY <2>4, UsersSame
  <2>6. /\ \A d \in Detectors : t0s'[d] = MeantT0(0, d)
        /\ \A k \in 1..setup.addRuns, d \in Detectors : addT0s'[k][d] = MeantT0(k, d)
    BY <2>3, <2>4, <2>5 DEF RunAsMeant, Prepared
  <2> QED BY <2>1, <2>4, <2>6 DEF Inside
<1>4. CASE EstimateBkg
  <2>1. BkgInside /\ FileAgain(file) BY <1>1 DEF AgainKept
  <2>2. /\ phase = "background" /\ phase' \in {"bins", "data", "failed"}
        /\ phase' = "failed" => /\ ~setup.bkgKnown /\ run' = WithBkg(run)
                                /\ ~\A side \in Sides : \A i \in 1..2 : InBounds(BkgInterval(run', side)[i])
    BY <1>4 DEF EstimateBkg
  <2>3. SUFFICES ASSUME phase' = "failed" PROVE FALSE BY <2>2
  <2>4. phase \in Busy /\ phase \in Prepared \ {"failed"} BY <2>2 DEF Busy, Prepared
  <2>5. UsersRanges /\ t0s = TheT0s BY <2>4, RangesAreMeant DEF KnownRanges
  <2>6. run \in Block BY <1>1, <2>4 DEF Sessions, BlocksTyped
  <2>7. RunAgain(file, run) BY <1>1, <2>4 DEF AgainKept
  <2>8. run.bkg \in {UsersRun.bkg, FilledBkg} BY <2>1, <2>7 DEF FileAgain, RunAgain
  <2>9. PICK c : c = WithBkg(run) OBVIOUS
  <2>10. c.bkg = FilledBkg BY <2>2, <2>3, <2>5, <2>6, <2>8, <2>9, WithBkgFills
  <2>11. PICK e : e = [bkg |-> FilledBkg] OBVIOUS
  <2>12. c.bkg = e.bkg BY <2>10, <2>11
  <2>13. \A side : BkgInterval(c, side) = BkgInterval(e, side) BY <2>12, IntervalOf
  <2> QED BY <2>1, <2>2, <2>3, <2>9, <2>11, <2>13 DEF BkgInside
<1>5. CASE GetProperDataRange
  <2>1. DataInside BY <1>1 DEF RangesKept, RangesAs
  <2>2. /\ phase = "data" /\ phase' \in {"range", "failed"}
        /\ phase' = "failed" => ~\A side \in Sides : Ordered(side)[1] <= Size
    BY <1>5 DEF GetProperDataRange
  <2>3. phase \in Prepared \ {"failed"} BY <2>2 DEF Prepared
  <2>4. \A side \in Sides : Ordered(side) = EndsFrom(TheData, side) BY <2>3, RangesAreMeant, OrderedAs
  <2> QED BY <2>1, <2>2, <2>4 DEF DataInside
<1>6. CASE GetProperFitRange BY <1>6 DEF GetProperFitRange
<1>7. CASE PrepareFitData BY <1>7 DEF PrepareFitData
<1>8. CASE FitRangeBin \/ CalcNoOfFitBins BY <1>8 DEF FitRangeBin, CalcNoOfFitBins
<1>9. CASE WriteMsrLogFile BY <1>9 DEF WriteMsrLogFile
<1>10. CASE UNCHANGED vars BY <1>10 DEF vars
<1> QED BY <1>2, <1>3, <1>4, <1>5, <1>6, <1>7, <1>8, <1>9, <1>10 DEF Next, Prepare, Terminated

LEMMA SameFoundAgain ==
  ASSUME KeptInv, Complete, session > 1, RangesPass, OffsetsPassed, phase = "bins", [Next]_vars
  PROVE  before' = before
<1>1. CASE PrepareFitData
  <2>1. before = TheFound BY DEF KeptInv, KnownSame, RangesKept, FoundSame
  <2> QED BY <1>1, <2>1, FoundIs
<1>2. CASE UNCHANGED vars BY <1>2 DEF vars
<1> QED BY <1>1, <1>2
    DEF Next, Prepare, Terminated, Read, GetProperT0, GetProperDataRange, GetProperFitRange, EstimateBkg,
        FitRangeBin, CalcNoOfFitBins, WriteMsrLogFile

(* Nothing changes from session to session unless the user changes it      *)
(* (WriteMsrLogFile, ReadMsrFile and what PRunSingleHisto and              *)
(* PRunAsymmetry make of the lines): for every file of a user whose t0's   *)
(* are complete and whose ranges can be passed on.                         *)
THEOREM SessionsAgree ==
  Spec => SameAgain
<1>1. KeptInv /\ [Next]_vars =>
        [ session > 1 /\ Complete =>
            /\ phase' \in {"refused", "failed"} => phase' = phase \/ ~Passed
            /\ phase = "bins" /\ RangesPassed /\ OffsetsPassed => before' = before ]_vars
  <2> SUFFICES ASSUME KeptInv, [Next]_vars, session > 1, Complete
               PROVE  /\ phase' \in {"refused", "failed"} => phase' = phase \/ ~Passed
                      /\ phase = "bins" /\ RangesPassed /\ OffsetsPassed => before' = before
    OBVIOUS
  <2>1. (RangesPassed => RangesPass) /\ (Passed => RangesPass /\ LinesPass) BY ConditionsAre
  <2>2. phase' \in {"refused", "failed"} => phase' = phase \/ ~Passed BY <2>1, NotRefused
  <2>3. phase = "bins" /\ RangesPassed /\ OffsetsPassed => before' = before BY <2>1, SameFoundAgain
  <2> QED BY <2>2, <2>3
<1> QED BY <1>1, KeptInvariant, PTL DEF Spec, SameAgain
=============================================================================
