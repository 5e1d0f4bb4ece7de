--------------------------- MODULE MusrEditProofs ---------------------------
(***************************************************************************)
(* Theorems about MusrEdit, for any files, tabs, users and other programs. *)
(***************************************************************************)
EXTENDS MusrEdit, SequenceTheorems, WellFoundedInduction, TLAPS

(* A set of numbers which is not empty has a least one.                    *)
LEMMA LeastOne ==
  ASSUME NEW T, T \subseteq Nat, T # {}
  PROVE  \E m \in T : \A k \in T : m <= k
<1>1. PICK m \in T : \A k \in T : <<k, m>> \notin OpToRel(<, Nat)
  BY WFMin, NatLessThanWellFounded, Zenon
<1>2. \A k \in T : ~(k < m)
  BY <1>1, Zenon DEF OpToRel
<1>3. \A k \in T : m <= k
  BY <1>2
<1> QED
  BY <1>3

(* A sequence without one of its elements.                                 *)
LEMMA RemoveAtProperties ==
  ASSUME NEW S, NEW s \in Seq(S), NEW n \in 1..Len(s)
  PROVE  /\ RemoveAt(s, n) \in Seq(S)
         /\ Len(RemoveAt(s, n)) = Len(s) - 1
         /\ \A j \in DOMAIN RemoveAt(s, n) : \E m \in DOMAIN s : RemoveAt(s, n)[j] = s[m]
         /\ \A m \in DOMAIN s : m # n =>
              \E j \in DOMAIN RemoveAt(s, n) : RemoveAt(s, n)[j] = s[m]
<1>1. PICK L \in Nat : L = Len(s)
  BY LenProperties
<1>0. n \in Nat /\ 1 <= n /\ n <= L /\ DOMAIN s = 1..L /\ \A i \in 1..L : s[i] \in S
  BY <1>1, LenProperties
<1>2. PICK a : a = SubSeq(s, 1, n - 1)
  OBVIOUS
<1>3. PICK b : b = SubSeq(s, n + 1, L)
  OBVIOUS
<1>4. /\ a \in Seq(S) /\ Len(a) = n - 1
      /\ \A i \in 1..n - 1 : a[i] = s[i]
  BY <1>0, <1>1, <1>2, SubSeqProperties
<1>5. /\ b \in Seq(S) /\ Len(b) = L - n
      /\ \A i \in 1..L - n : b[i] = s[n + i]
  <2>1. /\ n \in Int /\ n + 1 \in Int /\ L \in Int
        /\ \A i \in n + 1..L : s[i] \in S
    BY <1>0, <1>1
  <2>2. /\ b \in Seq(S)
        /\ Len(b) = IF n + 1 <= L THEN L - (n + 1) + 1 ELSE 0
        /\ \A i \in 1..L - (n + 1) + 1 : b[i] = s[(n + 1) + i - 1]
    BY <1>3, <2>1, SubSeqProperties
  <2>3. Len(b) = L - n
    <3>1. (IF n + 1 <= L THEN L - (n + 1) + 1 ELSE 0) = L - n
      BY <1>0
    <3> QED
      BY <2>2, <3>1
  <2>4. ASSUME NEW i \in 1..L - n PROVE b[i] = s[n + i]
    <3>1. i \in 1..L - (n + 1) + 1 /\ (n + 1) + i - 1 = n + i
      BY <1>0
    <3> QED
      BY <2>2, <3>1
  <2> QED
    BY <2>2, <2>3, <2>4
<1>6. PICK d : d = RemoveAt(s, n)
  OBVIOUS
<1>7. d = a \o b
  BY <1>1, <1>2, <1>3, <1>6 DEF RemoveAt
<1>8. d \in Seq(S) /\ Len(d) = L - 1 /\ DOMAIN d = 1..L - 1
  <2>1. a \o b \in Seq(S) /\ Len(a \o b) = Len(a) + Len(b)
    BY <1>4, <1>5, ConcatProperties
  <2>2. Len(a) + Len(b) = L - 1
    BY <1>0, <1>1, <1>4, <1>5
  <2>3. d \in Seq(S) /\ Len(d) = L - 1
    BY <1>7, <2>1, <2>2
  <2> QED
    BY <2>3, LenProperties
<1>9. \A i \in 1..L - 1 : d[i] = IF i <= n - 1 THEN a[i] ELSE b[i - (n - 1)]
  <2>1. \A i \in 1..Len(a) + Len(b) :
          (a \o b)[i] = IF i <= Len(a) THEN a[i] ELSE b[i - Len(a)]
    BY <1>4, <1>5, ConcatProperties
  <2>2. Len(a) + Len(b) = L - 1
    BY <1>0, <1>1, <1>4, <1>5
  <2> QED
    BY <1>4, <1>7, <2>1, <2>2
<1>10. \A i \in 1..L - 1 : d[i] = IF i <= n - 1 THEN s[i] ELSE s[i + 1]
  <2> TAKE i \in 1..L - 1
  <2>1. CASE i <= n - 1
    BY <1>0, <1>1, <1>4, <1>9, <2>1
  <2>2. CASE ~(i <= n - 1)
    <3>1. i - (n - 1) \in 1..L - n /\ n + (i - (n - 1)) = i + 1
      BY <1>0, <1>1, <2>2
    <3> QED
      BY <1>5, <1>9, <2>2, <3>1
  <2> QED
    BY <2>1, <2>2
<1>11. \A j \in DOMAIN d : \E m \in DOMAIN s : d[j] = s[m]
  <2> TAKE j \in DOMAIN d
  <2>1. j \in DOMAIN s /\ j + 1 \in DOMAIN s
    BY <1>0, <1>1, <1>8
  <2> QED
    BY <1>8, <1>10, <2>1
<1>12. \A m \in DOMAIN s : m # n => \E j \in DOMAIN d : d[j] = s[m]
  <2> SUFFICES ASSUME NEW m \in DOMAIN s, m # n
               PROVE  \E j \in DOMAIN d : d[j] = s[m]
    OBVIOUS
  <2>1. CASE m < n
    <3>1. m \in DOMAIN d /\ m <= n - 1
      BY <1>0, <1>1, <1>8, <2>1
    <3> QED
      BY <1>8, <1>10, <3>1
  <2>2. CASE m > n
    <3>1. m - 1 \in DOMAIN d /\ ~(m - 1 <= n - 1) /\ (m - 1) + 1 = m
      BY <1>0, <1>1, <1>8, <2>2
    <3>2. d[m - 1] = s[m]
      BY <1>8, <1>10, <3>1
    <3> QED
      BY <3>1, <3>2
  <2> QED
    BY <1>0, <1>1, <2>1, <2>2
<1> QED
  BY <1>1, <1>6, <1>8, <1>11, <1>12

(* A sequence with one more element.                                       *)
LEMMA InsertAtProperties ==
  ASSUME NEW S, NEW s \in Seq(S), NEW n \in 1..Len(s) + 1, NEW e \in S
  PROVE  /\ InsertAt(s, n, e) \in Seq(S)
         /\ Len(InsertAt(s, n, e)) = Len(s) + 1
         /\ \A j \in DOMAIN InsertAt(s, n, e) :
              InsertAt(s, n, e)[j] = e \/ \E m \in DOMAIN s : InsertAt(s, n, e)[j] = s[m]
         /\ \A m \in DOMAIN s :
              \E j \in DOMAIN InsertAt(s, n, e) : InsertAt(s, n, e)[j] = s[m]
<1>1. PICK L \in Nat : L = Len(s)
  BY LenProperties
<1>0. n \in Nat /\ 1 <= n /\ n <= L + 1 /\ DOMAIN s = 1..L /\ \A i \in 1..L : s[i] \in S
  BY <1>1, LenProperties
<1>2. PICK a : a = SubSeq(s, 1, n - 1)
  OBVIOUS
<1>3. PICK b : b = SubSeq(s, n, L)
  OBVIOUS
<1>4. /\ a \in Seq(S) /\ Len(a) = n - 1
      /\ \A i \in 1..n - 1 : a[i] = s[i]
  BY <1>0, <1>1, <1>2, SubSeqProperties
<1>5. /\ b \in Seq(S) /\ Len(b) = L - n + 1
      /\ \A i \in 1..L - n + 1 : b[i] = s[n + i - 1]
  BY <1>0, <1>1, <1>3, SubSeqProperties
<1>6. PICK c : c = Append(a, e)
  OBVIOUS
<1>7. /\ c = a \o <<e>> /\ c \in Seq(S) /\ Len(c) = n
      /\ c[n] = e /\ \A i \in 1..n - 1 : c[i] = s[i]
  BY <1>4, <1>6, AppendProperties, AppendIsConcat
<1>8. PICK d : d = InsertAt(s, n, e)
  OBVIOUS
<1>9. d = c \o b
  BY <1>1, <1>2, <1>3, <1>7, <1>8 DEF InsertAt
<1>10. d \in Seq(S) /\ Len(d) = L + 1 /\ DOMAIN d = 1..L + 1
  <2>1. c \o b \in Seq(S) /\ Len(c \o b) = Len(c) + Len(b)
    BY <1>5, <1>7, ConcatProperties
  <2>2. Len(c) + Len(b) = L + 1
    <3>1. n + (L - n + 1) = L + 1
      BY <1>0
    <3> QED
      BY <1>5, <1>7, <3>1
  <2>3. d \in Seq(S) /\ Len(d) = L + 1
    BY <1>9, <2>1, <2>2
  <2> QED
    BY <2>3, LenProperties
<1>11. \A i \in 1..L + 1 : d[i] = IF i <= n THEN c[i] ELSE b[i - n]
  <2>1. \A i \in 1..Len(c) + Len(b) :
          (c \o b)[i] = IF i <= Len(c) THEN c[i] ELSE b[i - Len(c)]
    BY <1>5, <1>7, ConcatProperties
  <2>2. Len(c) + Len(b) = L + 1
    <3>1. n + (L - n + 1) = L + 1
      BY <1>0
    <3> QED
      BY <1>5, <1>7, <3>1
  <2> QED
    BY <1>7, <1>9, <2>1, <2>2
<1>12. d[n] = e
  BY <1>0, <1>1, <1>7, <1>11
<1>13. \A i \in 1..n - 1 : d[i] = s[i]
  BY <1>0, <1>1, <1>7, <1>11
<1>14. \A i \in n + 1..L + 1 : d[i] = s[i - 1]
  <2> TAKE i \in n + 1..L + 1
  <2>1. i - n \in 1..L - n + 1 /\ n + (i - n) - 1 = i - 1 /\ ~(i <= n)
        /\ i \in 1..L + 1
    BY <1>0, <1>1
  <2> QED
    BY <1>5, <1>11, <2>1
<1>15. \A j \in DOMAIN d : d[j] = e \/ \E m \in DOMAIN s : d[j] = s[m]
  <2> TAKE j \in DOMAIN d
  <2>1. CASE j \in 1..n - 1
    BY <1>0, <1>1, <1>13, <2>1
  <2>2. CASE j = n
    BY <1>12, <2>2
  <2>3. CASE j \in n + 1..L + 1
    <3>1. j - 1 \in DOMAIN s
      BY <1>0, <1>1, <2>3
    <3> QED
      BY <1>14, <2>3, <3>1
  <2> QED
    BY <1>0, <1>1, <1>10, <2>1, <2>2, <2>3
<1>16. \A m \in DOMAIN s : \E j \in DOMAIN d : d[j] = s[m]
  <2> TAKE m \in DOMAIN s
  <2>1. CASE m < n
    <3>1. m \in DOMAIN d /\ m \in 1..n - 1
      BY <1>0, <1>1, <1>10, <2>1
    <3> QED
      BY <1>13, <3>1
  <2>2. CASE ~(m < n)
    <3>1. m + 1 \in DOMAIN d /\ m + 1 \in n + 1..L + 1 /\ (m + 1) - 1 = m
      BY <1>0, <1>1, <1>10, <2>2
    <3>2. d[m + 1] = s[m]
      BY <1>14, <3>1
    <3> QED
      BY <3>1, <3>2
  <2> QED
    BY <2>1, <2>2
<1> QED
  BY <1>1, <1>8, <1>10, <1>15, <1>16

(* The last element of a sequence, and the others.                         *)
LEMMA FrontProperties ==
  ASSUME NEW S, NEW s \in Seq(S), s # <<>>
  PROVE  /\ Front(s) \in Seq(S) /\ Last(s) \in S
         /\ ToSet(s) = ToSet(Front(s)) \cup {Last(s)}
<1>1. Len(s) \in Nat \ {0} /\ DOMAIN s = 1..Len(s) /\ \A i \in 1..Len(s) : s[i] \in S
  BY EmptySeq, LenProperties
<1>2. /\ Front(s) \in Seq(S) /\ Len(Front(s)) = Len(s) - 1
      /\ \A i \in 1..Len(s) - 1 : Front(s)[i] = s[i]
  BY <1>1, SubSeqProperties DEF Front
<1>3. DOMAIN Front(s) = 1..Len(s) - 1
  BY <1>1, <1>2, LenProperties
<1>4. Len(s) \in DOMAIN s /\ DOMAIN s = DOMAIN Front(s) \cup {Len(s)}
  BY <1>1, <1>3
<1> QED
  BY <1>1, <1>2, <1>3, <1>4 DEF Last, ToSet

-----------------------------------------------------------------------------
(* Tabs, and what the watcher knows of their files: a view (see Becomes).  *)

Texts == 0..MaxText
TabSet == [file : Files, text : Texts, undo : Seq(Texts), seen : Texts, star : BOOLEAN]
Views == [tabs : Seq(TabSet), watched : SUBSET Files, pending : SUBSET Files,
          silent : SUBSET Files]

(* The user is going to be told of a tab which is stale, or whose file is  *)
(* not watched; A: the files asked about, d: what the files hold.          *)
TabTold(t, v, A, d) ==
  t.seen # d[t.file] \/ t.file \notin v.watched =>
    t.file \in v.pending \cup A \cup v.silent
Told(v, A, d) == \A k \in DOMAIN v.tabs : TabTold(v.tabs[k], v, A, d)

(* No tab with a star is lost from v to w.                                 *)
Keeps(v, w) ==
  \A k \in DOMAIN v.tabs :
    v.tabs[k].star => \E j \in DOMAIN w.tabs : w.tabs[j] = v.tabs[k]

LEMMA TabOfView ==
  ASSUME NEW v \in Views, NEW k \in DOMAIN v.tabs
  PROVE  /\ v.tabs[k] \in TabSet /\ v.tabs[k].file \in Files
         /\ v.tabs[k].star \in BOOLEAN
         /\ k \in 1..Len(v.tabs) /\ Len(v.tabs) \in Nat
<1>1. v.tabs \in Seq(TabSet)
  BY DEF Views
<1>2. v.tabs[k] \in TabSet /\ k \in 1..Len(v.tabs) /\ Len(v.tabs) \in Nat
  BY <1>1, LenProperties
<1> QED
  BY <1>2 DEF TabSet

LEMMA RemovePathTold ==
  ASSUME NEW v \in Views, NEW f \in Files, NEW A, NEW d,
         \A k \in DOMAIN v.tabs :
           v.tabs[k].file # f => TabTold(v.tabs[k], v, A \cup {f}, d)
  PROVE  /\ RemovePath(v, f) \in Views
         /\ RemovePath(v, f).tabs = v.tabs
         /\ Told(RemovePath(v, f), A, d)
<1>1. PICK w : w = RemovePath(v, f)
  OBVIOUS
<1>2. /\ w \in Views
      /\ w.tabs = v.tabs /\ w.watched = v.watched \ {f} /\ w.pending = v.pending \ {f}
      /\ w.silent = IF Shown(v.tabs, f) THEN v.silent \cup {f} ELSE v.silent \ {f}
  BY <1>1 DEF RemovePath, Views
<1>3. ASSUME NEW k \in DOMAIN v.tabs PROVE TabTold(v.tabs[k], w, A, d)
  <2>1. CASE v.tabs[k].file = f
    BY <1>2, <2>1 DEF TabTold, Shown
  <2>2. CASE v.tabs[k].file # f
    <3>1. TabTold(v.tabs[k], v, A \cup {f}, d)
      BY <2>2
    <3> QED
      BY <1>2, <2>2, <3>1 DEF TabTold
  <2> QED
    BY <2>1, <2>2
<1> QED
  BY <1>1, <1>2, <1>3 DEF Told

LEMMA CloseTabTold ==
  ASSUME NEW v \in Views, NEW k \in DOMAIN v.tabs, NEW A, NEW d, Told(v, A, d)
  PROVE  /\ CloseTab(v, k) \in Views
         /\ Len(CloseTab(v, k).tabs) = Len(v.tabs) - 1
         /\ Told(CloseTab(v, k), A, d)
         /\ ~v.tabs[k].star => Keeps(v, CloseTab(v, k))
<1>1. PICK f : f = v.tabs[k].file
  OBVIOUS
<1>2. PICK u : u = [v EXCEPT !.tabs = RemoveAt(@, k)]
  OBVIOUS
<1>3. v.tabs \in Seq(TabSet) /\ k \in 1..Len(v.tabs) /\ f \in Files
  BY <1>1, TabOfView DEF Views
<1>4. /\ u \in Views /\ u.tabs = RemoveAt(v.tabs, k)
      /\ u.watched = v.watched /\ u.pending = v.pending /\ u.silent = v.silent
  BY <1>2, <1>3, RemoveAtProperties DEF Views
<1>5. Len(u.tabs) = Len(v.tabs) - 1
  BY <1>3, <1>4, RemoveAtProperties
<1>6. \A j \in DOMAIN u.tabs : \E m \in DOMAIN v.tabs : u.tabs[j] = v.tabs[m]
  BY <1>3, <1>4, RemoveAtProperties
<1>7. \A m \in DOMAIN v.tabs : m # k => \E j \in DOMAIN u.tabs : u.tabs[j] = v.tabs[m]
  BY <1>3, <1>4, RemoveAtProperties
<1>8. \A j \in DOMAIN u.tabs : TabTold(u.tabs[j], u, A \cup {f}, d)
  BY <1>4, <1>6 DEF Told, TabTold
<1>9. CloseTab(v, k) = RemovePath(u, f)
  BY <1>1, <1>2 DEF CloseTab
<1>10. /\ RemovePath(u, f) \in Views
       /\ RemovePath(u, f).tabs = u.tabs
       /\ Told(RemovePath(u, f), A, d)
  BY <1>3, <1>4, <1>8, RemovePathTold
<1> QED
  BY <1>5, <1>7, <1>9, <1>10 DEF Keeps

LEMMA LoadTold ==
  ASSUME NEW v \in Views, NEW f \in Files, NEW k \in 1..Len(v.tabs) + 1, NEW A,
         Told(v, A, disk), disk \in [Files -> Texts]
  PROVE  /\ Load(v, f, k) \in Views
         /\ Len(Load(v, f, k).tabs) = Len(v.tabs) + 1
         /\ Told(Load(v, f, k), A, disk)
         /\ Keeps(v, Load(v, f, k))
<1>1. PICK t : t = Tab(f, disk[f])
  OBVIOUS
<1>2. t \in TabSet /\ t.file = f /\ t.seen = disk[f]
  BY <1>1 DEF Tab, TabSet
<1>3. PICK w : w = Load(v, f, k)
  OBVIOUS
<1>4. v.tabs \in Seq(TabSet)
  BY DEF Views
<1>5. InsertAt(v.tabs, k, t) \in Seq(TabSet)
  BY <1>2, <1>4, InsertAtProperties
<1>6. /\ w \in Views
      /\ w.tabs = InsertAt(v.tabs, k, t)
      /\ w.watched = v.watched \cup {f} /\ w.pending = v.pending
      /\ w.silent = IF Shown(v.tabs, f) THEN v.silent ELSE v.silent \ {f}
  BY <1>1, <1>3, <1>5 DEF Load, Views
<1>7. Len(w.tabs) = Len(v.tabs) + 1
  BY <1>2, <1>4, <1>6, InsertAtProperties
<1>8. \A j \in DOMAIN w.tabs :
        w.tabs[j] = t \/ \E m \in DOMAIN v.tabs : w.tabs[j] = v.tabs[m]
  BY <1>2, <1>4, <1>6, InsertAtProperties
<1>9. \A m \in DOMAIN v.tabs : \E j \in DOMAIN w.tabs : w.tabs[j] = v.tabs[m]
  BY <1>2, <1>4, <1>6, InsertAtProperties
<1>10. TabTold(t, w, A, disk)
  BY <1>2, <1>6 DEF TabTold
<1>11. ASSUME NEW m \in DOMAIN v.tabs PROVE TabTold(v.tabs[m], w, A, disk)
  <2>1. TabTold(v.tabs[m], v, A, disk)
    BY DEF Told
  <2>2. v.tabs[m].file \in v.silent => v.tabs[m].file \in w.silent
    BY <1>6 DEF Shown
  <2> QED
    BY <1>6, <2>1, <2>2 DEF TabTold
<1>12. Told(w, A, disk)
  BY <1>8, <1>10, <1>11 DEF Told
<1> QED
  BY <1>3, <1>6, <1>7, <1>9, <1>12 DEF Keeps

(* One of the tabs is closed, unless it has a star and the user says no,   *)
(* and a file is loaded in its place.                                      *)
LEMMA CloseThenLoad ==
  ASSUME NEW v \in Views, NEW k \in DOMAIN v.tabs, NEW close \in BOOLEAN, NEW A,
         NEW f \in Files, Told(v, A, disk), disk \in [Files -> Texts],
         NEW w, w = Load(IF Closes(v.tabs[k], close) THEN CloseTab(v, k) ELSE v, f, k)
  PROVE  /\ w \in Views
         /\ Len(w.tabs) \in {Len(v.tabs), Len(v.tabs) + 1}
         /\ Told(w, A, disk)
         /\ ~close => Keeps(v, w)
<1>1. k \in 1..Len(v.tabs) /\ Len(v.tabs) \in Nat /\ v.tabs[k].star \in BOOLEAN
  BY TabOfView
<1>2. CASE Closes(v.tabs[k], close)
  <2>1. PICK u : u = CloseTab(v, k)
    OBVIOUS
  <2>2. /\ u \in Views /\ Len(u.tabs) = Len(v.tabs) - 1 /\ Told(u, A, disk)
        /\ ~close => Keeps(v, u)
    BY <1>2, <2>1, CloseTabTold DEF Closes
  <2>3. k \in 1..Len(u.tabs) + 1
    BY <1>1, <2>2
  <2>4. w = Load(u, f, k)
    BY <1>2, <2>1
  <2>5. /\ w \in Views /\ Len(w.tabs) = Len(u.tabs) + 1 /\ Told(w, A, disk)
        /\ Keeps(u, w)
    BY <2>2, <2>3, <2>4, LoadTold
  <2>6. ~close => Keeps(v, w)
    BY <2>2, <2>5 DEF Keeps
  <2>7. Len(w.tabs) = Len(v.tabs)
    BY <1>1, <2>2, <2>5
  <2> QED
    BY <2>5, <2>6, <2>7
<1>3. CASE ~Closes(v.tabs[k], close)
  <2>1. k \in 1..Len(v.tabs) + 1
    BY <1>1
  <2>2. w = Load(v, f, k)
    BY <1>3
  <2> QED
    BY <1>1, <2>1, <2>2, LoadTold
<1> QED
  BY <1>2, <1>3

LEMMA CloseLoadTold ==
  ASSUME NEW v \in Views, NEW k \in DOMAIN v.tabs, NEW close \in BOOLEAN, NEW A,
         Told(v, A, disk), disk \in [Files -> Texts],
         NEW w, w = CloseLoad(v, k, close)
  PROVE  /\ w \in Views
         /\ Len(w.tabs) \in {Len(v.tabs), Len(v.tabs) + 1}
         /\ Told(w, A, disk)
         /\ ~close => Keeps(v, w)
<1>1. v.tabs[k].file \in Files
  BY TabOfView
<1>2. w = Load(IF Closes(v.tabs[k], close) THEN CloseTab(v, k) ELSE v,
               v.tabs[k].file, k)
  BY DEF CloseLoad
<1> QED
  BY <1>1, <1>2, CloseThenLoad

-----------------------------------------------------------------------------
(* The invariant. *)

Dialogs == [file : Files, done : BOOLEAN]

TypeInv ==
  /\ disk \in [Files -> Texts] /\ last \in Texts
  /\ view \in Views
  /\ cur \in 0..Len(tabs) /\ (tabs # <<>> => cur # 0)
  /\ active \in BOOLEAN /\ timers \in 0..MaxTimers
  /\ asked \in Seq(Files)
  /\ fit \in {None} \cup Dialogs /\ steps \in {None} \cup Dialogs
  /\ fit # None => tabs # <<>>

AllTold == Told(view, ToSet(asked), disk)

Inv == TypeInv /\ AllTold

LEMMA InvImplied == Inv => TypeOK /\ StaleIsReported
<1> SUFFICES ASSUME Inv PROVE TypeOK /\ StaleIsReported
  OBVIOUS
<1>1. view \in Views /\ view.tabs = tabs /\ view.watched = watched
      /\ view.pending = pending /\ view.silent = silent
  BY DEF Inv, TypeInv, view
<1>2. \A k \in DOMAIN tabs : tabs[k].file \in Files /\ tabs[k].star \in BOOLEAN
  BY <1>1, TabOfView
<1>3. \A k \in DOMAIN asked : asked[k] \in Files
  BY LenProperties DEF Inv, TypeInv
<1>4. \A p \in {fit, steps} \ {None} : p.file \in Files /\ p.done \in BOOLEAN
  BY DEF Inv, TypeInv, Dialogs
<1>5. watched \subseteq Files /\ pending \subseteq Files
  BY <1>1 DEF Views
<1>6. TypeOK
  BY <1>2, <1>3, <1>4, <1>5 DEF TypeOK, Inv, TypeInv, Texts
<1>7. StaleIsReported
  BY <1>1 DEF StaleIsReported, Inv, AllTold, Told, TabTold
<1> QED
  BY <1>6, <1>7

LEMMA InitInv == Init => Inv
<1> SUFFICES ASSUME Init PROVE Inv
  OBVIOUS
<1>1. Opened \in Seq(Files) /\ DOMAIN Opened = 1..Len(Opened) /\ Len(Opened) \in Nat
      /\ \A k \in 1..Len(Opened) : Opened[k] \in Files
  BY MusrEditAssumption, LenProperties
<1>2. 0 \in Texts
  BY MusrEditAssumption DEF Texts
<1>3. \A k \in 1..Len(Opened) : Tab(Opened[k], 0) \in TabSet
  BY <1>1, <1>2 DEF Tab, TabSet
<1>4. tabs = [k \in 1..Len(Opened) |-> Tab(Opened[k], 0)]
  BY <1>1 DEF Init
<1>5. tabs \in Seq(TabSet) /\ Len(tabs) = Len(Opened) /\ DOMAIN tabs = 1..Len(Opened)
  BY <1>1, <1>3, <1>4, IsASeq, LenProperties
<1>6. watched = ToSet(Opened) /\ watched \subseteq Files /\ pending = {} /\ silent = {}
  BY <1>1 DEF Init, ToSet
<1>7. view \in Views
  BY <1>5, <1>6 DEF view, Views
<1>8. \A k \in DOMAIN tabs : tabs[k].file \in watched /\ tabs[k].file \in Files
                             /\ tabs[k].seen = 0
  BY <1>1, <1>4, <1>5, <1>6 DEF Tab, ToSet
<1>9. AllTold
  BY <1>8 DEF AllTold, Told, TabTold, view, Init
<1>10. TypeInv
  <2>1. tabs # <<>> => Len(Opened) # 0
    BY <1>5, EmptySeq
  <2>2. asked \in Seq(Files)
    BY DEF Init
  <2> QED
    BY <1>1, <1>2, <1>5, <1>7, <2>1, <2>2, MusrEditAssumption DEF Init, TypeInv
<1> QED
  BY <1>9, <1>10 DEF Inv

-----------------------------------------------------------------------------
(* The steps. *)

(* What the invariant says of the tabs, and of the current one.            *)
LEMMA TabFacts ==
  ASSUME TypeInv
  PROVE  /\ view \in Views /\ view.tabs = tabs /\ view.watched = watched
         /\ view.pending = pending /\ view.silent = silent
         /\ tabs \in Seq(TabSet) /\ Len(tabs) \in Nat /\ DOMAIN tabs = 1..Len(tabs)
         /\ watched \subseteq Files /\ pending \subseteq Files /\ silent \subseteq Files
         /\ \A k \in DOMAIN tabs : tabs[k] \in TabSet
         /\ HasEditor => cur \in DOMAIN tabs /\ Current \in TabSet
         /\ tabs # <<>> => HasEditor
<1>1. /\ view \in Views /\ view.tabs = tabs /\ view.watched = watched
      /\ view.pending = pending /\ view.silent = silent
  BY DEF TypeInv, view
<1>2. /\ tabs \in Seq(TabSet)
      /\ watched \subseteq Files /\ pending \subseteq Files /\ silent \subseteq Files
  BY <1>1 DEF Views
<1>3. Len(tabs) \in Nat /\ DOMAIN tabs = 1..Len(tabs) /\ \A k \in DOMAIN tabs : tabs[k] \in TabSet
  BY <1>2, LenProperties
<1>4. HasEditor => cur \in DOMAIN tabs
  BY <1>3 DEF HasEditor, TypeInv
<1> QED
  BY <1>1, <1>2, <1>3, <1>4 DEF Current, TypeInv, HasEditor

(* The view after a step, put together.                                    *)
LEMMA ViewAfter ==
  ASSUME tabs' \in Seq(TabSet), watched' \subseteq Files, pending' \subseteq Files,
         silent' \subseteq Files,
         \A k \in DOMAIN tabs' :
           tabs'[k].seen # disk'[tabs'[k].file] \/ tabs'[k].file \notin watched' =>
             tabs'[k].file \in pending' \cup ToSet(asked') \cup silent'
  PROVE  view' \in Views /\ AllTold'
<1>1. view' = [tabs |-> tabs', watched |-> watched', pending |-> pending', silent |-> silent']
  BY DEF view
<1>2. view' \in Views
  BY <1>1 DEF Views
<1>3. \A k \in DOMAIN view'.tabs : TabTold(view'.tabs[k], view', ToSet(asked'), disk')
  BY <1>1 DEF TabTold
<1> QED
  BY <1>2, <1>3 DEF AllTold, Told

LEMMA ViewBecomes ==
  ASSUME NEW w \in Views, Becomes(w), disk' = disk, Told(w, ToSet(asked'), disk)
  PROVE  view' \in Views /\ AllTold' /\ view' = w /\ tabs' = w.tabs
<1>1. view' = [tabs |-> w.tabs, watched |-> w.watched, pending |-> w.pending,
               silent |-> w.silent]
  BY DEF view, Becomes
<1>2. view' = w
  BY <1>1 DEF Views
<1> QED
  BY <1>2 DEF AllTold, Becomes

(* What is told of a tab before the step.                                  *)
LEMMA TabWasTold ==
  ASSUME TypeInv, AllTold, NEW k \in DOMAIN tabs
  PROVE  /\ tabs[k].seen # disk[tabs[k].file] \/ tabs[k].file \notin watched =>
             tabs[k].file \in pending \cup ToSet(asked) \cup silent
         /\ tabs[k].file \in Files /\ tabs[k] \in TabSet
<1>1. TabTold(view.tabs[k], view, ToSet(asked), disk)
  BY DEF AllTold, Told, view
<1>2. tabs[k] \in TabSet
  BY TabFacts
<1> QED
  BY <1>1, <1>2 DEF TabTold, view, TabSet

(* Nothing the invariant is about changes, but for the texts of a tab.     *)
LEMMA SameFiles ==
  ASSUME TypeInv, AllTold, tabs' \in Seq(TabSet), DOMAIN tabs' = DOMAIN tabs,
         \A k \in DOMAIN tabs : tabs'[k].file = tabs[k].file /\ tabs'[k].seen = tabs[k].seen,
         UNCHANGED <<watched, pending, asked, silent, disk>>
  PROVE  view' \in Views /\ AllTold'
BY TabFacts, TabWasTold, ViewAfter

(* Others write to files: if they are watched there is a notification.     *)
LEMMA WriteFiles ==
  ASSUME TypeInv, AllTold, NEW both,
         \A f \in Files \ both : disk'[f] = disk[f],
         pending' = pending \cup (both \cap watched),
         watched' \subseteq watched, watched \ both \subseteq watched',
         UNCHANGED <<tabs, asked, silent>>
  PROVE  view' \in Views /\ AllTold'
<1>1. ASSUME NEW k \in DOMAIN tabs,
             tabs[k].seen # disk'[tabs[k].file] \/ tabs[k].file \notin watched'
      PROVE  tabs[k].file \in pending' \cup ToSet(asked) \cup silent
  <2>1. CASE tabs[k].file \in watched /\ tabs[k].file \in both
    BY <2>1
  <2>2. CASE tabs[k].file \notin watched
    BY <2>2, TabWasTold
  <2>3. CASE tabs[k].file \notin both
    BY <1>1, <2>3, TabWasTold
  <2> QED
    BY <2>1, <2>2, <2>3
<1> QED
  BY <1>1, TabFacts, ViewAfter

(* A tab is saved, under its name or under another one.                    *)
LEMMA SavedTold ==
  ASSUME TypeInv, AllTold, HasEditor, NEW f \in Files, Saved(f),
         UNCHANGED <<watched, asked>>, silent \subseteq silent', silent' \subseteq Files,
         f = Current.file \/ f \in silent'
  PROVE  /\ view' \in Views /\ AllTold'
         /\ disk' \in [Files -> Texts] /\ timers' \in 0..MaxTimers
         /\ Len(tabs') = Len(tabs)
<1>1. cur \in DOMAIN tabs /\ Current = tabs[cur] /\ Current \in TabSet /\ cur \in 1..Len(tabs)
  BY TabFacts DEF Current
<1>2. PICK t : t = [Current EXCEPT !.file = f, !.seen = Current.text, !.star = FALSE]
  OBVIOUS
<1>3. t \in TabSet /\ t.file = f /\ t.seen = Current.text
  BY <1>1, <1>2 DEF TabSet
<1>4. tabs' = [tabs EXCEPT ![cur] = t]
  BY <1>2 DEF Saved, Current
<1>5. /\ tabs' \in Seq(TabSet) /\ Len(tabs') = Len(tabs) /\ DOMAIN tabs' = DOMAIN tabs
      /\ tabs'[cur] = t /\ \A k \in DOMAIN tabs \ {cur} : tabs'[k] = tabs[k]
  BY <1>1, <1>3, <1>4, TabFacts, ExceptSeq
<1>6. Current.text \in Texts
  BY <1>1 DEF TabSet
<1>7. /\ disk' \in [Files -> Texts] /\ disk'[f] = Current.text
      /\ \A g \in Files \ {f} : disk'[g] = disk[g]
  BY <1>6 DEF Saved, TypeInv
<1>8. pending' = pending \cup ({f} \cap watched)
  BY DEF Saved
<1>9. ASSUME NEW k \in DOMAIN tabs',
             tabs'[k].seen # disk'[tabs'[k].file] \/ tabs'[k].file \notin watched'
      PROVE  tabs'[k].file \in pending' \cup ToSet(asked') \cup silent'
  <2>1. CASE k = cur
    <3>1. f \notin watched
      BY <1>3, <1>5, <1>7, <1>9, <2>1
    <3>2. CASE f = Current.file
      BY <1>1, <1>3, <1>5, <1>8, <2>1, <3>1, <3>2, TabWasTold
    <3>3. CASE f \in silent'
      BY <1>3, <1>5, <2>1, <3>3
    <3> QED
      BY <3>2, <3>3
  <2>2. CASE k # cur
    <3>1. k \in DOMAIN tabs /\ tabs'[k] = tabs[k]
      BY <1>5, <2>2
    <3>2. CASE tabs[k].file = f
      BY <1>8, <3>1, <3>2, TabWasTold
    <3>3. CASE tabs[k].file # f
      BY <1>7, <1>8, <1>9, <3>1, <3>3, TabWasTold
    <3> QED
      BY <3>2, <3>3
  <2> QED
    BY <2>1, <2>2
<1>10. view' \in Views /\ AllTold'
  BY <1>5, <1>8, <1>9, TabFacts, ViewAfter
<1>11. timers' \in 0..MaxTimers
  BY MusrEditAssumption DEF Saved, StartTimer, TypeInv
<1> QED
  BY <1>5, <1>7, <1>10, <1>11

LEMMA SameViewInv ==
  ASSUME Inv, UNCHANGED <<disk, tabs, watched, pending, silent, asked>>,
         last' \in Texts, cur' \in 0..Len(tabs), tabs # <<>> => cur' # 0,
         active' \in BOOLEAN, timers' \in 0..MaxTimers,
         fit' \in {None} \cup Dialogs, steps' \in {None} \cup Dialogs,
         fit' # None => tabs # <<>>
  PROVE  Inv'
<1>1. view' \in Views /\ AllTold'
  BY TabFacts, SameFiles DEF Inv
<1> QED
  BY <1>1 DEF Inv, TypeInv

LEMMA TimerInv == ASSUME Inv, Timer PROVE Inv'
<1>1. timers' \in 0..MaxTimers
  BY MusrEditAssumption DEF Timer, Inv, TypeInv
<1> QED
  BY <1>1, SameViewInv DEF Timer, Inv, TypeInv

LEMMA SwitchInv == ASSUME Inv, Switch PROVE Inv'
<1>1. cur' \in DOMAIN tabs /\ DOMAIN tabs = 1..Len(tabs) /\ Len(tabs) \in Nat
  BY TabFacts DEF Switch, Inv
<1>2. cur' \in 0..Len(tabs) /\ cur' # 0
  BY <1>1
<1> QED
  BY <1>2, SameViewInv DEF Switch, Inv, TypeInv, watch

LEMMA ExitInv == ASSUME Inv, Exit PROVE Inv'
BY SameViewInv DEF Exit, Inv, TypeInv, watch

LEMMA EditInv == ASSUME Inv, Edit PROVE Inv'
<1>1. TypeInv /\ AllTold /\ HasEditor
  BY DEF Inv, Edit
<1>2. cur \in DOMAIN tabs /\ Current = tabs[cur] /\ Current \in TabSet /\ cur \in 1..Len(tabs)
  BY <1>1, TabFacts DEF Current
<1>3. last' \in Texts /\ Current.text \in Texts /\ Current.undo \in Seq(Texts)
  BY <1>1, <1>2, MusrEditAssumption DEF Edit, TypeInv, Texts, TabSet
<1>4. PICK t : t = [tabs[cur] EXCEPT !.text = last', !.undo = Append(tabs[cur].undo, Current.text),
                                !.star = TRUE]
  OBVIOUS
<1>5. t \in TabSet /\ t.file = tabs[cur].file /\ t.seen = tabs[cur].seen
  BY <1>2, <1>3, <1>4, AppendProperties DEF TabSet
<1>6. tabs' = [tabs EXCEPT ![cur] = t]
  BY <1>2, <1>4, TabFacts, <1>1 DEF Edit
<1>7. /\ tabs' \in Seq(TabSet) /\ Len(tabs') = Len(tabs) /\ DOMAIN tabs' = DOMAIN tabs
      /\ tabs'[cur] = t /\ \A k \in DOMAIN tabs \ {cur} : tabs'[k] = tabs[k]
  BY <1>1, <1>2, <1>5, <1>6, TabFacts, ExceptSeq
<1>8. view' \in Views /\ AllTold'
  BY <1>1, <1>5, <1>7, SameFiles DEF Edit, watch
<1> QED
  BY <1>1, <1>3, <1>7, <1>8 DEF Inv, TypeInv, Edit, watch

LEMMA UndoInv == ASSUME Inv, Undo PROVE Inv'
<1>1. TypeInv /\ AllTold /\ HasEditor
  BY DEF Inv, Undo
<1>2. cur \in DOMAIN tabs /\ Current = tabs[cur] /\ Current \in TabSet /\ cur \in 1..Len(tabs)
  BY <1>1, TabFacts DEF Current
<1>3. Current.undo \in Seq(Texts) /\ Current.undo # <<>>
  BY <1>2 DEF Undo, TabSet
<1>4. Last(Current.undo) \in Texts /\ Front(Current.undo) \in Seq(Texts)
  BY <1>3, FrontProperties
<1>5. PICK b : b \in BOOLEAN /\ b = (Len(Current.undo) > 1)
  <2>1. (Len(Current.undo) > 1) \in BOOLEAN
    BY SMT
  <2> QED
    BY <2>1, Zenon
<1>6. PICK t : t = [tabs[cur] EXCEPT !.text = Last(Current.undo), !.undo = Front(tabs[cur].undo),
                                !.star = b]
  OBVIOUS
<1>7. t \in TabSet /\ t.file = tabs[cur].file /\ t.seen = tabs[cur].seen
  BY <1>2, <1>4, <1>5, <1>6 DEF TabSet
<1>8. tabs' = [tabs EXCEPT ![cur] = t]
  BY <1>2, <1>5, <1>6, TabFacts, <1>1 DEF Undo
<1>9. /\ tabs' \in Seq(TabSet) /\ Len(tabs') = Len(tabs) /\ DOMAIN tabs' = DOMAIN tabs
      /\ tabs'[cur] = t /\ \A k \in DOMAIN tabs \ {cur} : tabs'[k] = tabs[k]
  BY <1>1, <1>2, <1>7, <1>8, TabFacts, ExceptSeq
<1>10. view' \in Views /\ AllTold'
  BY <1>1, <1>7, <1>9, SameFiles DEF Undo, watch
<1> QED
  BY <1>1, <1>9, <1>10 DEF Inv, TypeInv, Undo, watch

-----------------------------------------------------------------------------
(* Saving. *)

LEMMA SaveInv == ASSUME Inv, Save PROVE Inv'
<1>1. TypeInv /\ AllTold /\ HasEditor /\ Current.file \in Files
  BY TabFacts DEF Inv, Save, TabSet
<1>2. silent \subseteq Files
  BY <1>1, TabFacts
<1>3. CASE Saved(Current.file)
  <2>1. /\ view' \in Views /\ AllTold'
        /\ disk' \in [Files -> Texts] /\ timers' \in 0..MaxTimers
        /\ Len(tabs') = Len(tabs)
    BY <1>1, <1>2, <1>3, SavedTold DEF Save
  <2> QED
    BY <1>1, <2>1 DEF Inv, TypeInv, Save, HasEditor, Free
<1>4. CASE NotSaved
  BY <1>1, <1>4, SameViewInv DEF Save, NotSaved, TypeInv
<1> QED
  BY <1>3, <1>4 DEF Save

LEMMA SaveAsInv == ASSUME Inv, SaveAs PROVE Inv'
<1>1. TypeInv /\ AllTold /\ HasEditor
  BY DEF Inv, SaveAs
<1>2. PICK f \in Chosen :
        \/ Saved(f) /\ silent' = silent \cup {f}
        \/ /\ tabs' = [tabs EXCEPT ![cur].file = f]
           /\ silent' = silent \cup {f}
           /\ StartTimer /\ UNCHANGED <<disk, pending, stuck>>
  BY DEF SaveAs
<1>3. f \in Files /\ silent' = silent \cup {f} /\ silent' \subseteq Files
  BY <1>1, <1>2, TabFacts, MusrEditAssumption
<1>4. CASE Saved(f)
  <2>1. /\ view' \in Views /\ AllTold'
        /\ disk' \in [Files -> Texts] /\ timers' \in 0..MaxTimers
        /\ Len(tabs') = Len(tabs)
    BY <1>1, <1>3, <1>4, SavedTold DEF SaveAs
  <2> QED
    BY <1>1, <2>1 DEF Inv, TypeInv, SaveAs, HasEditor, Free
<1>5. CASE /\ tabs' = [tabs EXCEPT ![cur].file = f]
           /\ StartTimer /\ UNCHANGED <<disk, pending, stuck>>
  <2>1. cur \in DOMAIN tabs /\ tabs[cur] \in TabSet /\ cur \in 1..Len(tabs)
    BY <1>1, TabFacts
  <2>2. PICK t : t = [tabs[cur] EXCEPT !.file = f]
    OBVIOUS
  <2>3. t \in TabSet /\ t.file = f
    BY <1>3, <2>1, <2>2 DEF TabSet
  <2>4. tabs' = [tabs EXCEPT ![cur] = t]
    BY <1>5, <2>2
  <2>5. /\ tabs' \in Seq(TabSet) /\ Len(tabs') = Len(tabs) /\ DOMAIN tabs' = DOMAIN tabs
        /\ tabs'[cur] = t /\ \A k \in DOMAIN tabs \ {cur} : tabs'[k] = tabs[k]
    BY <1>1, <2>1, <2>3, <2>4, TabFacts, ExceptSeq
  <2>6. ASSUME NEW k \in DOMAIN tabs',
               tabs'[k].seen # disk'[tabs'[k].file] \/ tabs'[k].file \notin watched'
        PROVE  tabs'[k].file \in pending' \cup ToSet(asked') \cup silent'
    <3>1. CASE k = cur
      BY <1>3, <2>3, <2>5, <3>1
    <3>2. CASE k # cur
      <4>1. k \in DOMAIN tabs /\ tabs'[k] = tabs[k]
        BY <2>5, <3>2
      <4>2. UNCHANGED <<disk, watched, pending, asked>>
        BY <1>5 DEF SaveAs
      <4> QED
        BY <1>1, <1>3, <2>6, <4>1, <4>2, TabWasTold
    <3> QED
      BY <3>1, <3>2
  <2>7. watched' \subseteq Files /\ pending' \subseteq Files
    BY <1>1, <1>5, TabFacts DEF SaveAs
  <2>8. view' \in Views /\ AllTold'
    BY <1>3, <2>5, <2>6, <2>7, ViewAfter
  <2>9. timers' \in 0..MaxTimers
    BY <1>1, <1>5, MusrEditAssumption DEF StartTimer, TypeInv
  <2>10. UNCHANGED <<disk, cur, last, asked, fit, steps>> /\ active' = FALSE /\ fit = None
    BY <1>5 DEF SaveAs, Free
  <2> QED
    BY <1>1, <2>5, <2>8, <2>9, <2>10 DEF Inv, TypeInv, HasEditor
<1> QED
  BY <1>2, <1>4, <1>5

(* Before another program gets the current file.                           *)
LEMMA SaveFirstTold ==
  ASSUME Inv, HasEditor, SaveFirst, UNCHANGED <<cur, watched, asked, silent>>
  PROVE  /\ view' \in Views /\ AllTold'
         /\ disk' \in [Files -> Texts] /\ timers' \in 0..MaxTimers
         /\ Len(tabs') = Len(tabs) /\ active' \in BOOLEAN
<1>1. TypeInv /\ AllTold /\ Current.file \in Files /\ silent \subseteq Files
  BY TabFacts DEF Inv, TabSet
<1>2. CASE Current.star /\ active' = FALSE /\ Saved(Current.file)
  BY <1>1, <1>2, SavedTold
<1>3. CASE active' = FALSE /\ NotSaved
  BY <1>1, <1>3, TabFacts, SameFiles DEF NotSaved, TypeInv
<1>4. CASE UNCHANGED <<disk, tabs, pending, active, timers, stuck>>
  BY <1>1, <1>4, TabFacts, SameFiles DEF TypeInv
<1> QED
  BY <1>2, <1>3, <1>4 DEF SaveFirst

LEMMA MusrFitInv == ASSUME Inv, MusrFit PROVE Inv'
<1>1. TypeInv /\ AllTold /\ HasEditor /\ Current.file \in Files
  BY TabFacts DEF Inv, MusrFit, TabSet
<1>2. fit' \in Dialogs /\ tabs # <<>>
  <2>1. cur \in 1..Len(tabs)
    BY <1>1, TabFacts
  <2>2. tabs # <<>>
    BY <2>1, <1>1, TabFacts, EmptySeq
  <2> QED
    BY <1>1, <2>2 DEF MusrFit, Dialogs
<1>3. CASE Current.star /\ SaveFirst
  <2>1. /\ view' \in Views /\ AllTold'
        /\ disk' \in [Files -> Texts] /\ timers' \in 0..MaxTimers
        /\ Len(tabs') = Len(tabs) /\ active' \in BOOLEAN
    BY <1>1, <1>3, SaveFirstTold DEF MusrFit
  <2>2. tabs' # <<>> /\ cur' # 0
    <3>1. tabs' \in Seq(TabSet) /\ tabs \in Seq(TabSet)
      BY <1>1, <2>1, TabFacts DEF view, Views
    <3> QED
      BY <1>1, <1>2, <2>1, <3>1, EmptySeq DEF MusrFit, HasEditor
  <2> QED
    BY <1>1, <1>2, <2>1, <2>2 DEF Inv, TypeInv, MusrFit
<1>4. CASE active' = FALSE /\ UNCHANGED <<disk, tabs, pending, timers, stuck>>
  BY <1>1, <1>2, <1>4, SameViewInv DEF MusrFit, TypeInv
<1> QED
  BY <1>3, <1>4 DEF MusrFit

LEMMA MusrSetStepsInv == ASSUME Inv, MusrSetSteps PROVE Inv'
<1>1. TypeInv /\ AllTold /\ HasEditor /\ Current.file \in Files
  BY TabFacts DEF Inv, MusrSetSteps, TabSet
<1>2. steps' \in Dialogs
  BY <1>1 DEF MusrSetSteps, Dialogs
<1>3. /\ view' \in Views /\ AllTold'
      /\ disk' \in [Files -> Texts] /\ timers' \in 0..MaxTimers
      /\ Len(tabs') = Len(tabs) /\ active' \in BOOLEAN
  BY <1>1, SaveFirstTold DEF MusrSetSteps
<1>4. fit' = None
  BY DEF MusrSetSteps, Free
<1> QED
  BY <1>1, <1>2, <1>3, <1>4 DEF Inv, TypeInv, MusrSetSteps, HasEditor

-----------------------------------------------------------------------------
(* Opening, loading again and closing. *)

LEMMA BecomesInv ==
  ASSUME Inv, NEW w \in Views, Becomes(w), Told(w, ToSet(asked'), disk),
         UNCHANGED <<disk, last>>, cur' \in 0..Len(w.tabs), w.tabs # <<>> => cur' # 0,
         active' \in BOOLEAN, timers' \in 0..MaxTimers, asked' \in Seq(Files),
         fit' \in {None} \cup Dialogs, steps' \in {None} \cup Dialogs,
         fit' # None => w.tabs # <<>>
  PROVE  Inv'
<1>1. view' \in Views /\ AllTold' /\ tabs' = w.tabs
  BY ViewBecomes
<1> QED
  BY <1>1 DEF Inv, TypeInv

LEMMA OpenInv == ASSUME Inv, Open PROVE Inv'
<1>1. TypeInv /\ AllTold /\ fit' = None
  BY DEF Inv, Open, Free
<1>2. /\ view \in Views /\ view.tabs = tabs /\ Len(tabs) \in Nat /\ DOMAIN tabs = 1..Len(tabs)
      /\ Told(view, ToSet(asked'), disk) /\ disk \in [Files -> Texts]
  BY <1>1, TabFacts DEF Open, AllTold, TypeInv
<1>3. PICK f \in Chosen :
        IF Shown(tabs, f)
        THEN LET k == CHOOSE k \in DOMAIN tabs :
                        tabs[k].file = f /\ \A j \in 1..k - 1 : tabs[j].file # f
             IN Becomes(CloseLoad(view, k, TRUE)) /\ cur' = k
        ELSE Becomes(Load(view, f, Len(tabs) + 1)) /\ cur' = Len(tabs) + 1
  BY DEF Open
<1>4. f \in Files
  BY MusrEditAssumption
<1>5. CASE Shown(tabs, f)
  <2>1. PICK k : k = CHOOSE l \in DOMAIN tabs :
                       tabs[l].file = f /\ \A j \in 1..l - 1 : tabs[j].file # f
    OBVIOUS
  <2>2. PICK T : T = {j \in DOMAIN tabs : tabs[j].file = f}
    OBVIOUS
  <2>3. T \subseteq Nat /\ T # {}
    BY <1>2, <1>5, <2>2 DEF Shown
  <2>4. PICK m \in T : \A j \in T : m <= j
    BY <2>3, LeastOne
  <2>5. \A j \in 1..m - 1 : tabs[j].file # f
    <3> SUFFICES ASSUME NEW j \in 1..m - 1, tabs[j].file = f PROVE FALSE
      OBVIOUS
    <3>1. m \in 1..Len(tabs)
      BY <1>2, <2>2
    <3>2. j \in DOMAIN tabs /\ ~(m <= j)
      BY <1>2, <3>1
    <3> QED
      BY <2>2, <2>4, <3>2
  <2>6. k \in DOMAIN tabs
    BY <2>1, <2>2, <2>4, <2>5
  <2>7. PICK w : w = CloseLoad(view, k, TRUE)
    OBVIOUS
  <2>8. /\ w \in Views /\ Len(w.tabs) \in {Len(tabs), Len(tabs) + 1}
        /\ Told(w, ToSet(asked'), disk)
    BY <1>2, <2>6, <2>7, CloseLoadTold
  <2>9. Becomes(w) /\ cur' = k
    BY <1>3, <1>5, <2>1, <2>7
  <2>10. cur' \in 0..Len(w.tabs) /\ cur' # 0
    BY <1>2, <2>6, <2>8, <2>9
  <2> QED
    BY <1>1, <2>8, <2>9, <2>10, BecomesInv DEF Open, TypeInv
<1>6. CASE ~Shown(tabs, f)
  <2>1. PICK w : w = Load(view, f, Len(tabs) + 1)
    OBVIOUS
  <2>2. Len(tabs) + 1 \in 1..Len(view.tabs) + 1
    BY <1>2
  <2>3. /\ w \in Views /\ Len(w.tabs) = Len(tabs) + 1
        /\ Told(w, ToSet(asked'), disk)
    BY <1>2, <1>4, <2>1, <2>2, LoadTold
  <2>4. Becomes(w) /\ cur' = Len(tabs) + 1
    BY <1>3, <1>6, <2>1
  <2>5. cur' \in 0..Len(w.tabs) /\ cur' # 0
    BY <1>2, <2>3, <2>4
  <2> QED
    BY <1>1, <2>3, <2>4, <2>5, BecomesInv DEF Open, TypeInv
<1> QED
  BY <1>5, <1>6

LEMMA ReloadInv == ASSUME Inv, Reload PROVE Inv'
<1>1. TypeInv /\ AllTold /\ fit' = None /\ HasEditor
  BY DEF Inv, Reload, Free
<1>2. /\ view \in Views /\ view.tabs = tabs /\ Len(tabs) \in Nat /\ DOMAIN tabs = 1..Len(tabs)
      /\ Told(view, ToSet(asked'), disk) /\ disk \in [Files -> Texts]
      /\ cur \in DOMAIN tabs
  BY <1>1, TabFacts DEF Reload, AllTold, TypeInv
<1>3. PICK w : w = CloseLoad(view, cur, TRUE)
  OBVIOUS
<1>4. /\ w \in Views /\ Len(w.tabs) \in {Len(tabs), Len(tabs) + 1}
      /\ Told(w, ToSet(asked'), disk)
  BY <1>2, <1>3, CloseLoadTold
<1>5. cur' \in 0..Len(w.tabs) /\ cur' # 0
  BY <1>2, <1>4 DEF Reload
<1> QED
  BY <1>1, <1>3, <1>4, <1>5, BecomesInv DEF Reload, TypeInv

LEMMA CloseInv == ASSUME Inv, Close PROVE Inv'
<1>1. TypeInv /\ AllTold /\ fit' = None /\ HasEditor
  BY DEF Inv, Close, Free
<1>2. /\ view \in Views /\ view.tabs = tabs /\ Len(tabs) \in Nat /\ DOMAIN tabs = 1..Len(tabs)
      /\ Told(view, ToSet(asked'), disk)
      /\ cur \in DOMAIN tabs
  BY <1>1, TabFacts DEF Close, AllTold
<1>3. PICK w : w = CloseTab(view, cur)
  OBVIOUS
<1>4. /\ w \in Views /\ Len(w.tabs) = Len(tabs) - 1
      /\ Told(w, ToSet(asked'), disk)
  BY <1>2, <1>3, CloseTabTold
<1>5. cur' \in 0..Len(w.tabs)
  <2>1. PICK n \in Nat : n = Len(tabs) /\ Len(w.tabs) = n - 1 /\ cur \in 1..n
    BY <1>2, <1>4
  <2>2. cur' = IF cur = n THEN cur - 1 ELSE cur
    BY <2>1 DEF Close
  <2>3. cur' \in 0..n - 1
    BY <2>1, <2>2
  <2> QED
    BY <2>1, <2>3
<1>6. w.tabs # <<>> => cur' # 0
  <2>1. w.tabs \in Seq(TabSet)
    BY <1>4 DEF Views
  <2>2. w.tabs # <<>> => Len(tabs) - 1 # 0
    BY <1>4, <2>1, EmptySeq
  <2> QED
    BY <1>2, <2>2 DEF Close
<1> QED
  BY <1>1, <1>3, <1>4, <1>5, <1>6, BecomesInv DEF Close, TypeInv

LEMMA CloseAllOthersInv == ASSUME Inv, CloseAllOthers PROVE Inv'
<1>1. TypeInv /\ AllTold /\ fit = None /\ HasEditor
  BY DEF Inv, CloseAllOthers, Free
<1>2. UNCHANGED <<disk, active, timers, asked, fit, steps, stuck, last>>
  BY DEF CloseAllOthers
<1>3. CASE UNCHANGED <<tabs, watched, pending, silent, cur>>
  BY <1>1, <1>2, <1>3, SameViewInv DEF TypeInv
<1>4. CASE ~UNCHANGED <<tabs, watched, pending, silent, cur>>
  <2>1. PICK closed : closed = {tabs[k].file : k \in DOMAIN tabs \ {cur}}
    OBVIOUS
  <2>2. PICK w : w = [tabs |-> <<Current>>, watched |-> watched \ closed,
                      pending |-> pending \ closed,
                      silent |-> (silent \ closed) \cup (closed \cap {Current.file})]
    OBVIOUS
  <2>3. Becomes(w) /\ cur' = 1
    BY <1>4, <2>1, <2>2 DEF CloseAllOthers
  <2>4. /\ watched \subseteq Files /\ pending \subseteq Files /\ silent \subseteq Files
        /\ cur \in DOMAIN tabs /\ Current = tabs[cur] /\ Current \in TabSet
        /\ Current.file \in Files
    BY <1>1, TabFacts DEF Current, TabSet
  <2>5. <<Current>> \in Seq(TabSet) /\ Len(<<Current>>) = 1 /\ DOMAIN <<Current>> = 1..1
        /\ <<Current>>[1] = Current
    BY <2>4
  <2>6. w \in Views /\ w.tabs = <<Current>>
    BY <2>2, <2>4, <2>5 DEF Views
  <2>7. TabTold(Current, w, ToSet(asked'), disk)
    <3>1. Current.seen # disk[Current.file] \/ Current.file \notin watched =>
            Current.file \in pending \cup ToSet(asked) \cup silent
      BY <1>1, <2>4, TabWasTold
    <3> QED
      BY <1>2, <2>2, <3>1 DEF TabTold
  <2>8. Told(w, ToSet(asked'), disk)
    BY <2>5, <2>6, <2>7 DEF Told
  <2>9. cur' \in 0..Len(w.tabs) /\ cur' # 0
    BY <2>3, <2>5, <2>6
  <2> QED
    BY <1>1, <1>2, <2>3, <2>6, <2>8, <2>9, BecomesInv DEF TypeInv
<1> QED
  BY <1>3, <1>4

-----------------------------------------------------------------------------
(* Other programs, and the watcher. *)

LEMMA ExternalInv == ASSUME Inv, External PROVE Inv'
<1>1. TypeInv /\ AllTold
  BY DEF Inv
<1>2. PICK f \in Files :
        /\ disk' = [disk EXCEPT ![f] = last']
        /\ pending' = pending \cup ({f} \cap watched)
        /\ watched' \in {watched, watched \ {f}}
  BY DEF External
<1>3. last' \in Texts
  BY <1>1, MusrEditAssumption DEF External, TypeInv, Texts
<1>4. disk' \in [Files -> Texts] /\ \A g \in Files \ {f} : disk'[g] = disk[g]
  BY <1>1, <1>2, <1>3 DEF TypeInv
<1>5. watched' \subseteq watched /\ watched \ {f} \subseteq watched'
  BY <1>2
<1>6. UNCHANGED <<tabs, cur, active, timers, asked, fit, steps, silent>>
  BY DEF External
<1>7. view' \in Views /\ AllTold'
  BY <1>1, <1>2, <1>4, <1>5, <1>6, WriteFiles
<1> QED
  BY <1>1, <1>3, <1>4, <1>6, <1>7 DEF Inv, TypeInv

LEMMA FitWritesInv == ASSUME Inv, FitWrites PROVE Inv'
<1>1. TypeInv /\ AllTold
  BY DEF Inv
<1>2. PICK both : both = {fit.file, Complement(fit.file)}
  OBVIOUS
<1>3. /\ disk' = [f \in Files |-> IF f \in both THEN last' ELSE disk[f]]
      /\ pending' = pending \cup (both \cap watched)
  BY <1>2 DEF FitWrites
<1>4. last' \in Texts
  BY <1>1, MusrEditAssumption DEF FitWrites, TypeInv, Texts
<1>5. disk' \in [Files -> Texts] /\ \A g \in Files \ both : disk'[g] = disk[g]
  BY <1>1, <1>3, <1>4 DEF TypeInv
<1>6. UNCHANGED <<tabs, cur, watched, active, timers, asked, steps, silent>>
  BY DEF FitWrites
<1>7. view' \in Views /\ AllTold'
  BY <1>1, <1>3, <1>5, <1>6, WriteFiles
<1>8. fit' \in Dialogs /\ tabs # <<>>
  BY <1>1 DEF FitWrites, TypeInv, Dialogs
<1> QED
  BY <1>1, <1>4, <1>5, <1>6, <1>7, <1>8 DEF Inv, TypeInv

LEMMA StepsWritesInv == ASSUME Inv, StepsWrites PROVE Inv'
<1>1. TypeInv /\ AllTold
  BY DEF Inv
<1>2. PICK f : f = steps.file
  OBVIOUS
<1>3. /\ disk' = [disk EXCEPT ![f] = last']
      /\ pending' = pending \cup ({f} \cap watched)
  BY <1>2 DEF StepsWrites
<1>4. last' \in Texts
  BY <1>1, MusrEditAssumption DEF StepsWrites, TypeInv, Texts
<1>5. disk' \in [Files -> Texts] /\ \A g \in Files \ {f} : disk'[g] = disk[g]
  BY <1>1, <1>3, <1>4 DEF TypeInv
<1>6. UNCHANGED <<tabs, cur, watched, active, timers, asked, fit, silent>>
  BY DEF StepsWrites
<1>7. view' \in Views /\ AllTold'
  BY <1>1, <1>3, <1>5, <1>6, WriteFiles
<1>8. steps' \in Dialogs
  BY <1>1 DEF StepsWrites, TypeInv, Dialogs
<1> QED
  BY <1>1, <1>4, <1>5, <1>6, <1>7, <1>8 DEF Inv, TypeInv

(* The user does not hear of a change: what is left out is in silent.      *)
LEMMA IgnoredTold ==
  ASSUME TypeInv, AllTold, NEW f \in Files, NEW k \in DOMAIN tabs,
         tabs[k].seen # disk[tabs[k].file] \/ tabs[k].file \notin watched
  PROVE  /\ tabs[k].file \in (pending \ {f}) \cup (ToSet(asked) \ {f}) \cup Ignored(f)
         /\ Ignored(f) \subseteq Files
BY TabFacts, TabWasTold DEF Ignored

LEMMA IgnoredFiles ==
  ASSUME TypeInv, NEW f \in Files
  PROVE  Ignored(f) \subseteq Files /\ silent \subseteq Ignored(f)
BY TabFacts DEF Ignored

LEMMA NoticeInv == ASSUME Inv, Notice PROVE Inv'
<1>1. TypeInv /\ AllTold
  BY DEF Inv
<1>2. PICK f \in pending :
        /\ pending' = pending \ {f}
        /\ IF active
           THEN active' = FALSE /\ asked' = Append(asked, f) /\ UNCHANGED silent
           ELSE silent' = Ignored(f) /\ UNCHANGED <<active, asked>>
  BY DEF Notice
<1>3. f \in Files /\ pending' \subseteq Files
  BY <1>1, <1>2, TabFacts
<1>4. UNCHANGED <<disk, tabs, cur, watched, timers, fit, steps, last>>
  BY DEF Notice
<1>5. active' \in BOOLEAN
  BY <1>1, <1>2 DEF TypeInv
<1>6. CASE asked' = Append(asked, f) /\ UNCHANGED silent
  <2>1. asked \in Seq(Files)
    BY <1>1 DEF TypeInv
  <2>2. asked' \in Seq(Files) /\ ToSet(asked') = ToSet(asked) \cup {f}
    <3>1. /\ asked' \in Seq(Files) /\ Len(asked') = Len(asked) + 1 /\ Len(asked) \in Nat
          /\ \A i \in 1..Len(asked) : asked'[i] = asked[i]
          /\ asked'[Len(asked) + 1] = f
      BY <1>3, <1>6, <2>1, AppendProperties
    <3>2. DOMAIN asked = 1..Len(asked) /\ DOMAIN asked' = 1..Len(asked) + 1
      BY <2>1, <3>1, LenProperties
    <3>3. Len(asked) + 1 \in DOMAIN asked' /\ DOMAIN asked' = DOMAIN asked \cup {Len(asked) + 1}
      BY <3>1, <3>2
    <3> QED
      BY <3>1, <3>2, <3>3 DEF ToSet
  <2>3. view' \in Views /\ AllTold'
    <3>1. silent' \subseteq Files /\ watched' \subseteq Files /\ tabs' \in Seq(TabSet)
      BY <1>1, <1>4, <1>6, TabFacts
    <3>2. ASSUME NEW k \in DOMAIN tabs',
                 tabs'[k].seen # disk'[tabs'[k].file] \/ tabs'[k].file \notin watched'
          PROVE  tabs'[k].file \in pending' \cup ToSet(asked') \cup silent'
      BY <1>1, <1>2, <1>4, <1>6, <2>2, <3>2, TabWasTold
    <3> QED
      BY <1>3, <3>1, <3>2, ViewAfter
  <2> QED
    BY <1>1, <1>4, <1>5, <2>2, <2>3 DEF Inv, TypeInv
<1>7. CASE silent' = Ignored(f) /\ UNCHANGED asked
  <2>1. silent' \subseteq Files
    BY <1>1, <1>3, <1>7, IgnoredFiles
  <2>2. watched' \subseteq Files /\ tabs' \in Seq(TabSet)
    BY <1>1, <1>4, TabFacts
  <2>3. ASSUME NEW k \in DOMAIN tabs',
               tabs'[k].seen # disk'[tabs'[k].file] \/ tabs'[k].file \notin watched'
        PROVE  tabs'[k].file \in pending' \cup ToSet(asked') \cup silent'
    BY <1>1, <1>2, <1>3, <1>4, <1>7, <2>3, IgnoredTold
  <2>4. view' \in Views /\ AllTold'
    BY <1>3, <2>1, <2>2, <2>3, ViewAfter
  <2> QED
    BY <1>1, <1>4, <1>5, <1>7, <2>4 DEF Inv, TypeInv
<1> QED
  BY <1>2, <1>6, <1>7

-----------------------------------------------------------------------------
(* The end of a dialog: what the view becomes, and which tabs are kept.    *)

LEMMA KeepsTransitive ==
  ASSUME NEW u, NEW v, NEW w, Keeps(u, v), Keeps(v, w)
  PROVE  Keeps(u, w)
BY DEF Keeps

(* What all three of them need to know of the view.                        *)
Follows(w) ==
  /\ w \in Views /\ Becomes(w) /\ Told(w, ToSet(asked'), disk)
  /\ Len(w.tabs) \in Nat /\ Len(w.tabs) >= Len(tabs)

LEMMA QuietFollows ==
  ASSUME TypeInv, AllTold, NEW f \in Files, NEW w,
         w = [view EXCEPT !.silent = Ignored(f)], Becomes(w),
         ToSet(asked) \ {f} \subseteq ToSet(asked')
  PROVE  Follows(w) /\ Keeps(view, w) /\ w.tabs = tabs
<1>1. /\ view \in Views /\ view.tabs = tabs /\ view.watched = watched
      /\ view.pending = pending /\ Len(tabs) \in Nat
  BY TabFacts
<1>2. Ignored(f) \subseteq Files
  BY IgnoredFiles
<1>3. /\ w \in Views /\ w.tabs = tabs /\ w.watched = watched /\ w.pending = pending
      /\ w.silent = Ignored(f)
  BY <1>1, <1>2 DEF Views
<1>4. ASSUME NEW k \in DOMAIN tabs PROVE TabTold(tabs[k], w, ToSet(asked'), disk)
  BY <1>3, IgnoredTold DEF TabTold
<1>5. Told(w, ToSet(asked'), disk)
  BY <1>3, <1>4 DEF Told
<1>6. Keeps(view, w)
  BY <1>1, <1>3 DEF Keeps
<1> QED
  BY <1>1, <1>3, <1>5, <1>6 DEF Follows

LEMMA AnswerFollows ==
  ASSUME Inv, Answer
  PROVE  \E w : Follows(w) /\ Keeps(view, w) /\ cur' \in 0..Len(w.tabs)
                /\ (tabs # <<>> => cur' # 0) /\ timers' \in 0..MaxTimers
                /\ Len(w.tabs) = Len(tabs)
<1>1. TypeInv /\ AllTold /\ asked \in Seq(Files) /\ asked # <<>> /\ asked' = Front(asked)
  BY DEF Inv, Answer, TypeInv
<1>2. PICK f : f = Last(asked)
  OBVIOUS
<1>3. f \in Files /\ ToSet(asked) = ToSet(asked') \cup {f}
  BY <1>1, <1>2, FrontProperties
<1>4. PICK quiet : quiet = [view EXCEPT !.silent = Ignored(f)]
  OBVIOUS
<1>5. PICK M : M = Matches(f)
  OBVIOUS
<1>6. PICK k : k = CHOOSE l \in M : \A j \in M : l <= j
  OBVIOUS
<1>7. PICK without : without = [view EXCEPT !.tabs = RemoveAt(@, k)]
  OBVIOUS
<1>8. StartTimer /\ timers' \in 0..MaxTimers
  <2>1. StartTimer
    BY DEF Answer, Activation
  <2> QED
    BY <1>1, <2>1, MusrEditAssumption DEF StartTimer, TypeInv
<1>9. \/ Becomes(quiet) /\ UNCHANGED cur
      \/ M # {} /\ Becomes(Load(RemovePath(without, f), f, k)) /\ cur' = k
  BY <1>2, <1>4, <1>5, <1>6, <1>7 DEF Answer
<1>10. CASE Becomes(quiet) /\ UNCHANGED cur
  <2>1. Follows(quiet) /\ Keeps(view, quiet) /\ quiet.tabs = tabs
    BY <1>1, <1>3, <1>4, <1>10, QuietFollows
  <2> QED
    BY <1>1, <1>8, <1>10, <2>1 DEF TypeInv
<1>11. CASE M # {} /\ Becomes(Load(RemovePath(without, f), f, k)) /\ cur' = k
  <2>1. /\ view \in Views /\ view.tabs = tabs /\ view.watched = watched
        /\ view.pending = pending /\ view.silent = silent
        /\ tabs \in Seq(TabSet) /\ Len(tabs) \in Nat /\ DOMAIN tabs = 1..Len(tabs)
        /\ disk \in [Files -> Texts]
    BY <1>1, TabFacts DEF TypeInv
  <2>2. M \subseteq Nat /\ M \subseteq DOMAIN tabs /\ \A j \in M : ~tabs[j].star
    BY <1>5, <2>1 DEF Matches
  <2>3. k \in M
    <3>1. PICK n \in M : \A j \in M : n <= j
      BY <1>11, <2>2, LeastOne
    <3> QED
      BY <1>6, <3>1
  <2>4. k \in 1..Len(tabs) /\ k \in DOMAIN tabs /\ ~tabs[k].star
    BY <2>1, <2>2, <2>3
  <2>5. tabs \in Seq(TabSet) /\ k \in 1..Len(tabs)
    BY <2>1, <2>4
  <2>6. /\ RemoveAt(tabs, k) \in Seq(TabSet)
        /\ Len(RemoveAt(tabs, k)) = Len(tabs) - 1
        /\ \A j \in DOMAIN RemoveAt(tabs, k) : \E m \in DOMAIN tabs : RemoveAt(tabs, k)[j] = tabs[m]
        /\ \A m \in DOMAIN tabs :
             m # k => \E j \in DOMAIN RemoveAt(tabs, k) : RemoveAt(tabs, k)[j] = tabs[m]
    BY <2>5, RemoveAtProperties
  <2>7. /\ without \in Views /\ without.tabs = RemoveAt(tabs, k)
        /\ without.watched = watched /\ without.pending = pending
        /\ without.silent = silent
    BY <1>7, <2>1, <2>6 DEF Views
  <2>8. /\ Len(without.tabs) = Len(tabs) - 1
        /\ \A j \in DOMAIN without.tabs : \E m \in DOMAIN tabs : without.tabs[j] = tabs[m]
        /\ \A m \in DOMAIN tabs :
             m # k => \E j \in DOMAIN without.tabs : without.tabs[j] = tabs[m]
    BY <2>6, <2>7, Zenon
  <2>9. \A m \in DOMAIN tabs : TabTold(tabs[m], without, ToSet(asked') \cup {f}, disk)
    BY <1>1, <1>3, <2>7, TabWasTold DEF TabTold
  <2>10. PICK u : u = RemovePath(without, f)
    OBVIOUS
  <2>11. u \in Views /\ u.tabs = without.tabs /\ Told(u, ToSet(asked'), disk)
    BY <1>3, <2>7, <2>8, <2>9, <2>10, RemovePathTold
  <2>12. PICK w : w = Load(u, f, k)
    OBVIOUS
  <2>13. k \in 1..Len(u.tabs) + 1
    <3>1. PICK n \in Nat : n = Len(tabs)
      BY <2>1
    <3>2. k \in 1..n /\ Len(u.tabs) = n - 1
      BY <2>4, <2>8, <2>11, <3>1
    <3> QED
      BY <3>1, <3>2
  <2>14. /\ w \in Views /\ Len(w.tabs) = Len(u.tabs) + 1 /\ Told(w, ToSet(asked'), disk)
         /\ Keeps(u, w)
    BY <1>3, <2>1, <2>11, <2>12, <2>13, LoadTold
  <2>15. Keeps(view, u)
    <3>1. ASSUME NEW m \in DOMAIN tabs, tabs[m].star
          PROVE  \E j \in DOMAIN u.tabs : u.tabs[j] = tabs[m]
      <4>1. m # k
        BY <2>4, <3>1
      <4>2. \E j \in DOMAIN without.tabs : without.tabs[j] = tabs[m]
        BY <2>8, <4>1
      <4> QED
        BY <2>11, <4>2
    <3> QED
      BY <2>1, <3>1 DEF Keeps
  <2>16. Len(w.tabs) = Len(tabs)
    <3>1. PICK n \in Nat : n = Len(tabs)
      BY <2>1
    <3>2. Len(w.tabs) = (n - 1) + 1
      BY <2>8, <2>11, <2>14, <3>1
    <3> QED
      BY <3>1, <3>2
  <2>17. Becomes(w) /\ cur' = k
    BY <1>11, <2>10, <2>12
  <2>18. Follows(w)
    BY <2>1, <2>14, <2>16, <2>17 DEF Follows
  <2>19. Keeps(view, w)
    BY <2>14, <2>15, KeepsTransitive
  <2>20. cur' \in 0..Len(w.tabs) /\ cur' # 0
    BY <2>1, <2>4, <2>16, <2>17
  <2> QED
    BY <1>8, <2>16, <2>18, <2>19, <2>20
<1> QED
  BY <1>9, <1>10, <1>11

LEMMA FitEndFollows ==
  ASSUME Inv, NEW close \in BOOLEAN, FitEnd(close)
  PROVE  \E w : Follows(w) /\ (~close => Keeps(view, w))
                /\ timers' \in 0..MaxTimers /\ cur # 0
<1>1. /\ TypeInv /\ AllTold /\ UNCHANGED <<disk, cur, asked>>
      /\ disk \in [Files -> Texts] /\ HasEditor
  BY DEF Inv, FitEnd, TypeInv, HasEditor
<1>2. /\ view \in Views /\ view.tabs = tabs /\ Len(tabs) \in Nat
      /\ cur \in DOMAIN tabs /\ Current \in TabSet /\ Current.file \in Files
  BY <1>1, TabFacts DEF TabSet
<1>3. Told(view, ToSet(asked'), disk)
  BY <1>1 DEF AllTold
<1>4. timers' \in 0..MaxTimers
  BY <1>1, MusrEditAssumption DEF FitEnd, StartTimer, TypeInv
<1>5. PICK v : v = CloseLoad(view, cur, close)
  OBVIOUS
<1>6. /\ v \in Views /\ Len(v.tabs) \in {Len(tabs), Len(tabs) + 1}
      /\ Told(v, ToSet(asked'), disk) /\ (~close => Keeps(view, v))
  BY <1>1, <1>2, <1>3, <1>5, CloseLoadTold
<1>7. PICK other : other = OtherTab(v.tabs, Current.file)
  OBVIOUS
<1>8. PICK k : k = CHOOSE l \in other : \A j \in other : l <= j
  OBVIOUS
<1>9. PICK w : w = Load(IF Closes(v.tabs[k], close) THEN CloseTab(v, k) ELSE v,
                        Complement(Current.file), k)
  OBVIOUS
<1>10. Becomes(IF other = {} THEN v ELSE w)
  BY <1>5, <1>7, <1>8, <1>9 DEF FitEnd
<1>11. CASE other = {}
  <2>1. Follows(v)
    BY <1>2, <1>6, <1>10, <1>11 DEF Follows
  <2> QED
    BY <1>1, <1>4, <1>6, <2>1 DEF HasEditor
<1>12. CASE other # {}
  <2>1. v.tabs \in Seq(TabSet) /\ DOMAIN v.tabs = 1..Len(v.tabs) /\ Len(v.tabs) \in Nat
    BY <1>6, LenProperties DEF Views
  <2>2. other \subseteq Nat /\ other \subseteq DOMAIN v.tabs
    BY <1>7, <2>1 DEF OtherTab
  <2>3. k \in other
    <3>1. PICK n \in other : \A j \in other : n <= j
      BY <1>12, <2>2, LeastOne
    <3> QED
      BY <1>8, <3>1
  <2>4. Complement(Current.file) \in Files
    <3>1. Current.file[1] = NoDir
      BY <1>7, <1>12 DEF OtherTab
    <3> QED
      BY <1>2, <3>1, MusrEditAssumption
  <2>5. /\ w \in Views /\ Len(w.tabs) \in {Len(v.tabs), Len(v.tabs) + 1}
        /\ Told(w, ToSet(asked'), disk) /\ (~close => Keeps(v, w))
    BY <1>1, <1>6, <1>9, <2>2, <2>3, <2>4, CloseThenLoad
  <2>6. ~close => Keeps(view, w)
    BY <1>6, <2>5, KeepsTransitive
  <2>7. Len(w.tabs) \in Nat /\ Len(w.tabs) >= Len(tabs)
    BY <1>2, <1>6, <2>5
  <2>8. Follows(w)
    BY <1>10, <1>12, <2>5, <2>7 DEF Follows
  <2> QED
    BY <1>1, <1>4, <2>6, <2>8 DEF HasEditor
<1> QED
  BY <1>11, <1>12

LEMMA StepsEndFollows ==
  ASSUME Inv, NEW close \in BOOLEAN, StepsEnd(close)
  PROVE  \E w : Follows(w) /\ (~close => Keeps(view, w)) /\ (cur = 0 => w.tabs = tabs)
<1>1. /\ TypeInv /\ AllTold /\ UNCHANGED <<disk, cur, asked>>
      /\ disk \in [Files -> Texts]
  BY DEF Inv, StepsEnd, TypeInv
<1>2. /\ view \in Views /\ view.tabs = tabs /\ Len(tabs) \in Nat
      /\ view.watched = watched /\ view.pending = pending /\ view.silent = silent
  BY <1>1, TabFacts
<1>3. Told(view, ToSet(asked'), disk)
  BY <1>1 DEF AllTold
<1>4. CASE UNCHANGED <<tabs, watched, pending, silent>>
  <2>1. Becomes(view)
    BY <1>2, <1>4 DEF Becomes
  <2>2. Follows(view)
    BY <1>2, <1>3, <2>1 DEF Follows
  <2>3. Keeps(view, view)
    BY DEF Keeps
  <2> QED
    BY <1>2, <2>2, <2>3
<1>5. CASE HasEditor /\ Becomes(CloseLoad(view, cur, close))
  <2>1. cur \in DOMAIN view.tabs /\ cur # 0
    BY <1>1, <1>2, <1>5, TabFacts DEF HasEditor
  <2>2. PICK w : w = CloseLoad(view, cur, close)
    OBVIOUS
  <2>3. /\ w \in Views /\ Len(w.tabs) \in {Len(tabs), Len(tabs) + 1}
        /\ Told(w, ToSet(asked'), disk) /\ (~close => Keeps(view, w))
    BY <1>1, <1>2, <1>3, <2>1, <2>2, CloseLoadTold
  <2>4. Follows(w)
    BY <1>2, <1>5, <2>2, <2>3 DEF Follows
  <2> QED
    BY <2>1, <2>3, <2>4
<1> QED
  BY <1>4, <1>5 DEF StepsEnd

LEMMA AnswerInv == ASSUME Inv, Answer PROVE Inv'
<1>1. PICK w : /\ Follows(w) /\ cur' \in 0..Len(w.tabs)
               /\ (tabs # <<>> => cur' # 0) /\ timers' \in 0..MaxTimers
               /\ Len(w.tabs) = Len(tabs)
  BY AnswerFollows
<1>2. TypeInv /\ tabs \in Seq(TabSet)
  BY TabFacts DEF Inv
<1>3. w \in Views /\ w.tabs \in Seq(TabSet)
  BY <1>1 DEF Follows, Views
<1>4. w.tabs # <<>> <=> tabs # <<>>
  BY <1>1, <1>2, <1>3, EmptySeq
<1>5. asked' \in Seq(Files)
  BY <1>2, FrontProperties DEF Answer, TypeInv
<1>6. UNCHANGED <<disk, active, fit, steps, last>>
  BY DEF Answer
<1> QED
  BY <1>1, <1>2, <1>3, <1>4, <1>5, <1>6, BecomesInv DEF Follows, TypeInv

LEMMA FitEndInv == ASSUME Inv, NEW close \in BOOLEAN, FitEnd(close) PROVE Inv'
<1>1. PICK w : Follows(w) /\ timers' \in 0..MaxTimers /\ cur # 0
  BY FitEndFollows
<1>2. TypeInv /\ cur \in 0..Len(tabs) /\ Len(tabs) \in Nat
  BY TabFacts DEF Inv, TypeInv
<1>3. UNCHANGED <<disk, cur, active, asked, steps, last>> /\ fit' = None
  BY DEF FitEnd
<1>4. w \in Views /\ Becomes(w) /\ Told(w, ToSet(asked'), disk) /\ cur' \in 0..Len(w.tabs)
  BY <1>1, <1>2, <1>3 DEF Follows
<1> QED
  BY <1>1, <1>2, <1>3, <1>4, BecomesInv DEF TypeInv

LEMMA StepsEndInv == ASSUME Inv, NEW close \in BOOLEAN, StepsEnd(close) PROVE Inv'
<1>1. PICK w : Follows(w) /\ (cur = 0 => w.tabs = tabs)
  BY StepsEndFollows
<1>2. TypeInv /\ cur \in 0..Len(tabs) /\ Len(tabs) \in Nat /\ tabs \in Seq(TabSet)
      /\ (tabs # <<>> => cur # 0)
  BY TabFacts DEF Inv, TypeInv
<1>3. UNCHANGED <<disk, cur, active, timers, asked, fit, last>> /\ steps' = None
  BY DEF StepsEnd
<1>4. w \in Views /\ Becomes(w) /\ Told(w, ToSet(asked'), disk) /\ cur' \in 0..Len(w.tabs)
  BY <1>1, <1>2, <1>3 DEF Follows
<1>5. w.tabs # <<>> => cur' # 0
  BY <1>1, <1>2, <1>3
<1>6. tabs # <<>> => w.tabs # <<>>
  <2>1. w.tabs \in Seq(TabSet) /\ Len(w.tabs) >= Len(tabs)
    BY <1>1 DEF Follows, Views
  <2>2. tabs # <<>> => Len(tabs) # 0
    BY <1>2, EmptySeq
  <2>3. w.tabs = <<>> => Len(w.tabs) = 0
    BY <2>1, EmptySeq
  <2> QED
    BY <1>2, <2>1, <2>2, <2>3
<1> QED
  BY <1>2, <1>3, <1>4, <1>5, <1>6, BecomesInv DEF TypeInv

-----------------------------------------------------------------------------
(* The theorems. *)

LEMMA NextInv == Inv /\ [Next]_vars => Inv'
<1> SUFFICES ASSUME Inv, [Next]_vars PROVE Inv'
  OBVIOUS
<1>1. CASE UNCHANGED vars
  BY <1>1, SameViewInv DEF vars, watch, Inv, TypeInv
<1>2. CASE User
  BY <1>2, EditInv, UndoInv, SwitchInv, OpenInv, ReloadInv, SaveInv, SaveAsInv, CloseInv,
     CloseAllOthersInv, ExitInv, MusrFitInv, MusrSetStepsInv DEF User
<1>3. CASE Others
  BY <1>3, TimerInv, NoticeInv, AnswerInv, FitEndInv, StepsEndInv, ExternalInv,
     FitWritesInv, StepsWritesInv DEF Others
<1> QED
  BY <1>1, <1>2, <1>3 DEF Next, Terminated

(* The invariant of the editor: its types, every stale tab accounted for,  *)
(* and the questions and dialogs of the handlers that are waiting.         *)
THEOREM EditorInvariant == Spec => []Inv
<1>1. Init => Inv
  BY InitInv
<1>2. Inv /\ [Next]_vars => Inv'
  BY NextInv
<1> QED
  BY <1>1, <1>2, PTL DEF Spec

(* The editor's state keeps its types: the current tab is one of the tabs, *)
(* and the questions, the dialogs and the watcher are about known files.   *)
THEOREM EditorTypes == Spec => []TypeOK
<1>1. Inv => TypeOK
  BY InvImplied
<1> QED
  BY <1>1, EditorInvariant, PTL

(* No tab shows something else than its file without a notification, a     *)
(* question or one of the causes listed in StaleIsReported: load, removePath, *)
(* fileChanged and the handlers that switch the watcher off, in any order. *)
THEOREM StaleTabsReported == Spec => []StaleIsReported
<1>1. Inv => StaleIsReported
  BY InvImplied
<1> QED
  BY <1>1, EditorInvariant, PTL

(* The current tab keeps its text when it is saved, the others stay.       *)
LEMMA SaveFirstKeeps ==
  ASSUME Inv, HasEditor, SaveFirst \/ UNCHANGED tabs, NEW k \in DOMAIN tabs
  PROVE  Kept(k)
<1>1. /\ cur \in DOMAIN tabs /\ Current = tabs[cur] /\ Current \in TabSet /\ cur \in 1..Len(tabs)
      /\ tabs \in Seq(TabSet) /\ DOMAIN tabs = 1..Len(tabs)
  BY TabFacts DEF Current, Inv
<1>2. CASE UNCHANGED tabs
  BY <1>2 DEF Kept
<1>3. CASE Saved(Current.file)
  <2>1. PICK t : t = [Current EXCEPT !.file = Current.file, !.seen = Current.text, !.star = FALSE]
    OBVIOUS
  <2>2. t \in TabSet /\ t.file = Current.file /\ t.text = Current.text
    BY <1>1, <2>1 DEF TabSet
  <2>3. tabs' = [tabs EXCEPT ![cur] = t]
    BY <1>3, <2>1 DEF Saved, Current
  <2>4. /\ DOMAIN tabs' = DOMAIN tabs /\ tabs'[cur] = t
        /\ \A j \in DOMAIN tabs \ {cur} : tabs'[j] = tabs[j]
    BY <1>1, <2>2, <2>3, ExceptSeq
  <2> QED
    BY <1>1, <2>2, <2>4 DEF Kept
<1> QED
  BY <1>2, <1>3 DEF SaveFirst, NotSaved

LEMMA FollowsKeeps ==
  ASSUME Inv, NEW w, Follows(w), Keeps(view, w), NEW k \in DOMAIN tabs, tabs[k].star
  PROVE  Kept(k)
<1>1. view.tabs = tabs
  BY TabFacts DEF Inv
<1>2. tabs' = w.tabs
  BY DEF Follows, Becomes
<1>3. PICK j \in DOMAIN tabs' : tabs'[j] = tabs[k]
  BY <1>1, <1>2 DEF Keeps
<1> QED
  BY <1>3 DEF Kept

(* Whatever the timer, the watcher, other programs, the answer to one      *)
(* question, or the end of musrfit and of musrStep do, and in whichever    *)
(* order, what a tab with a star shows is in a tab or in its file.         *)
THEOREM EditsAreKept == Spec => EditsKept
<1>1. ASSUME Inv, Unasked, NEW k \in DOMAIN tabs, tabs[k].star
      PROVE  Kept(k)
  <2>1. CASE Timer \/ Notice \/ External \/ FitWrites \/ StepsWrites
    <3>1. tabs' = tabs
      BY <2>1 DEF Timer, Notice, External, FitWrites, StepsWrites
    <3> QED
      BY <3>1 DEF Kept
  <2>2. CASE Answer
    BY <1>1, <2>2, AnswerFollows, FollowsKeeps
  <2>3. CASE FitEnd(FALSE)
    BY <1>1, <2>3, FitEndFollows, FollowsKeeps
  <2>4. CASE StepsEnd(FALSE)
    BY <1>1, <2>4, StepsEndFollows, FollowsKeeps
  <2>5. CASE MusrFit
    BY <1>1, <2>5, SaveFirstKeeps DEF MusrFit
  <2>6. CASE MusrSetSteps
    BY <1>1, <2>6, SaveFirstKeeps DEF MusrSetSteps
  <2> QED
    BY <1>1, <2>1, <2>2, <2>3, <2>4, <2>5, <2>6 DEF Unasked
<1>2. Inv => (Unasked => \A k \in DOMAIN tabs : tabs[k].star => Kept(k))
  BY <1>1
<1> QED
  BY <1>2, EditorInvariant, PTL DEF EditsKept
=============================================================================
