----------------------------- MODULE MCAny2Many -----------------------------
(***************************************************************************)
(* A run or two per format, one of whose files may be missing, broken or  *)
(* odd; fits of one or two, with and without ADDRUN; any2many with every   *)
(* output format, with and without packing, compression and -s.            *)
(***************************************************************************)
EXTENDS Any2Many

File(state, histos) == [state |-> state, histos |-> histos]
Two == <<<<1, 2, 4, 8, 16>>, <<32, 64, 128, 256, 512>>>>
Even == <<<<3, 5, 7, 11>>, <<13, 17, 19, 23>>, <<29, 31, 37, 41>>>>

At(dir, name, ext) == Path(dir, name, ext, "as is")

(* name, format and file of the runs *)
LemRuns == {<<"lem06", "root">>, <<"lem12", "root">>}
KeepingRuns == {<<"x1", "dat">>, <<"x2", "mdua">>, <<"x3", "db">>}
OtherRuns == {<<"x4", "NXS">>, <<"x5", "bin">>, <<"x6", "nemu">>, <<"x7", "bin">>, <<"x8", "NXS">>}
Paths == {At("data", r[1], r[2]) : r \in LemRuns \cup KeepingRuns \cup OtherRuns}

Good(p) == File("good", IF p.name = "x7" THEN Even ELSE Two)
AllGood == [p \in Paths |-> Good(p)]

MCDisks ==
  {AllGood,
   (* other spellings, older files with the names that any2many wants *)
   [p \in (Paths \ {At("data", "x5", "bin")}) \cup {Path("data", "x5", "bin", "upper")} |-> Good(p)],
   [p \in Paths \cup {At("here", "x5", "bin"), At("out", "x7", "root"), At("out", "all", "bin"),
                      At("out", "x5_rebin2", "bin"), At("out", "pack", "tar.gz"),
                      At("out", "pack", "tar"), At("out", "__tmp", "root")} |->
      IF p \in Paths THEN Good(p) ELSE File("good", Even)]}
  \cup {[AllGood EXCEPT ![p] = File(s, Two)] : p \in Paths, s \in {"broken", "odd"}}
  \cup {[p \in Paths \ {q} |-> Good(p)] : q \in Paths}

Run(name, format) == [name |-> name, format |-> format]
Block(runs, histos) == [runs |-> runs, histos |-> histos]

SingleRuns ==
  {Run(r, f) : r \in {"lem06", "lem12"}, f \in {"root-npp", "root-ppc"}} \cup
  {Run("x1", "ascii"), Run("x2", "mdu-ascii"), Run("x3", "db"), Run("x4", "nexus"), Run("x5", "psi-bin"),
   Run("x6", "wkm")}

Blocks1 == {Block(<<r>>, <<1>>) : r \in SingleRuns}
Blocks2 == {Block(<<Run("lem12", f), Run("lem06", g)>>, <<1, 22>>) : f, g \in {"root-npp", "root-ppc"}}
  \cup {Block(<<Run("x5", "psi-bin"), Run("x7", "psi-bin")>>, <<3>>),
        Block(<<Run("x7", "psi-bin"), Run("x5", "psi-bin")>>, <<3>>),
        Block(<<Run("x1", "ascii"), Run("x3", "db")>>, <<1, 2>>)}

MCLists == {<<b>> : b \in Blocks1 \cup Blocks2} \cup {<<b, c>> : b, c \in Blocks1}
           \cup {<<b, c>> : b \in Blocks2, c \in {Block(<<Run("x5", "psi-bin")>>, <<2>>)}}

MCLemYear(name) == CASE name = "lem06" -> 6 [] name = "lem12" -> 12 [] OTHER -> None

Job(name, ext, out) == [name |-> name, ext |-> ext, out |-> out]
X5 == Job("x5", "bin", None)
X7 == Job("x7", "bin", None)
All(job) == [job EXCEPT !.out = "all"]

Request(jobs, in, out, n, s, z, dir) ==
  [jobs |-> jobs, inFormat |-> in, outFormat |-> out, rebin |-> n, stdout |-> s, compress |-> z,
   outPath |-> dir, archive |-> "pack"]

MCRequests ==
  {Request(<<X5, X7>>, "psi-bin", f, n, s, z, "out") : f \in OutFormats, n \in 1..3, s, z \in BOOLEAN}
  \cup {Request(<<All(X7), All(X5)>>, "psi-bin", f, 2, FALSE, z, "out") : f \in OutFormats, z \in BOOLEAN}
  \cup {Request(<<X7, X7>>, "psi-bin", f, 3, FALSE, FALSE, "data") : f \in OutFormats}
  \cup {Request(<<Job("x4", "NXS", None)>>, "nexus", "root", 2, FALSE, FALSE, "data"),
        Request(<<Job("lem06", "root", None), Job("lem12", "root", "all")>>, "root", "root", 2, FALSE, FALSE, "data"),
        Request(<<Job("lem12", "root", None), Job("x9", "root", None)>>, "musrroot", "mud", 1, FALSE, TRUE, "out"),
        Request(<<Job("x6", "nemu", None)>>, "wkm", "wkm", 1, FALSE, FALSE, "out")}
  \cup {Request(<<Job("x8", "NXS", None), Job("x4", "NXS", None)>>, "nexus", f, 2, s, FALSE, "out") :
          f \in {"musrroot", "ascii"}, s \in BOOLEAN}

MCSearchPath == <<"here", "msr", "data">>
MCPlainPath == <<"here", "data">>
MCSpellings == <<"as is", "upper">>
=============================================================================
