--------------------------- MODULE Any2ManyProofs ---------------------------
(* What holds for all data files, msr-files and command lines: any2many    *)
(* leaves alone what was there before, delivers every run and packs its    *)
(* bins as each writer does, and a fit uses whole files.                   *)
EXTENDS Any2Many, FiniteSetTheorems, SequenceTheorems, WellFoundedInduction, TLAPS

-----------------------------------------------------------------------------
(* The files that were there before. *)

(* The names which have been kept are names of files that any2many made,   *)
(* and it is any2many that makes and removes files.                        *)
NamesAreNew ==
  /\ outPathFileName \in Seq(ToSet(outPathFileName))
  /\ \A p \in ToSet(outPathFileName) : p \notin DOMAIN given \ NotLookedFor
Asked == pc \in {"ask", "convert"} => request # NoRequest

KeptInv ==
  /\ IsFiniteSet(DOMAIN disk)
  /\ NamesAreNew
  /\ Asked
  /\ FilesBeforeKept

(* A set of numbers has a least one.                                       *)
LEMMA LeastNumber ==
  ASSUME NEW S, S # {}, S \subseteq Nat
  PROVE  \E n \in S : \A l \in S : n <= l
<1>1. \E n \in S : \A l \in S : ~(<<l, n>> \in OpToRel(<, Nat))
  BY WFMin, NatLessThanWellFounded
<1>2. PICK n \in S : \A l \in S : ~(<<l, n>> \in OpToRel(<, Nat))
  BY <1>1
<1>3. ASSUME NEW l \in S PROVE n <= l
  <2>1. ~(l < n)
    BY <1>2 DEF OpToRel
  <2> QED BY <2>1
<1> QED BY <1>3

(* Wanted names with different numbers differ.                             *)
LEMMA NumbersDiffer ==
  ASSUME NEW job, NEW m, NEW n, Numbered(WantedName(job), m) = Numbered(WantedName(job), n)
  PROVE  m = n
<1>1. Numbered(WantedName(job), m).no = m
  BY DEF Numbered, WantedName, GetFileName, Path
<1>2. Numbered(WantedName(job), n).no = n
  BY DEF Numbered, WantedName, GetFileName, Path
<1> QED BY <1>1, <1>2

(* Of more numbers than there are files one is free.                       *)
LEMMA SomeNumberFree ==
  ASSUME NEW job, IsFiniteSet(DOMAIN disk)
  PROVE  /\ Cardinality(DOMAIN disk) \in Nat
         /\ \E n \in 0..Cardinality(DOMAIN disk) : Numbered(WantedName(job), n) \notin DOMAIN disk
<1> DEFINE C == Cardinality(DOMAIN disk)
           f == [n \in 0..C |-> Numbered(WantedName(job), n)]
<1>1. C \in Nat
  BY FS_CardinalityType
<1>2. IsFiniteSet(0..C) /\ Cardinality(0..C) = C + 1
  BY <1>1, FS_Interval
<1>3. SUFFICES ASSUME \A n \in 0..C : Numbered(WantedName(job), n) \in DOMAIN disk
               PROVE  FALSE
  BY <1>1
<1>4. f \in [0..C -> DOMAIN disk]
  BY <1>3
<1>5. Cardinality(DOMAIN disk) < Cardinality(0..C)
  BY <1>1, <1>2
<1> HIDE DEF f
<1>6. \E x, y \in 0..C : x # y /\ f[x] = f[y]
  BY <1>2, <1>4, <1>5, FS_PigeonHole
<1>7. PICK x, y \in 0..C : x # y /\ f[x] = f[y]
  BY <1>6
<1>8. Numbered(WantedName(job), x) = Numbered(WantedName(job), y)
  BY <1>7 DEF f
<1>9. x = y
  BY <1>8, NumbersDiffer
<1> QED BY <1>7, <1>9

(* A name that is kept is not that of a file.                              *)
LEMMA NameIsFree ==
  ASSUME NEW job, IsFiniteSet(DOMAIN disk), ~ToStdout
  PROVE  GenerateOutputFileName(job) \notin DOMAIN disk
<1> DEFINE C == Cardinality(DOMAIN disk)
           free == {n \in 0..C : Numbered(WantedName(job), n) \notin DOMAIN disk}
<1>1. C \in Nat /\ \E n \in 0..C : Numbered(WantedName(job), n) \notin DOMAIN disk
  BY SomeNumberFree
<1> HIDE DEF C
<1>2. free # {} /\ free \subseteq Nat
  BY <1>1
<1>3. GenerateOutputFileName(job)
        = Numbered(WantedName(job), CHOOSE n \in free : \A l \in free : n <= l)
  BY DEF GenerateOutputFileName, C
<1>4. \E n \in free : \A l \in free : n <= l
  <2> HIDE DEF free
  <2> QED BY <1>2, LeastNumber
<1>5. (CHOOSE n \in free : \A l \in free : n <= l) \in free
  BY <1>4
<1> QED BY <1>3, <1>5
(* A file that is none of those to be kept may be made, or removed.        *)
LEMMA MadeAndRemoved ==
  ASSUME KeptInv, UNCHANGED <<given, request>>, Asked',
         NEW made, IsFiniteSet(made), NEW gone,
         DOMAIN disk' = (DOMAIN disk \ gone) \cup made,
         \A p \in DOMAIN disk' \ made : disk'[p] = disk[p],
         \A p \in made \cup gone : p \notin DOMAIN given \ NotLookedFor,
         NamesAreNew'
  PROVE  KeptInv'
<1>1. IsFiniteSet(DOMAIN disk')
  <2>1. IsFiniteSet(DOMAIN disk \ gone)
    BY FS_Subset DEF KeptInv
  <2> QED BY <2>1, FS_Union
<1>2. NotLookedFor' = NotLookedFor
  BY DEF NotLookedFor, Archive, Tar, Temporary, ToStdout
<1>3. FilesBeforeKept'
  BY <1>2 DEF KeptInv, FilesBeforeKept
<1> QED BY <1>1, <1>3 DEF KeptInv

(* The names are kept, or one more is.                                     *)
LEMMA NamesGrow ==
  ASSUME NamesAreNew, UNCHANGED <<given, request>>, NEW path,
         \/ outPathFileName' = outPathFileName
         \/ /\ outPathFileName' = Append(outPathFileName, path)
            /\ path \notin DOMAIN given \ NotLookedFor
  PROVE  NamesAreNew'
<1>1. NotLookedFor' = NotLookedFor
  BY DEF NotLookedFor, Archive, Tar, Temporary, ToStdout
<1>2. CASE outPathFileName' = outPathFileName
  BY <1>1, <1>2 DEF NamesAreNew, ToSet
<1>3. CASE /\ outPathFileName' = Append(outPathFileName, path)
           /\ path \notin DOMAIN given \ NotLookedFor
  <2> DEFINE T == ToSet(outPathFileName) \cup {path}
  <2>1. PICK old : old = outPathFileName
    OBVIOUS
  <2>2. old \in Seq(T) /\ path \in T
    BY <2>1 DEF NamesAreNew
  <2>3. /\ Len(Append(old, path)) = Len(old) + 1
        /\ \A j \in 1..Len(old) : Append(old, path)[j] = old[j]
        /\ Append(old, path)[Len(old) + 1] = path
        /\ Append(old, path) \in Seq(T)
        /\ Len(old) \in Nat
    BY <2>2
  <2>4. DOMAIN Append(old, path) = 1..Len(old) + 1 /\ DOMAIN old = 1..Len(old)
    BY <2>2, <2>3
  <2>5. ToSet(Append(old, path)) = ToSet(old) \cup {path}
    BY <2>3, <2>4 DEF ToSet
  <2>6. ToSet(outPathFileName') = T /\ outPathFileName' \in Seq(T)
    BY <1>3, <2>1, <2>3, <2>5
  <2>7. \A p \in T : p \notin DOMAIN given \ NotLookedFor
    BY <1>3 DEF NamesAreNew
  <2> QED BY <1>1, <2>6, <2>7 DEF NamesAreNew
<1> QED BY <1>2, <1>3

(* The temporary file is none of those to be kept, a new name neither.     *)
LEMMA WriteKeeps ==
  ASSUME KeptInv, request # NoRequest, UNCHANGED <<given, request>>, Asked',
         NEW job, NEW histos, NEW trouble, Write(job, histos, trouble)
  PROVE  KeptInv'
<1>1. PICK path : path = GenerateOutputFileName(job)
  OBVIOUS
<1>2. PICK file : file = Converted(histos)
  OBVIOUS
<1>3. /\ ~ToStdout => path \notin DOMAIN disk
      /\ ToStdout => path = Temporary
  BY <1>1, NameIsFree DEF KeptInv, GenerateOutputFileName
<1>4. ASSUME ToStdout => request.outFormat \notin Direct
      PROVE  path \notin DOMAIN given \ NotLookedFor
  BY <1>3, <1>4 DEF KeptInv, FilesBeforeKept, NotLookedFor
<1>5. \/ UNCHANGED <<disk, outPathFileName>>
      \/ /\ ToStdout => request.outFormat \notin Direct
         /\ outPathFileName' = KeptNames(path)
         /\ disk' = disk \/ disk' = Without({path}) \/ disk' = Put(path, file)
  BY <1>1, <1>2 DEF Write, Fail, converter
<1>6. CASE UNCHANGED <<disk, outPathFileName>>
  <2>1. NamesAreNew'
    BY <1>6, NamesGrow DEF KeptInv
  <2> QED BY <1>6, <2>1, MadeAndRemoved, FS_EmptySet
<1>7. CASE /\ ToStdout => request.outFormat \notin Direct
           /\ outPathFileName' = KeptNames(path)
           /\ disk' = disk \/ disk' = Without({path}) \/ disk' = Put(path, file)
  <2>1. path \notin DOMAIN given \ NotLookedFor
    BY <1>4, <1>7
  <2>2. NamesAreNew'
    BY <1>7, <2>1, NamesGrow DEF KeptInv, KeptNames
  <2>3. CASE disk' = disk
    BY <2>2, <2>3, MadeAndRemoved, FS_EmptySet
  <2>4. CASE disk' = Without({path})
    <3>1. /\ DOMAIN disk' = (DOMAIN disk \ {path}) \cup {}
          /\ \A p \in DOMAIN disk' \ {} : disk'[p] = disk[p]
      BY <2>4 DEF Without, Changed
    <3> QED BY <2>1, <2>2, <3>1, MadeAndRemoved, FS_EmptySet
  <2>5. CASE disk' = Put(path, file)
    <3>1. /\ DOMAIN disk' = (DOMAIN disk \ {}) \cup {path}
          /\ \A p \in DOMAIN disk' \ {path} : disk'[p] = disk[p]
      BY <2>5 DEF Put, Changed
    <3>2. IsFiniteSet({path}) /\ \A p \in {path} \cup {} : p \notin DOMAIN given \ NotLookedFor
      BY <2>1, FS_Singleton
    <3> QED BY <2>1, <2>2, <3>1, <3>2, MadeAndRemoved
  <2> QED BY <1>7, <2>3, <2>4, <2>5
<1> QED BY <1>5, <1>6, <1>7

LEMMA ConvertKeeps == KeptInv /\ Convert => KeptInv'
<1> SUFFICES ASSUME KeptInv, Convert PROVE KeptInv'
  OBVIOUS
<1>1. /\ request # NoRequest /\ UNCHANGED <<given, request>> /\ Asked'
  BY DEF Convert, KeptInv, Asked
<1>2. \/ UNCHANGED <<disk, outPathFileName>>
      \/ \E job, histos, trouble : Write(job, histos, trouble)
  BY DEF Convert, Fail, converter
<1>3. CASE UNCHANGED <<disk, outPathFileName>>
  <2>1. NamesAreNew'
    BY <1>1, <1>3, NamesGrow DEF KeptInv
  <2> QED BY <1>1, <1>3, <2>1, MadeAndRemoved, FS_EmptySet
<1>4. CASE \E job, histos, trouble : Write(job, histos, trouble)
  BY <1>1, <1>4, WriteKeeps
<1> QED BY <1>2, <1>3, <1>4

(* The archive and its tar-file are not looked for.                        *)
LEMMA CompressKeeps == KeptInv /\ Compress => KeptInv'
<1> SUFFICES ASSUME KeptInv, Compress PROVE KeptInv'
  OBVIOUS
<1>1. /\ request # NoRequest /\ request.compress
      /\ UNCHANGED <<given, request, outPathFileName>> /\ Asked'
  BY DEF Compress, KeptInv, Asked, converter
<1>2. NamesAreNew'
  BY <1>1, NamesGrow DEF KeptInv
<1>3. PICK packet : packet = Packet
  OBVIOUS
<1>4. PICK names, tar : names = AllConverted /\ tar = TarFirst
  OBVIOUS
<1>5. /\ \A p \in names \cup {Archive, Tar} : p \notin DOMAIN given \ NotLookedFor
      /\ tar \subseteq {Tar}
  BY <1>1, <1>4 DEF KeptInv, NamesAreNew, NotLookedFor, TarFirst, AllConverted
<1>6. \E made, gone :
        /\ made \subseteq {Archive, Tar} /\ gone \subseteq names \cup {Archive, Tar}
        /\ DOMAIN disk' = (DOMAIN disk \ gone) \cup made
        /\ \A p \in DOMAIN disk' \ made : disk'[p] = disk[p]
  <2>1. PICK gone \in {{}, names, names \cup {Archive}, names \cup tar, names \cup tar \cup {Archive}},
             new \in {<<>>, [p \in {Archive} |-> packet], TarLeft} :
             disk' = Changed(gone, new)
    BY <1>3, <1>4 DEF Compress, Without
  <2>2. DOMAIN new \subseteq {Archive, Tar}
    <3>1. DOMAIN TarLeft = tar
      BY <1>4 DEF TarLeft
    <3> QED BY <1>5, <2>1, <3>1
  <2>3. gone \subseteq names \cup {Archive, Tar}
    BY <1>5, <2>1
  <2>4. /\ DOMAIN disk' = (DOMAIN disk \ gone) \cup DOMAIN new
        /\ \A p \in DOMAIN disk' \ DOMAIN new : disk'[p] = disk[p]
    BY <2>1 DEF Changed
  <2> QED BY <2>2, <2>3, <2>4
<1>7. PICK made, gone :
        /\ made \subseteq {Archive, Tar} /\ gone \subseteq names \cup {Archive, Tar}
        /\ DOMAIN disk' = (DOMAIN disk \ gone) \cup made
        /\ \A p \in DOMAIN disk' \ made : disk'[p] = disk[p]
  BY <1>6
<1>8. IsFiniteSet(made)
  <2>1. IsFiniteSet({Archive} \cup {Tar})
    BY FS_Singleton, FS_Union
  <2> QED BY <1>7, <2>1, FS_Subset
<1>9. \A p \in made \cup gone : p \notin DOMAIN given \ NotLookedFor
  BY <1>5, <1>7
<1> QED
  BY <1>1, <1>2, <1>7, <1>8, <1>9, MadeAndRemoved

LEMMA InitKept == Init => KeptInv
<1> SUFFICES ASSUME Init PROVE KeptInv
  OBVIOUS
<1>1. IsFiniteSet(DOMAIN disk) /\ given = disk
  BY DataHandlerAssumption DEF Init
<1>2. outPathFileName = <<>> /\ outPathFileName \in Seq(ToSet(outPathFileName))
  BY DEF Init
<1>3. NamesAreNew
  BY <1>2 DEF NamesAreNew, ToSet
<1>4. Asked
  BY Any2ManyAssumption DEF Init, Asked, NoRequest
<1> QED BY <1>1, <1>3, <1>4 DEF KeptInv, FilesBeforeKept

LEMMA NextKept == KeptInv /\ [Next]_vars => KeptInv'
<1> SUFFICES ASSUME KeptInv, [Next]_vars PROVE KeptInv'
  OBVIOUS
<1>1. CASE Convert
  BY <1>1, ConvertKeeps
<1>2. CASE Compress
  BY <1>2, CompressKeeps
<1>3. CASE Fit \/ Ask \/ Finish \/ Terminated \/ UNCHANGED vars
  <2>1. UNCHANGED <<disk, given, request, outPathFileName>>
    BY <1>3 DEF Fit, NextReader, ReadRun, ReadDone, Prepare, NextSession, Ask, Finish,
       Terminated, vars, converter
  <2>2. Asked'
    <3>1. CASE Fit
      <4>1. pc' \in {pc, "prepare", "refused", "crashed", "fit", "read"}
        BY <3>1 DEF Fit, NextReader, ReadRun, ReadDone, Prepare, NextSession, Prepared
      <4> QED BY <2>1, <4>1 DEF KeptInv, Asked
    <3>2. CASE Ask \/ Finish \/ Terminated \/ UNCHANGED vars
      BY <3>2 DEF KeptInv, Asked, Ask, Finish, Terminated, vars
    <3> QED BY <1>3, <3>1, <3>2
  <2>3. NamesAreNew'
    BY <2>1, NamesGrow DEF KeptInv
  <2> QED BY <2>1, <2>2, <2>3, MadeAndRemoved, FS_EmptySet
<1> QED BY <1>1, <1>2, <1>3 DEF Next

(* any2many leaves the files alone that were there before, for any files,  *)
(* search path and command lines, except an archive of the name asked for, *)
(* its tar-file and the temporary file.                                    *)
THEOREM FilesKept == Spec => []FilesBeforeKept
<1>1. KeptInv => FilesBeforeKept
  BY DEF KeptInv
<1> QED BY <1>1, InitKept, NextKept, PTL DEF Spec

-----------------------------------------------------------------------------
(* A fit uses whole files. *)

BlocksOK ==
  /\ blocks \in Seq(RunBlocks)
  /\ at \in (Nat \ {0}) \X (Nat \ {0})
  /\ at[1] <= Len(blocks) => at[2] <= Len(blocks[at[1]].runs)
  /\ fData \in Seq(ToSet(fData))

SomeRunMissing ==
  \E b \in DOMAIN blocks : \E j \in DOMAIN blocks[b].runs : ~FileAlreadyRead(blocks[b].runs[j].name)

(* A file of which a part has been kept is an odd one, or there is another *)
(* one behind it.  Before the fit, it may also be the last one as long as  *)
(* this is not forgotten: the reading has failed, or the file that has     *)
(* been read since then has left nothing, which the fit will miss.         *)
Harmless(i) ==
  \/ fData[i].format = "mdu-ascii" /\ disk[fData[i].path].state = "odd"
  \/ fData[i].format \in {"mdu-ascii", "ascii", "db"} /\ i < Len(fData)
Noticed ==
  \/ pc = "read" /\ (~success \/ SomeRunMissing)
  \/ pc = "prepare" /\ (~fAllDataAvailable \/ SomeRunMissing)
PartsNoticed ==
  pc \in {"read", "prepare", "fit"} =>
    \A i \in DOMAIN fData : fData[i].kept = "part" =>
      Harmless(i) \/ (fData[i].format \in {"mdu-ascii", "ascii", "db"} /\ Noticed)

WholeInv == BlocksOK /\ PartsNoticed

(* What has been read is changed in its formats and numbers, never in its  *)
(* runs.                                                                   *)
LEMMA AfterOK ==
  ASSUME NEW b \in RunBlocks, NEW j \in DOMAIN b.runs, NEW y
  PROVE  /\ After(b, j, y) \in RunBlocks
         /\ Len(After(b, j, y).runs) = Len(b.runs)
         /\ \A l \in DOMAIN b.runs : After(b, j, y).runs[l].name = b.runs[l].name
<1>1. PICK f : f = Renamed(b.runs[j].format, y)
  OBVIOUS
<1>2. b.runs \in Seq(RunNames) /\ b.runs # <<>> /\ b.histos \in Seq(Int)
  BY DEF RunBlocks
<1>3. b.runs[j] \in RunNames
  BY <1>2
<1>4. f \in Formats
  BY <1>1, <1>3 DEF Renamed, RunNames, Formats
<1>5. PICK r : r = [b.runs[j] EXCEPT !.format = f]
  OBVIOUS
<1>6. r \in RunNames /\ r.name = b.runs[j].name
  BY <1>3, <1>4, <1>5 DEF RunNames
<1>7. PICK runs : runs = [b.runs EXCEPT ![j] = r]
  OBVIOUS
<1>8. /\ runs \in Seq(RunNames) /\ Len(runs) = Len(b.runs) /\ runs # <<>>
      /\ \A l \in DOMAIN b.runs : runs[l].name = b.runs[l].name
  BY <1>2, <1>6, <1>7
<1>9. PICK g : g = b.runs[j].format
  OBVIOUS
<1>10. PICK hs : hs = [k_ \in DOMAIN b.histos |-> Shifted(g, b.histos[k_])]
  OBVIOUS
<1>11. hs \in Seq(Int)
  <2>1. \A n \in Int : Shifted(g, n) \in Int
    BY DEF Shifted, Offset
  <2>2. PICK old : old = b.histos
    OBVIOUS
  <2>3. old \in Seq(Int) /\ DOMAIN old = 1..Len(old) /\ Len(old) \in Nat
    BY <1>2, <2>2
  <2>4. hs = [k_ \in 1..Len(old) |-> Shifted(g, old[k_])]
    BY <1>10, <2>2, <2>3
  <2>5. \A i \in 1..Len(old) : Shifted(g, old[i]) \in Int
    BY <2>1, <2>3
  <2>6. hs \in [1..Len(old) -> Int]
    BY <2>4, <2>5
  <2> QED BY <2>3, <2>6
<1>12. After(b, j, y) = [b EXCEPT !.runs = runs, !.histos = hs]
  BY <1>1, <1>5, <1>7, <1>9, <1>10 DEF After
<1> QED BY <1>8, <1>11, <1>12 DEF RunBlocks

LEMMA AfterFormat ==
  ASSUME NEW b \in RunBlocks, NEW j \in DOMAIN b.runs, NEW y
  PROVE  After(b, j, y).runs[j].format = Renamed(b.runs[j].format, y)
<1>1. b.runs \in Seq(RunNames)
  BY DEF RunBlocks
<1>2. b.runs[j] \in RunNames
  BY <1>1
<1>3. PICK r : r = [b.runs[j] EXCEPT !.format = Renamed(b.runs[j].format, y)]
  OBVIOUS
<1>4. r.format = Renamed(b.runs[j].format, y)
  BY <1>2, <1>3 DEF RunNames
<1>5. PICK runs : runs = [b.runs EXCEPT ![j] = r]
  OBVIOUS
<1>6. runs[j] = r
  BY <1>1, <1>5
<1>7. After(b, j, y).runs = runs
  BY <1>3, <1>5 DEF After, RunBlocks
<1> QED BY <1>4, <1>6, <1>7

(* Only three readers keep a part of a file, and say that they have failed *)
(* unless there are too few bins in an mdu-ascii file.                     *)
LEMMA PartOfReader ==
  ASSUME NEW format \in Formats \ {"unknown"}, NEW file, Read(format, file).kept = "part"
  PROVE  /\ format \in {"mdu-ascii", "ascii", "db"}
         /\ \/ Read(format, file).ok = FALSE
            \/ format = "mdu-ascii" /\ file.state = "odd"
<1>1. CASE format \in {"root-npp", "root-ppc", "musr-root"}
  <2>1. Read(format, file) = ReadRootFile(file)
    BY <1>1 DEF Read
  <2> QED BY <2>1 DEF ReadRootFile, Result, Failed
<1>2. CASE format = "nexus"
  <2>1. Read(format, file) = ReadNexusFile(file)
    BY <1>2 DEF Read
  <2> QED BY <2>1 DEF ReadNexusFile, Result, Failed
<1>3. CASE format \in {"psi-bin", "psi-mdu"}
  <2>1. Read(format, file) = ReadPsiBinFile(file)
    BY <1>3 DEF Read
  <2> QED BY <2>1 DEF ReadPsiBinFile, Result, Failed
<1>4. CASE format = "mud"
  <2>1. Read(format, file) = ReadMudFile(file)
    BY <1>4 DEF Read
  <2> QED BY <2>1 DEF ReadMudFile, Result, Failed
<1>5. CASE format = "wkm"
  <2>1. Read(format, file) = ReadWkmFile(file)
    BY <1>5 DEF Read
  <2> QED BY <2>1 DEF ReadWkmFile, Result, Failed
<1>6. CASE format = "mdu-ascii"
  <2>1. Read(format, file) = ReadMduAsciiFile(file)
    BY <1>6 DEF Read
  <2> QED BY <1>6, <2>1 DEF ReadMduAsciiFile, Result
<1>7. CASE format = "ascii"
  <2>1. Read(format, file) = ReadAsciiFile(file)
    BY <1>7 DEF Read
  <2> QED BY <1>7, <2>1 DEF ReadAsciiFile, Result
<1>8. CASE format = "db"
  <2>1. Read(format, file) = ReadDBFile(file)
    BY <1>8 DEF Read
  <2> QED BY <1>8, <2>1 DEF ReadDBFile, Result, Failed
<1>9. CASE format = "dat"
  <2>1. Read(format, file) = ReadDatFile(file)
    BY <1>9 DEF Read
  <2> QED BY <2>1 DEF ReadDatFile, Result, Failed
<1> QED
  BY <1>1, <1>2, <1>3, <1>4, <1>5, <1>6, <1>7, <1>8, <1>9 DEF Formats

(* The loops go on with a run that is there.                               *)
LEMMA NextAtOK ==
  ASSUME BlocksOK, at[1] <= Len(blocks), NEW new, new = NextAt,
         NEW bs, bs \in Seq(RunBlocks), Len(bs) = Len(blocks),
         \A b \in DOMAIN blocks : Len(bs[b].runs) = Len(blocks[b].runs)
  PROVE  /\ new \in (Nat \ {0}) \X (Nat \ {0})
         /\ new[1] <= Len(bs) => new[2] <= Len(bs[new[1]].runs)
<1>1. PICK a, j : a \in Nat \ {0} /\ j \in Nat \ {0} /\ at = <<a, j>> /\ at[1] = a /\ at[2] = j
  BY DEF BlocksOK
<1>2. blocks \in Seq(RunBlocks) /\ Len(blocks) \in Nat /\ DOMAIN blocks = 1..Len(blocks)
  BY DEF BlocksOK
<1>3. \A b \in 1..Len(blocks) : Len(bs[b].runs) \in Nat \ {0}
  <2>1. ASSUME NEW b \in 1..Len(blocks) PROVE Len(bs[b].runs) \in Nat \ {0}
    <3>1. bs[b] \in RunBlocks
      BY <1>2
    <3>2. bs[b].runs \in Seq(RunNames) /\ bs[b].runs # <<>>
      BY <3>1 DEF RunBlocks
    <3> QED BY <3>2
  <2> QED BY <2>1
<1>4. CASE j < Len(blocks[a].runs)
  <2>1. new = <<a, j + 1>>
    BY <1>1, <1>4 DEF NextAt
  <2>2. Len(blocks[a].runs) \in Nat
    BY <1>1, <1>2, <1>3
  <2> QED BY <1>1, <1>2, <1>4, <2>1, <2>2
<1>5. CASE ~(j < Len(blocks[a].runs))
  <2>1. new = <<a + 1, 1>>
    BY <1>1, <1>5 DEF NextAt
  <2>2. a + 1 <= Len(bs) => Len(bs[a + 1].runs) >= 1
    BY <1>1, <1>2, <1>3
  <2> QED BY <1>1, <2>1, <2>2
<1> QED BY <1>4, <1>5

(* A file is appended to those that have been read, or not.                *)
LEMMA AppendedOK ==
  ASSUME fData \in Seq(ToSet(fData)), NEW entry
  PROVE  LET new == Append(fData, entry)
         IN  /\ new \in Seq(ToSet(new)) /\ Len(fData) \in Nat /\ Len(new) = Len(fData) + 1
             /\ DOMAIN new = 1..Len(fData) + 1 /\ DOMAIN fData = 1..Len(fData)
             /\ \A i \in 1..Len(fData) : new[i] = fData[i]
             /\ new[Len(fData) + 1] = entry
<1> DEFINE T == ToSet(fData) \cup {entry}
<1>1. PICK old : old = fData
  OBVIOUS
<1>2. old \in Seq(T) /\ entry \in T
  BY <1>1
<1>3. /\ Len(Append(old, entry)) = Len(old) + 1
      /\ \A i \in 1..Len(old) : Append(old, entry)[i] = old[i]
      /\ Append(old, entry)[Len(old) + 1] = entry
      /\ Append(old, entry) \in Seq(T)
      /\ Len(old) \in Nat
  BY <1>2
<1>4. DOMAIN Append(old, entry) = 1..Len(old) + 1 /\ DOMAIN old = 1..Len(old)
  BY <1>2, <1>3
<1>5. ToSet(Append(old, entry)) = ToSet(old) \cup {entry}
  BY <1>3, <1>4 DEF ToSet
<1> QED BY <1>1, <1>3, <1>4, <1>5

LEMMA ReadRunWhole == WholeInv /\ ReadRun => WholeInv'
<1> SUFFICES ASSUME WholeInv, ReadRun PROVE WholeInv'
  OBVIOUS
<1>1. PICK a, j : a \in Nat \ {0} /\ j \in Nat \ {0} /\ at = <<a, j>> /\ at[1] = a /\ at[2] = j
  BY DEF WholeInv, BlocksOK
<1>2. /\ blocks \in Seq(RunBlocks) /\ Len(blocks) \in Nat /\ DOMAIN blocks = 1..Len(blocks)
      /\ a \in 1..Len(blocks) /\ pc = "read"
  <2>1. blocks \in Seq(RunBlocks)
    BY DEF WholeInv, BlocksOK
  <2>2. pc = "read" /\ at[1] <= Len(blocks)
    BY DEF ReadRun
  <2> QED BY <1>1, <2>1, <2>2
<1>3. PICK b \in RunBlocks : b = blocks[a]
  BY <1>2
<1>4. j \in DOMAIN b.runs /\ b.runs[j] \in RunNames
  <2>1. b.runs \in Seq(RunNames)
    BY <1>3 DEF RunBlocks
  <2>2. j <= Len(b.runs)
    BY <1>1, <1>2, <1>3 DEF WholeInv, BlocksOK
  <2> QED BY <1>1, <2>1, <2>2
<1>5. PICK run \in RunNames : run = b.runs[j]
  BY <1>4
<1>6. PICK path, y : path = FileExistsCheck(run) /\ y = YearOf(run.name)
  OBVIOUS
<1>7. PICK changed : changed = After(b, j, y)
  OBVIOUS
<1>8. PICK format : format = changed.runs[j].format
  OBVIOUS
<1>9. PICK result : result = Read(format, disk[path])
  OBVIOUS
<1>10. /\ UNCHANGED disk
       /\ \/ /\ path = None
             /\ fAllDataAvailable' = FALSE /\ pc' = "prepare"
             /\ UNCHANGED <<reader, fData>>
          \/ /\ path # None
             /\ blocks' = [blocks EXCEPT ![a] = changed]
             /\ at' = NextAt
             /\ pc' = pc
             /\ \/ FileAlreadyRead(run.name) /\ UNCHANGED <<success, fData>>
                \/ /\ ~FileAlreadyRead(run.name)
                   /\ success' = result.ok
                   /\ fData' = fData \o Kept(run.name, path, format, result)
  BY <1>1, <1>3, <1>5, <1>6, <1>7, <1>8, <1>9 DEF ReadRun
<1>11. CASE path = None
  <2>1. fAllDataAvailable' = FALSE /\ pc' = "prepare" /\ UNCHANGED <<disk, blocks, at, fData>>
    BY <1>10, <1>11 DEF reader
  <2> QED BY <1>2, <2>1 DEF WholeInv, BlocksOK, PartsNoticed, Harmless, Noticed
<1>12. CASE path # None
  <2>1. /\ changed \in RunBlocks /\ Len(changed.runs) = Len(b.runs)
        /\ \A l \in DOMAIN b.runs : changed.runs[l].name = b.runs[l].name
    BY <1>4, <1>7, AfterOK
  <2>2. /\ blocks' \in Seq(RunBlocks) /\ Len(blocks') = Len(blocks)
        /\ \A c \in DOMAIN blocks : Len(blocks'[c].runs) = Len(blocks[c].runs)
        /\ \A c \in DOMAIN blocks : \A l \in DOMAIN blocks[c].runs :
             blocks'[c].runs[l].name = blocks[c].runs[l].name
        /\ DOMAIN blocks' = DOMAIN blocks
    BY <1>2, <1>3, <1>10, <1>12, <2>1
  <2>3. \A c \in DOMAIN blocks : DOMAIN blocks'[c].runs = DOMAIN blocks[c].runs
    <3>1. ASSUME NEW c \in DOMAIN blocks PROVE DOMAIN blocks'[c].runs = DOMAIN blocks[c].runs
      <4>1. blocks[c] \in RunBlocks /\ blocks'[c] \in RunBlocks
        BY <1>2, <2>2
      <4>2. blocks[c].runs \in Seq(RunNames) /\ blocks'[c].runs \in Seq(RunNames)
        BY <4>1 DEF RunBlocks
      <4> QED BY <2>2, <4>2
    <3> QED BY <3>1
  <2>4. /\ at' \in (Nat \ {0}) \X (Nat \ {0})
        /\ at'[1] <= Len(blocks') => at'[2] <= Len(blocks'[at'[1]].runs)
    <3>1. PICK bs, new : bs = blocks' /\ new = at'
      OBVIOUS
    <3>2. new = NextAt /\ at[1] <= Len(blocks)
      BY <1>1, <1>2, <1>10, <1>12, <3>1
    <3>3. /\ new \in (Nat \ {0}) \X (Nat \ {0})
          /\ new[1] <= Len(bs) => new[2] <= Len(bs[new[1]].runs)
      BY <2>2, <3>1, <3>2, NextAtOK DEF WholeInv
    <3> QED BY <3>1, <3>3
  <2>5. pc' = "read" /\ UNCHANGED disk
    BY <1>2, <1>10, <1>12
  <2>6. CASE FileAlreadyRead(run.name)
    <3>1. UNCHANGED <<success, fData>>
      BY <1>10, <1>12, <2>6
    <3>2. SomeRunMissing => SomeRunMissing'
      BY <2>2, <2>3, <3>1 DEF SomeRunMissing, FileAlreadyRead
    <3>3. BlocksOK'
      BY <2>2, <2>4, <3>1 DEF WholeInv, BlocksOK
    <3> QED BY <1>2, <2>5, <3>1, <3>2, <3>3 DEF WholeInv, PartsNoticed, Harmless, Noticed
  <2>7. CASE ~FileAlreadyRead(run.name)
    <3>1. success' = result.ok /\ fData' = fData \o Kept(run.name, path, format, result)
      BY <1>10, <1>12, <2>7
    <3>2. CASE result.kept = "none"
      <4>1. UNCHANGED fData
        BY <3>1, <3>2 DEF Kept, WholeInv, BlocksOK
      <4>2. SomeRunMissing'
        <5>1. ~FileAlreadyRead(run.name)'
          BY <2>7, <4>1 DEF FileAlreadyRead
        <5>2. blocks'[a].runs[j].name = run.name /\ a \in DOMAIN blocks' /\ j \in DOMAIN blocks'[a].runs
          BY <1>2, <1>3, <1>4, <1>5, <2>2, <2>3
        <5> QED BY <5>1, <5>2 DEF SomeRunMissing, FileAlreadyRead
      <4>3. BlocksOK'
        BY <2>2, <2>4, <4>1 DEF WholeInv, BlocksOK
      <4> QED BY <1>2, <2>5, <4>1, <4>2, <4>3 DEF WholeInv, PartsNoticed, Harmless, Noticed
    <3>3. CASE result.kept # "none"
      <4>1. PICK entry : entry = [name |-> run.name, path |-> path, format |-> format,
                                  kept |-> result.kept, nos |-> result.nos]
        OBVIOUS
      <4>2. fData' = Append(fData, entry)
        BY <3>1, <3>3, <4>1 DEF Kept, WholeInv, BlocksOK
      <4>3. /\ fData' \in Seq(ToSet(fData')) /\ Len(fData) \in Nat /\ Len(fData') = Len(fData) + 1
            /\ DOMAIN fData' = 1..Len(fData) + 1 /\ DOMAIN fData = 1..Len(fData)
            /\ \A i \in 1..Len(fData) : fData'[i] = fData[i]
            /\ fData'[Len(fData) + 1] = entry
        BY <4>2, AppendedOK DEF WholeInv, BlocksOK
      <4>4. BlocksOK'
        BY <2>2, <2>4, <4>3 DEF BlocksOK
      <4>5. format \in Formats \ {"unknown"}
        <5>1. run.format \in Formats /\ run.format # "unknown"
          <6>1. run.format \in Formats
            BY DEF RunNames
          <6>2. Extension(run.format) # None
            BY <1>6, <1>12 DEF FileExistsCheck
          <6> QED BY <6>1, <6>2 DEF Extension
        <5>2. format = Renamed(run.format, y)
          BY <1>4, <1>5, <1>7, <1>8, AfterFormat
        <5> QED BY <5>1, <5>2 DEF Renamed, Formats
      <4>6. entry.kept = "part" =>
              /\ entry.format \in {"mdu-ascii", "ascii", "db"}
              /\ \/ success' = FALSE
                 \/ entry.format = "mdu-ascii" /\ disk[entry.path].state = "odd"
        BY <1>9, <3>1, <4>1, <4>5, PartOfReader
      <4>7. ASSUME NEW i \in DOMAIN fData', fData'[i].kept = "part"
            PROVE  (Harmless(i) \/ (fData[i].format \in {"mdu-ascii", "ascii", "db"} /\ Noticed))'
        <5>1. CASE i \in 1..Len(fData)
          <6>1. fData'[i] = fData[i] /\ i < Len(fData')
            BY <4>3, <5>1
          <6> QED BY <1>2, <2>5, <4>3, <4>7, <5>1, <6>1 DEF WholeInv, PartsNoticed, Harmless
        <5>2. CASE i = Len(fData) + 1
          <6>1. fData'[i] = entry
            BY <4>3, <5>2
          <6> QED BY <2>5, <4>6, <4>7, <6>1 DEF Harmless, Noticed
        <5> QED BY <4>3, <4>7, <5>1, <5>2
      <4> QED BY <4>4, <4>7 DEF WholeInv, PartsNoticed
    <3> QED BY <3>2, <3>3
  <2> QED BY <2>6, <2>7
<1> QED BY <1>11, <1>12

(* A run without data ends the session.                                    *)
LEMMA PrepareWhole == WholeInv /\ Prepare => WholeInv'
<1> SUFFICES ASSUME WholeInv, Prepare PROVE WholeInv'
  OBVIOUS
<1>1. pc = "prepare" /\ UNCHANGED <<disk, session, blocks, at, year, success, fData, fAllDataAvailable>>
  BY DEF Prepare, reader
<1>2. BlocksOK'
  BY <1>1 DEF WholeInv, BlocksOK
<1>3. pc' \in {"refused", "crashed", "fit"}
  BY DEF Prepare, Prepared
<1>4. pc' = "fit" => ~Noticed
  <2>1. SUFFICES ASSUME pc' = "fit" PROVE ~Noticed
    OBVIOUS
  <2>2. ~(~fAllDataAvailable)
    BY <2>1 DEF Prepare
  <2>3. NotPrepared = {}
    <3>1. SUFFICES ASSUME NotPrepared # {} PROVE FALSE
      OBVIOUS
    <3>2. pc' = Prepared(blocks[CHOOSE i \in NotPrepared : \A j \in NotPrepared : i <= j])
      BY <2>2, <3>1 DEF Prepare
    <3>3. NotPrepared \subseteq Nat
      BY DEF WholeInv, BlocksOK, NotPrepared
    <3>4. \E i \in NotPrepared : \A j \in NotPrepared : i <= j
      BY <3>1, <3>3, LeastNumber
    <3>5. (CHOOSE i \in NotPrepared : \A j \in NotPrepared : i <= j) \in NotPrepared
      BY <3>4
    <3> QED BY <2>1, <3>2, <3>5 DEF NotPrepared
  <2>4. ASSUME NEW i \in DOMAIN blocks, NEW l \in DOMAIN blocks[i].runs
        PROVE  FileAlreadyRead(blocks[i].runs[l].name)
    <3>1. Prepared(blocks[i]) = "fit"
      BY <2>3 DEF NotPrepared
    <3>2. DataOf(blocks[i])[l] # None
      BY <3>1 DEF Prepared, DataOf
    <3> QED BY <3>2 DEF DataOf, GetRunData
  <2> QED BY <1>1, <2>2, <2>4 DEF Noticed, SomeRunMissing
<1> QED BY <1>1, <1>2, <1>3, <1>4 DEF WholeInv, PartsNoticed, Harmless

LEMMA InitWhole == Init => WholeInv
<1> SUFFICES ASSUME Init PROVE WholeInv
  OBVIOUS
<1>1. blocks \in Seq(RunBlocks)
  <2>1. blocks \in Lists \/ blocks = <<>>
    BY DEF Init
  <2>2. Lists \subseteq Seq(RunBlocks)
    BY DataHandlerAssumption
  <2>3. \A l \in Lists : l \in Seq(RunBlocks)
    BY <2>2
  <2>4. <<>> \in Seq(RunBlocks)
    OBVIOUS
  <2> QED BY <2>1, <2>3, <2>4
<1>2. at = <<1, 1>> /\ fData = <<>> /\ fData \in Seq(ToSet(fData))
  BY DEF Init, InitReader
<1>3. 1 <= Len(blocks) => 1 <= Len(blocks[1].runs)
  <2>1. SUFFICES ASSUME 1 <= Len(blocks) PROVE 1 <= Len(blocks[1].runs)
    OBVIOUS
  <2>2. blocks[1] \in RunBlocks
    BY <1>1, <2>1
  <2>3. blocks[1].runs \in Seq(RunNames) /\ blocks[1].runs # <<>>
    BY <2>2 DEF RunBlocks
  <2> QED BY <2>3
<1> QED BY <1>1, <1>2, <1>3 DEF WholeInv, BlocksOK, PartsNoticed

LEMMA NextWhole == WholeInv /\ [Next]_vars => WholeInv'
<1> SUFFICES ASSUME WholeInv, [Next]_vars PROVE WholeInv'
  OBVIOUS
<1>1. CASE ReadRun
  BY <1>1, ReadRunWhole
<1>2. CASE ReadDone
  BY <1>2 DEF ReadDone, reader, WholeInv, BlocksOK, PartsNoticed, Harmless, Noticed,
     SomeRunMissing, FileAlreadyRead
<1>3. CASE Prepare
  BY <1>3, PrepareWhole
<1>4. CASE NextSession
  <2>1. /\ blocks' = blocks /\ at' = <<1, 1>> /\ fData' = <<>> /\ fData' \in Seq(ToSet(fData'))
    BY <1>4 DEF NextSession
  <2>2. 1 <= Len(blocks) => 1 <= Len(blocks[1].runs)
    <3>1. SUFFICES ASSUME 1 <= Len(blocks) PROVE 1 <= Len(blocks[1].runs)
      OBVIOUS
    <3>2. blocks[1] \in RunBlocks
      BY <3>1 DEF WholeInv, BlocksOK
    <3>3. blocks[1].runs \in Seq(RunNames) /\ blocks[1].runs # <<>>
      BY <3>2 DEF RunBlocks
    <3> QED BY <3>3
  <2> QED BY <2>1, <2>2 DEF WholeInv, BlocksOK, PartsNoticed
<1>5. CASE Ask \/ Convert \/ Compress \/ Finish
  <2>1. UNCHANGED <<blocks, at, fData>> /\ pc' \notin {"read", "prepare", "fit"}
    BY <1>5 DEF Ask, Convert, Compress, Finish, Write, Fail, reader
  <2> QED BY <2>1 DEF WholeInv, BlocksOK, PartsNoticed
<1>6. CASE Terminated \/ UNCHANGED vars
  <2>1. UNCHANGED <<disk, pc, blocks, at, success, fData, fAllDataAvailable>>
    BY <1>6 DEF Terminated, vars, reader
  <2>2. SomeRunMissing' = SomeRunMissing
    BY <2>1 DEF SomeRunMissing, FileAlreadyRead
  <2> QED BY <2>1, <2>2 DEF WholeInv, BlocksOK, PartsNoticed, Harmless, Noticed
<1> QED BY <1>1, <1>2, <1>3, <1>4, <1>5, <1>6 DEF Next, Fit, NextReader

(* A fit uses whole files, for any files and RUN blocks, except an odd     *)
(* mdu-ascii file and a file in whose place another one is looked at for   *)
(* errors.                                                                 *)
THEOREM WholeFiles == Spec => []FitUsesWholeFiles
<1>1. WholeInv => FitUsesWholeFiles
  BY DEF WholeInv, PartsNoticed, Noticed, Harmless, FitUsesWholeFiles
<1> QED BY <1>1, InitWhole, NextWhole, PTL DEF Spec

-----------------------------------------------------------------------------
(* The next session reads what this one has left.                          *)

(* A RUN block whose LEM runs are of one kind, with numbers there may be.  *)
LemBlock(b) ==
  /\ \A j, l \in DOMAIN b.runs :
       b.runs[j].format = "root-npp" => b.runs[l].format # "root-ppc"
  /\ \A h \in DOMAIN b.histos : b.histos[h] \in 0..2*Offset
LemBlocks == \A l \in Lists : \A i \in DOMAIN l : LemBlock(l[i])

(* Run j of a block leaves the numbers alone.                              *)
Calm(b, j) ==
  /\ b.runs[j].format = "root-npp" => \A h \in DOMAIN b.histos : b.histos[h] <= Offset
  /\ b.runs[j].format = "root-ppc" => \A h \in DOMAIN b.histos : b.histos[h] >= Offset

LEMMA AfterParts ==
  ASSUME NEW b \in RunBlocks, NEW j \in DOMAIN b.runs, NEW y
  PROVE  /\ DOMAIN After(b, j, y).runs = DOMAIN b.runs
         /\ DOMAIN After(b, j, y).histos = DOMAIN b.histos
         /\ \A l \in DOMAIN b.runs : After(b, j, y).runs[l].format =
              IF l = j THEN Renamed(b.runs[j].format, y) ELSE b.runs[l].format
         /\ \A h \in DOMAIN b.histos :
              After(b, j, y).histos[h] = Shifted(b.runs[j].format, b.histos[h])
<1>1. b.runs \in Seq(RunNames) /\ b.histos \in Seq(Int)
  BY DEF RunBlocks
<1>2. b.runs[j] \in RunNames
  BY <1>1
<1>3. PICK r : r = [b.runs[j] EXCEPT !.format = Renamed(b.runs[j].format, y)]
  OBVIOUS
<1>4. r.format = Renamed(b.runs[j].format, y)
  BY <1>2, <1>3 DEF RunNames
<1>5. PICK runs, hs : /\ runs = [b.runs EXCEPT ![j] = r]
                      /\ hs = [h \in DOMAIN b.histos |-> Shifted(b.runs[j].format, b.histos[h])]
  OBVIOUS
<1>6. After(b, j, y) = [b EXCEPT !.runs = runs, !.histos = hs]
  BY <1>3, <1>5 DEF After
<1>7. After(b, j, y).runs = runs /\ After(b, j, y).histos = hs
  BY <1>6 DEF RunBlocks
<1>8. DOMAIN runs = DOMAIN b.runs /\ DOMAIN hs = DOMAIN b.histos
  BY <1>5
<1>9. \A l \in DOMAIN b.runs : runs[l].format =
        IF l = j THEN Renamed(b.runs[j].format, y) ELSE b.runs[l].format
  BY <1>4, <1>5
<1>10. \A h \in DOMAIN b.histos : hs[h] = Shifted(b.runs[j].format, b.histos[h])
  BY <1>5
<1> QED BY <1>7, <1>8, <1>9, <1>10

(* A run moves the numbers where it, and the others of its kind, want them *)
(* to be.                                                                  *)
LEMMA AfterCalm ==
  ASSUME NEW b \in RunBlocks, NEW j \in DOMAIN b.runs, NEW y, LemBlock(b)
  PROVE  /\ LemBlock(After(b, j, y)) /\ Calm(After(b, j, y), j)
         /\ \A l \in DOMAIN b.runs : Calm(b, l) => Calm(After(b, j, y), l)
<1>1. PICK c, f : c = After(b, j, y) /\ f = b.runs[j].format
  OBVIOUS
<1>2. /\ DOMAIN c.runs = DOMAIN b.runs /\ DOMAIN c.histos = DOMAIN b.histos
      /\ \A l \in DOMAIN b.runs :
           c.runs[l].format = IF l = j THEN Renamed(f, y) ELSE b.runs[l].format
      /\ \A h \in DOMAIN b.histos : c.histos[h] = Shifted(f, b.histos[h])
  BY <1>1, AfterParts
<1>3. Renamed(f, y) \in {f, "musr-root"}
  BY DEF Renamed
<1>4. \A l \in DOMAIN b.runs :
        c.runs[l].format = b.runs[l].format \/ (l = j /\ c.runs[l].format = "musr-root")
  BY <1>1, <1>2, <1>3
<1>5. \A n \in 0..2*Offset :
        /\ Shifted(f, n) \in 0..2*Offset
        /\ f = "root-npp" => Shifted(f, n) <= Offset
        /\ f = "root-ppc" => Shifted(f, n) >= Offset
        /\ f \notin {"root-npp", "root-ppc"} => Shifted(f, n) = n
  BY DEF Shifted, Offset
<1>6. \A h \in DOMAIN b.histos : b.histos[h] \in 0..2*Offset
  BY DEF LemBlock
<1>7. /\ \A h \in DOMAIN c.histos : c.histos[h] \in 0..2*Offset
      /\ f = "root-npp" => \A h \in DOMAIN c.histos : c.histos[h] <= Offset
      /\ f = "root-ppc" => \A h \in DOMAIN c.histos : c.histos[h] >= Offset
      /\ f \notin {"root-npp", "root-ppc"} => \A h \in DOMAIN c.histos : c.histos[h] = b.histos[h]
  BY <1>2, <1>5, <1>6
<1>8. LemBlock(c)
  BY <1>2, <1>4, <1>7 DEF LemBlock
<1>9. Calm(c, j)
  BY <1>1, <1>4, <1>7 DEF Calm
<1>10. ASSUME NEW l \in DOMAIN b.runs, Calm(b, l) PROVE Calm(c, l)
  <2>1. CASE f = "root-npp"
    BY <1>1, <1>4, <1>7, <1>10, <2>1 DEF Calm, LemBlock
  <2>2. CASE f = "root-ppc"
    BY <1>1, <1>4, <1>7, <1>10, <2>2 DEF Calm, LemBlock
  <2>3. CASE f \notin {"root-npp", "root-ppc"}
    <3>1. c.runs[l].format \in {b.runs[l].format, "musr-root"}
      BY <1>4
    <3> QED BY <1>2, <1>7, <1>10, <2>3, <3>1 DEF Calm
  <2> QED BY <2>1, <2>2, <2>3
<1> QED BY <1>1, <1>8, <1>9, <1>10

(* A run that has been read before, in the same year, changes nothing.     *)
LEMMA AfterSame ==
  ASSUME NEW b \in RunBlocks, NEW j \in DOMAIN b.runs, NEW y, LemBlock(b), Calm(b, j),
         Renamed(b.runs[j].format, y) = b.runs[j].format
  PROVE  After(b, j, y) = b
<1>1. PICK f, hists : f = b.runs[j].format /\ hists = b.histos
  OBVIOUS
<1>2. b.runs \in Seq(RunNames) /\ hists \in Seq(Int) /\ b.runs[j] \in RunNames
  BY <1>1 DEF RunBlocks
<1>3. \A h \in DOMAIN hists : Shifted(f, hists[h]) = hists[h]
  BY <1>1, <1>2 DEF Calm, Shifted, Offset
<1>4. [h \in DOMAIN hists |-> Shifted(f, hists[h])] = hists
  BY <1>2, <1>3
<1>5. [b.runs[j] EXCEPT !.format = f] = b.runs[j]
  BY <1>1, <1>2 DEF RunNames
<1>6. [b.runs EXCEPT ![j] = b.runs[j]] = b.runs
  BY <1>2
<1>7. After(b, j, y) = [b EXCEPT !.runs = b.runs, !.histos = hists]
  BY <1>1, <1>4, <1>5, <1>6 DEF After
<1> QED BY <1>1, <1>7 DEF RunBlocks

(* The year of a run is that of the last LEM run in front of it, the run   *)
(* itself included: 'p' is the place behind it.                            *)
NamesOf(B) == [a \in DOMAIN B |-> [j \in DOMAIN B[a].runs |-> B[a].runs[j].name]]
Places == (Nat \ {0}) \X (Nat \ {0})
Before(p, q) == p[1] < q[1] \/ (p[1] = q[1] /\ p[2] < q[2])
LemPlaces(N) ==
  {p \in Places : p[1] \in DOMAIN N /\ p[2] \in DOMAIN N[p[1]] /\ LemYear(N[p[1]][p[2]]) # None}
YearIs(N, p, y) ==
  \/ y = 0 /\ \A q \in LemPlaces(N) : ~Before(q, p)
  \/ \E q \in LemPlaces(N) :
       /\ Before(q, p) /\ y = LemYear(N[q[1]][q[2]])
       /\ \A r \in LemPlaces(N) : Before(r, p) => ~Before(q, r)

LEMMA OneYear ==
  ASSUME NEW N, NEW p \in Places, NEW y, NEW z, YearIs(N, p, y), YearIs(N, p, z)
  PROVE  y = z
<1>1. CASE \A q \in LemPlaces(N) : ~Before(q, p)
  BY <1>1 DEF YearIs
<1>2. CASE \E q \in LemPlaces(N) : Before(q, p)
  <2>1. PICK q \in LemPlaces(N) :
          /\ Before(q, p) /\ y = LemYear(N[q[1]][q[2]])
          /\ \A r \in LemPlaces(N) : Before(r, p) => ~Before(q, r)
    BY <1>2 DEF YearIs
  <2>2. PICK r \in LemPlaces(N) :
          /\ Before(r, p) /\ z = LemYear(N[r[1]][r[2]])
          /\ \A s \in LemPlaces(N) : Before(s, p) => ~Before(r, s)
    BY <1>2 DEF YearIs
  <2>3. ~Before(q, r) /\ ~Before(r, q)
    BY <2>1, <2>2
  <2>4. q[1] \in Nat /\ q[2] \in Nat /\ r[1] \in Nat /\ r[2] \in Nat
    BY DEF LemPlaces, Places
  <2>5. q[1] = r[1] /\ q[2] = r[2]
    BY <2>3, <2>4 DEF Before
  <2> QED BY <2>1, <2>2, <2>5
<1> QED BY <1>1, <1>2

(* What YearOf gives for the run at 'p' is the year behind it.             *)
LEMMA NextYear ==
  ASSUME NEW N, NEW p \in Places, p[1] \in DOMAIN N, p[2] \in DOMAIN N[p[1]],
         NEW y, YearIs(N, p, y)
  PROVE  YearIs(N, <<p[1], p[2] + 1>>,
                IF LemYear(N[p[1]][p[2]]) = None THEN y ELSE LemYear(N[p[1]][p[2]]))
<1>1. PICK a, j : a \in Nat \ {0} /\ j \in Nat \ {0} /\ p = <<a, j>> /\ p[1] = a /\ p[2] = j
  BY DEF Places
<1>2. PICK next : next = <<a, j + 1>>
  OBVIOUS
<1>3. next = <<a, j + 1>> /\ next[1] = a /\ next[2] = j + 1
  BY <1>2
<1>4. \A q \in LemPlaces(N) : q[1] \in Nat /\ q[2] \in Nat
  BY DEF LemPlaces, Places
<1>5. \A q \in LemPlaces(N) : Before(q, next) <=> Before(q, p) \/ (q[1] = a /\ q[2] = j)
  BY <1>1, <1>3, <1>4 DEF Before
<1>6. CASE LemYear(N[a][j]) = None
  <2>1. \A q \in LemPlaces(N) : ~(q[1] = a /\ q[2] = j)
    BY <1>6 DEF LemPlaces
  <2>2. \A q \in LemPlaces(N) : Before(q, next) <=> Before(q, p)
    BY <1>5, <2>1
  <2>3. YearIs(N, next, y)
    BY <2>2 DEF YearIs
  <2> QED BY <1>1, <1>3, <1>6, <2>3
<1>7. CASE LemYear(N[a][j]) # None
  <2>1. p \in LemPlaces(N)
    BY <1>1, <1>7 DEF LemPlaces
  <2>2. Before(p, next)
    BY <1>1, <1>3 DEF Before
  <2>3. \A r \in LemPlaces(N) : Before(r, next) => ~Before(p, r)
    BY <1>1, <1>3, <1>4 DEF Before
  <2>4. YearIs(N, next, LemYear(N[a][j]))
    BY <1>1, <2>1, <2>2, <2>3 DEF YearIs
  <2> QED BY <1>1, <1>3, <1>7, <2>4
<1> QED BY <1>6, <1>7

(* Behind the last run of a block comes the first one of the next.         *)
LEMMA YearGoesOn ==
  ASSUME NEW N, NEW a \in Nat \ {0}, NEW j \in Nat \ {0}, NEW y,
         \A l \in DOMAIN N[a] : l \in Nat /\ l <= j, YearIs(N, <<a, j + 1>>, y)
  PROVE  YearIs(N, <<a + 1, 1>>, y)
<1>1. PICK p, q : p = <<a, j + 1>> /\ q = <<a + 1, 1>>
  OBVIOUS
<1>2. /\ p = <<a, j + 1>> /\ p[1] = a /\ p[2] = j + 1
      /\ q = <<a + 1, 1>> /\ q[1] = a + 1 /\ q[2] = 1
  BY <1>1
<1>3. \A r \in LemPlaces(N) : /\ r[1] \in Nat /\ r[2] \in Nat \ {0}
                              /\ r[1] = a => r[2] <= j
  BY DEF LemPlaces, Places
<1>4. \A r \in LemPlaces(N) : Before(r, q) <=> Before(r, p)
  BY <1>2, <1>3 DEF Before
<1>5. YearIs(N, p, y) => YearIs(N, q, y)
  BY <1>4 DEF YearIs
<1> QED BY <1>2, <1>5

(* A run that has been read, in this session or in the first one, stays    *)
(* what it is when it is read again.                                       *)
Settled(N, b, i, j) ==
  Calm(b, j) /\ \E y : YearIs(N, <<i, j + 1>>, y) /\ Renamed(b.runs[j].format, y) = b.runs[j].format

SameInv ==
  /\ \A i \in DOMAIN blocks : LemBlock(blocks[i])
  /\ pc = "read" => YearIs(NamesOf(blocks), at, year)
  /\ \A i \in DOMAIN blocks : \A j \in DOMAIN blocks[i].runs :
       session > 1 \/ Before(<<i, j>>, at) => Settled(NamesOf(blocks), blocks[i], i, j)
  /\ pc = "fit" \/ (pc = "prepare" /\ fAllDataAvailable) => at[1] > Len(blocks)

(* What a run is changed to is settled; the others stay as they were.      *)
LEMMA AfterSettled ==
  ASSUME NEW N, NEW b \in RunBlocks, NEW i, NEW j \in DOMAIN b.runs, NEW y, LemBlock(b),
         YearIs(N, <<i, j + 1>>, y)
  PROVE  /\ LemBlock(After(b, j, y)) /\ Settled(N, After(b, j, y), i, j)
         /\ \A l \in DOMAIN b.runs : Settled(N, b, i, l) => Settled(N, After(b, j, y), i, l)
<1>1. PICK c : c = After(b, j, y)
  OBVIOUS
<1>2. LemBlock(c) /\ Calm(c, j) /\ \A l \in DOMAIN b.runs : Calm(b, l) => Calm(c, l)
  BY <1>1, AfterCalm
<1>3. \A l \in DOMAIN b.runs :
        c.runs[l].format = IF l = j THEN Renamed(b.runs[j].format, y) ELSE b.runs[l].format
  BY <1>1, AfterParts
<1>4. Renamed(Renamed(b.runs[j].format, y), y) = Renamed(b.runs[j].format, y)
  BY DEF Renamed
<1>5. Settled(N, c, i, j)
  BY <1>2, <1>3, <1>4 DEF Settled
<1>6. ASSUME NEW l \in DOMAIN b.runs, Settled(N, b, i, l) PROVE Settled(N, c, i, l)
  <2>1. CASE l = j
    BY <1>5, <2>1
  <2>2. CASE l # j
    BY <1>2, <1>3, <1>6, <2>2 DEF Settled
  <2> QED BY <2>1, <2>2
<1> QED BY <1>1, <1>2, <1>5, <1>6

(* What ReadRun makes of the blocks if it finds the file of the run.       *)
LEMMA ReadRunBlocks ==
  ASSUME WholeInv, ReadRun, pc' # "prepare"
  PROVE  \E i \in DOMAIN blocks : \E j \in DOMAIN blocks[i].runs :
           /\ at = <<i, j>> /\ i \in Nat \ {0} /\ j \in Nat \ {0}
           /\ blocks[i] \in RunBlocks /\ DOMAIN blocks[i].runs = 1..Len(blocks[i].runs)
           /\ year' = YearOf(blocks[i].runs[j].name)
           /\ blocks' = [blocks EXCEPT ![i] = After(blocks[i], j, year')]
           /\ at' = (IF j < Len(blocks[i].runs) THEN <<i, j + 1>> ELSE <<i + 1, 1>>)
           /\ pc = "read" /\ pc' = "read" /\ UNCHANGED <<session, fAllDataAvailable>>
           /\ NamesOf(blocks') = NamesOf(blocks)
<1>1. PICK i, j : i \in Nat \ {0} /\ j \in Nat \ {0} /\ at = <<i, j>> /\ at[1] = i /\ at[2] = j
  BY DEF WholeInv, BlocksOK
<1>2. /\ blocks \in Seq(RunBlocks) /\ Len(blocks) \in Nat /\ DOMAIN blocks = 1..Len(blocks)
      /\ i \in 1..Len(blocks) /\ pc = "read"
  <2>1. blocks \in Seq(RunBlocks)
    BY DEF WholeInv, BlocksOK
  <2>2. pc = "read" /\ at[1] <= Len(blocks)
    BY DEF ReadRun
  <2> QED BY <1>1, <2>1, <2>2
<1>3. PICK b \in RunBlocks : b = blocks[i]
  BY <1>2
<1>4. j \in DOMAIN b.runs /\ DOMAIN b.runs = 1..Len(b.runs)
  <2>1. b.runs \in Seq(RunNames)
    BY <1>3 DEF RunBlocks
  <2>2. j <= Len(b.runs)
    BY <1>1, <1>2, <1>3 DEF WholeInv, BlocksOK
  <2> QED BY <1>1, <2>1, <2>2
<1>5. PICK y : y = YearOf(b.runs[j].name)
  OBVIOUS
<1>6. PICK changed : changed = After(b, j, y)
  OBVIOUS
<1>7. /\ year' = y /\ blocks' = [blocks EXCEPT ![i] = changed]
      /\ at' = NextAt /\ UNCHANGED <<pc, session, fAllDataAvailable>>
  BY <1>1, <1>2, <1>3, <1>5, <1>6 DEF ReadRun
<1>8. at' = (IF j < Len(b.runs) THEN <<i, j + 1>> ELSE <<i + 1, 1>>)
  BY <1>1, <1>3, <1>7 DEF NextAt
<1>9. NamesOf(blocks') = NamesOf(blocks)
  <2>1. /\ Len(changed.runs) = Len(b.runs) /\ changed \in RunBlocks
        /\ \A l \in DOMAIN b.runs : changed.runs[l].name = b.runs[l].name
    BY <1>4, <1>6, AfterOK
  <2>2. DOMAIN changed.runs = DOMAIN b.runs
    BY <1>4, <1>6, AfterParts
  <2>3. [l \in DOMAIN changed.runs |-> changed.runs[l].name] = [l \in DOMAIN b.runs |-> b.runs[l].name]
    BY <2>1, <2>2
  <2>4. DOMAIN blocks' = DOMAIN blocks /\ \A a \in DOMAIN blocks : a # i => blocks'[a] = blocks[a]
    BY <1>7
  <2>5. blocks'[i] = changed
    BY <1>2, <1>7
  <2>6. \A a \in DOMAIN blocks :
          [l \in DOMAIN blocks'[a].runs |-> blocks'[a].runs[l].name]
            = [l \in DOMAIN blocks[a].runs |-> blocks[a].runs[l].name]
    BY <1>3, <2>3, <2>4, <2>5
  <2> QED BY <2>4, <2>6 DEF NamesOf
<1> QED BY <1>1, <1>2, <1>3, <1>4, <1>5, <1>6, <1>7, <1>8, <1>9

LEMMA ReadRunSame ==
  ASSUME WholeInv, SameInv, ReadRun, session \in Nat
  PROVE  SameInv' /\ (session > 1 => blocks' = blocks)
<1>1. CASE pc' = "prepare"
  <2>1. UNCHANGED <<session, blocks, at, year>> /\ fAllDataAvailable' = FALSE
    BY <1>1 DEF ReadRun, reader
  <2> QED BY <1>1, <2>1 DEF SameInv
<1>2. CASE pc' # "prepare"
  <2>1. PICK i \in DOMAIN blocks : \E j \in DOMAIN blocks[i].runs :
           /\ at = <<i, j>> /\ i \in Nat \ {0} /\ j \in Nat \ {0}
           /\ blocks[i] \in RunBlocks /\ DOMAIN blocks[i].runs = 1..Len(blocks[i].runs)
           /\ year' = YearOf(blocks[i].runs[j].name)
           /\ blocks' = [blocks EXCEPT ![i] = After(blocks[i], j, year')]
           /\ at' = (IF j < Len(blocks[i].runs) THEN <<i, j + 1>> ELSE <<i + 1, 1>>)
           /\ pc = "read" /\ pc' = "read" /\ UNCHANGED <<session, fAllDataAvailable>>
           /\ NamesOf(blocks') = NamesOf(blocks)
    BY <1>2, ReadRunBlocks
  <2>2. PICK b \in RunBlocks : b = blocks[i]
    BY <2>1
  <2>3. PICK j \in DOMAIN b.runs :
           /\ at = <<i, j>> /\ i \in Nat \ {0} /\ j \in Nat \ {0}
           /\ DOMAIN b.runs = 1..Len(b.runs)
           /\ year' = YearOf(b.runs[j].name)
           /\ blocks' = [blocks EXCEPT ![i] = After(b, j, year')]
           /\ at' = (IF j < Len(b.runs) THEN <<i, j + 1>> ELSE <<i + 1, 1>>)
           /\ pc = "read" /\ pc' = "read" /\ UNCHANGED <<session, fAllDataAvailable>>
           /\ NamesOf(blocks') = NamesOf(blocks)
    BY <2>1, <2>2
  <2>4. PICK N, y, new, bs : /\ N = NamesOf(blocks) /\ y = year' /\ new = After(b, j, y)
                             /\ bs = blocks'
    OBVIOUS
  <2>5. LemBlock(b) /\ YearIs(N, <<i, j>>, year)
    BY <2>2, <2>3, <2>4 DEF SameInv
  <2>6. /\ i \in DOMAIN N /\ j \in DOMAIN N[i] /\ N[i][j] = b.runs[j].name
        /\ DOMAIN N[i] = DOMAIN b.runs
    BY <2>2, <2>4 DEF NamesOf
  <2>7. YearIs(N, <<i, j + 1>>, y)
    <3>1. PICK p : p = <<i, j>>
      OBVIOUS
    <3>2. p \in Places /\ p[1] = i /\ p[2] = j
      BY <2>3, <3>1 DEF Places
    <3>3. YearIs(N, <<p[1], p[2] + 1>>,
                 IF LemYear(N[p[1]][p[2]]) = None THEN year ELSE LemYear(N[p[1]][p[2]]))
      BY <2>5, <2>6, <3>1, <3>2, NextYear
    <3>4. y = IF LemYear(N[i][j]) = None THEN year ELSE LemYear(N[i][j])
      BY <2>3, <2>4, <2>6 DEF YearOf
    <3> QED BY <3>2, <3>3, <3>4
  <2>8. /\ LemBlock(new) /\ Settled(N, new, i, j)
        /\ \A l \in DOMAIN b.runs : Settled(N, b, i, l) => Settled(N, new, i, l)
    BY <2>4, <2>5, <2>7, AfterSettled
  <2>9. /\ DOMAIN bs = DOMAIN blocks /\ bs[i] = new /\ DOMAIN new.runs = DOMAIN b.runs
        /\ \A a \in DOMAIN blocks : a # i => bs[a] = blocks[a]
    <3>1. DOMAIN new.runs = DOMAIN b.runs
      BY <2>4, AfterParts
    <3> QED BY <2>3, <2>4, <3>1
  <2>10. \A a \in DOMAIN bs : LemBlock(bs[a])
    BY <2>8, <2>9 DEF SameInv
  <2>11. PICK then : then = at'
    OBVIOUS
  <2>12. then = (IF j < Len(b.runs) THEN <<i, j + 1>> ELSE <<i + 1, 1>>) /\ Len(b.runs) \in Nat
    <3>1. b.runs \in Seq(RunNames)
      BY DEF RunBlocks
    <3> QED BY <2>3, <2>11, <3>1
  <2>13. YearIs(N, then, y)
    <3>1. CASE j < Len(b.runs)
      BY <2>7, <2>12, <3>1
    <3>2. CASE ~(j < Len(b.runs))
      <4>1. \A l \in DOMAIN N[i] : l \in Nat /\ l <= j
        BY <2>3, <2>6, <2>12, <3>2
      <4>2. YearIs(N, <<i + 1, 1>>, y)
        BY <2>3, <2>7, <4>1, YearGoesOn
      <4> QED BY <2>12, <3>2, <4>2
    <3> QED BY <3>1, <3>2
  <2>14. \A a \in DOMAIN blocks : \A l \in DOMAIN blocks[a].runs :
           Before(<<a, l>>, then) => Before(<<a, l>>, at) \/ (a = i /\ l = j)
    <3>1. SUFFICES ASSUME NEW a \in DOMAIN blocks, NEW l \in DOMAIN blocks[a].runs,
                          Before(<<a, l>>, then)
                   PROVE  Before(<<a, l>>, at) \/ (a = i /\ l = j)
      OBVIOUS
    <3>2. a \in Nat /\ l \in Nat /\ (a = i => l <= Len(b.runs)) /\ l >= 1
      <4>1. blocks \in Seq(RunBlocks)
        BY DEF WholeInv, BlocksOK
      <4>2. blocks[a] \in RunBlocks /\ a \in Nat
        BY <4>1
      <4>3. blocks[a].runs \in Seq(RunNames)
        BY <4>2 DEF RunBlocks
      <4> QED BY <2>2, <4>2, <4>3
    <3>3. CASE j < Len(b.runs)
      <4>1. a < i \/ (a = i /\ l < j + 1)
        BY <2>12, <3>1, <3>3 DEF Before
      <4> QED BY <2>3, <3>2, <4>1 DEF Before
    <3>4. CASE ~(j < Len(b.runs))
      <4>1. a < i + 1 \/ (a = i + 1 /\ l < 1)
        BY <2>12, <3>1, <3>4 DEF Before
      <4>2. a < i \/ (a = i /\ l <= j)
        BY <2>3, <2>12, <3>2, <3>4, <4>1
      <4> QED BY <2>3, <3>2, <4>2 DEF Before
    <3> QED BY <3>3, <3>4
  <2>15. ASSUME NEW a \in DOMAIN bs, NEW l \in DOMAIN bs[a].runs,
                session > 1 \/ Before(<<a, l>>, then)
         PROVE  Settled(N, bs[a], a, l)
    <3>1. a \in DOMAIN blocks /\ l \in DOMAIN blocks[a].runs
      BY <2>2, <2>9, <2>15
    <3>2. (a = i /\ l = j) \/ Settled(N, blocks[a], a, l)
      BY <2>4, <2>14, <2>15, <3>1 DEF SameInv
    <3>3. CASE a = i
      BY <2>2, <2>8, <2>9, <3>1, <3>2, <3>3
    <3>4. CASE a # i
      BY <2>9, <3>1, <3>2, <3>4
    <3> QED BY <3>3, <3>4
  <2>16. SameInv'
    <3>1. NamesOf(blocks') = N /\ session' = session /\ pc' = "read"
      BY <2>3, <2>4
    <3> QED BY <2>4, <2>10, <2>11, <2>13, <2>15, <3>1 DEF SameInv
  <2>17. ASSUME session > 1 PROVE blocks' = blocks
    <3>1. Settled(N, b, i, j)
      BY <2>2, <2>4, <2>17 DEF SameInv
    <3>2. PICK z : YearIs(N, <<i, j + 1>>, z) /\ Renamed(b.runs[j].format, z) = b.runs[j].format
      BY <3>1 DEF Settled
    <3>3. PICK p : p = <<i, j + 1>>
      OBVIOUS
    <3>4. p \in Places
      BY <2>3, <3>3 DEF Places
    <3>5. y = z
      BY <2>7, <3>2, <3>3, <3>4, OneYear
    <3>6. new = b
      BY <2>4, <2>5, <3>1, <3>2, <3>5, AfterSame DEF Settled
    <3>7. bs = [blocks EXCEPT ![i] = b]
      BY <2>3, <2>4, <3>6
    <3>8. blocks \in Seq(RunBlocks)
      BY DEF WholeInv, BlocksOK
    <3> QED BY <2>2, <2>4, <3>7, <3>8
  <2> QED BY <2>16, <2>17
<1> QED BY <1>1, <1>2

LEMMA NextSame ==
  ASSUME WholeInv, SameInv, session \in Nat \ {0}, [Next]_vars
  PROVE  SameInv' /\ session' \in Nat \ {0} /\ (session > 1 => blocks' = blocks)
<1>1. CASE ReadRun
  <2>1. session' = session
    BY <1>1 DEF ReadRun, reader
  <2> QED BY <1>1, <2>1, ReadRunSame
<1>2. CASE ReadDone
  BY <1>2 DEF ReadDone, reader, SameInv
<1>3. CASE Prepare
  <2>1. pc = "prepare" /\ UNCHANGED <<session, blocks, at, year, fAllDataAvailable>>
    BY <1>3 DEF Prepare, reader
  <2>2. pc' \notin {"read", "prepare"} /\ (pc' = "fit" => fAllDataAvailable)
    BY <1>3 DEF Prepare, Prepared
  <2> QED BY <2>1, <2>2 DEF SameInv
<1>4. CASE NextSession
  <2>1. /\ pc = "fit" /\ session' = session + 1 /\ pc' = "read" /\ blocks' = blocks
        /\ at' = <<1, 1>> /\ year' = 0
    BY <1>4 DEF NextSession
  <2>2. at[1] > Len(blocks)
    BY <2>1 DEF SameInv
  <2>3. PICK N, p : N = NamesOf(blocks) /\ p = <<1, 1>>
    OBVIOUS
  <2>4. YearIs(N, p, 0)
    <3>1. \A q \in LemPlaces(N) : q[1] \in Nat \ {0} /\ q[2] \in Nat \ {0}
      BY DEF LemPlaces, Places
    <3>2. p[1] = 1 /\ p[2] = 1
      BY <2>3
    <3> QED BY <3>1, <3>2 DEF YearIs, Before
  <2>5. ASSUME NEW i \in DOMAIN blocks, NEW j \in DOMAIN blocks[i].runs
        PROVE  Settled(N, blocks[i], i, j)
    <3>1. i < at[1]
      <4>1. blocks \in Seq(RunBlocks) /\ at[1] \in Nat
        BY DEF WholeInv, BlocksOK
      <4> QED BY <2>2, <4>1
    <3>2. Before(<<i, j>>, at)
      BY <3>1 DEF Before
    <3> QED BY <2>3, <3>2 DEF SameInv
  <2>6. SameInv'
    BY <2>1, <2>3, <2>4, <2>5 DEF SameInv
  <2> QED BY <2>1, <2>6
<1>5. CASE Ask \/ Convert \/ Compress \/ Finish
  <2>1. UNCHANGED <<session, blocks, at>> /\ pc' \notin {"read", "prepare", "fit"}
    BY <1>5 DEF Ask, Convert, Compress, Finish, Write, Fail, reader
  <2> QED BY <2>1 DEF SameInv
<1>6. CASE Terminated \/ UNCHANGED vars
  <2>1. UNCHANGED <<pc, session, blocks, at, year, fAllDataAvailable>>
    BY <1>6 DEF Terminated, vars, reader
  <2> QED BY <2>1 DEF SameInv
<1> QED BY <1>1, <1>2, <1>3, <1>4, <1>5, <1>6 DEF Next, Fit, NextReader

(* The session after a fit leaves formats and histogram numbers of the     *)
(* msr-file alone (ReadFilesMsr), for any files and RUN blocks whose LEM   *)
(* runs are of one kind.                                                   *)
THEOREM ReadAlike ==
  ASSUME LemBlocks
  PROVE  Spec => ReadsSameAgain
<1>1. Init => SameInv /\ session \in Nat \ {0}
  <2>1. SUFFICES ASSUME Init PROVE SameInv /\ session \in Nat \ {0}
    OBVIOUS
  <2>2. session = 1 /\ at = <<1, 1>> /\ year = 0 /\ pc \in {"read", "ask"}
    BY <2>1 DEF Init, InitReader
  <2>3. blocks \in Lists \/ blocks = <<>>
    BY <2>1 DEF Init
  <2>4. \A i \in DOMAIN blocks : LemBlock(blocks[i])
    BY <2>3 DEF LemBlocks
  <2>5. PICK N, p : N = NamesOf(blocks) /\ p = <<1, 1>>
    OBVIOUS
  <2>6. p[1] = 1 /\ p[2] = 1
    BY <2>5
  <2>7. YearIs(N, p, 0)
    <3>1. \A q \in LemPlaces(N) : q[1] \in Nat \ {0} /\ q[2] \in Nat \ {0}
      BY DEF LemPlaces, Places
    <3> QED BY <2>6, <3>1 DEF YearIs, Before
  <2>8. ASSUME NEW i \in DOMAIN blocks, NEW j \in DOMAIN blocks[i].runs
        PROVE  ~Before(<<i, j>>, at)
    <3>1. blocks \in Seq(RunBlocks)
      BY <2>1, InitWhole DEF WholeInv, BlocksOK
    <3>2. i \in Nat \ {0} /\ blocks[i] \in RunBlocks
      BY <3>1
    <3>3. blocks[i].runs \in Seq(RunNames)
      BY <3>2 DEF RunBlocks
    <3>4. j \in Nat \ {0}
      BY <3>3
    <3> QED BY <2>2, <3>2, <3>4 DEF Before
  <2> QED BY <2>2, <2>4, <2>5, <2>7, <2>8 DEF SameInv
<1>2. /\ WholeInv /\ SameInv /\ session \in Nat \ {0} /\ [Next]_vars
      => SameInv' /\ (session \in Nat \ {0})' /\ [session > 1 => blocks' = blocks]_vars
  BY NextSame
<1> QED
  BY <1>1, <1>2, InitWhole, NextWhole, PTL DEF Spec, ReadsSameAgain

-----------------------------------------------------------------------------
(* Every run ends up where it was asked for. *)

(* Where any2many looks for its runs. *)
SoughtFor(job) == {Path(PlainPath[d], job.name, job.ext, "as is") : d \in DOMAIN PlainPath}
Sought == UNION {SoughtFor(request.jobs[j]) : j \in DOMAIN request.jobs}

(* No name any2many makes is one under which it looks for a run, or there  *)
(* is a file of that name, which keeps it from making one.                 *)
InputsApart ==
  /\ \A j \in DOMAIN request.jobs :
       WantedName(request.jobs[j]) \in Sought => WantedName(request.jobs[j]) \in DOMAIN given
  /\ NotLookedFor \cap Sought = {}

(* What it may replace is not already what it makes. *)
OlderDiffer ==
  /\ request.compress /\ Archive \in DOMAIN given =>
       given[Archive] # [state |-> "archive", members |-> Wanted]
  /\ ToStdout /\ Temporary \in DOMAIN given => given[Temporary] # Last(Wanted)

Same(p) == p \in DOMAIN disk /\ p \in DOMAIN given /\ disk[p] = given[p]

(* The runs before the k-th are in files of their own,                     *)
InFiles ==
  /\ stdout = <<>>
  /\ Len(outPathFileName) = k - 1
  /\ \A i, j \in 1..(k - 1) : outPathFileName[i] = outPathFileName[j] => i = j
  /\ \A j \in 1..(k - 1) :
       /\ outPathFileName[j] \in DOMAIN disk \ DOMAIN given
       /\ disk[outPathFileName[j]] = Wanted[j]
       /\ outPathFileName[j] = Numbered(WantedName(request.jobs[j]), outPathFileName[j].no)
  /\ \A p \in DOMAIN disk : Same(p) \/ \E j \in 1..(k - 1) : p = outPathFileName[j]
  /\ \A p \in DOMAIN given : Same(p)

(* or on the standard output,                                              *)
OnStdout ==
  /\ request.outFormat \in Direct => stdout = [j \in 1..(k - 1) |-> Wanted[j]]
  /\ request.outFormat \in Streamed => stdout = [i \in 1..2*(k - 1) |-> Wanted[(i + 1) \div 2]]
  /\ \A p \in DOMAIN disk : Same(p)
  /\ \A p \in DOMAIN given : Same(p) \/ (p = Temporary /\ request.outFormat \notin Direct)

(* or the last of them is in the temporary file, which stays.              *)
Overtaken ==
  /\ stdout = <<>>
  /\ k > 1 => Temporary \in DOMAIN disk /\ disk[Temporary] = Wanted[k - 1]
  /\ \A p \in DOMAIN disk : Same(p) \/ (k > 1 /\ p = Temporary)
  /\ \A p \in DOMAIN given : Same(p) \/ (k > 1 /\ p = Temporary)

(* and there has been a file of each.                                      *)
Found == \A j \in 1..(k - 1) : FoundIn(given, request.jobs[j]) \in DOMAIN given

Delivered ==
  /\ Found
  /\ IF ~ToStdout THEN InFiles
     ELSE IF request.outFormat \in Direct \cup Streamed THEN OnStdout ELSE Overtaken

Asking == request \in Requests /\ k \in 1..(Len(request.jobs) + 1)

Underway == pc \in {"ask", "convert"} \/ (pc = "done" /\ ~request.compress)

DeliverInv ==
  /\ Underway => Asking /\ (InputsApart /\ unnoticed = {} => Delivered)
  /\ pc = "done" /\ InputsApart /\ OlderDiffer => EveryRunDelivered

LEMMA RequestIs ==
  ASSUME request \in Requests
  PROVE  /\ request # NoRequest /\ Len(request.jobs) \in Nat \ {0}
         /\ DOMAIN request.jobs = 1..Len(request.jobs)
<1>1. PICK jobs : jobs = request.jobs
  OBVIOUS
<1>2. jobs # <<>> /\ jobs \in Seq(ToSet(jobs))
  BY <1>1, Any2ManyAssumption
<1>3. PICK S : S = ToSet(jobs)
  OBVIOUS
<1>4. Len(jobs) \in Nat \ {0} /\ DOMAIN jobs = 1..Len(jobs)
  BY <1>2, <1>3
<1>5. request # NoRequest
  BY <1>1, <1>2 DEF NoRequest
<1> QED BY <1>1, <1>4, <1>5

LEMMA WantedIs ==
  ASSUME NEW job
  PROVE  /\ Numbered(WantedName(job), 0) = WantedName(job)
         /\ \A n : Numbered(WantedName(job), n).no = n
<1>1. PICK dir, name, ext : WantedName(job) = Path(dir, name, ext, "as is")
  BY DEF WantedName, GetFileName
<1>2. PICK w : w = WantedName(job) /\ w = [dir |-> dir, name |-> name, ext |-> ext, spelled |-> "as is", no |-> 0]
  BY <1>1 DEF Path
<1>3. ASSUME NEW n, n = 0 PROVE [w EXCEPT !.no = n] = w
  <2>1. PICK z : z = [w EXCEPT !.no = n]
    OBVIOUS
  <2>2. z = [dir |-> z.dir, name |-> z.name, ext |-> z.ext, spelled |-> z.spelled, no |-> z.no]
    BY <1>2, <2>1
  <2>3. w = [dir |-> dir, name |-> name, ext |-> ext, spelled |-> "as is", no |-> n]
    BY <1>2, <1>3, Zenon
  <2>4. z.dir = dir /\ z.name = name /\ z.ext = ext /\ z.spelled = "as is" /\ z.no = n
    BY <2>1, <2>3
  <2> QED BY <2>1, <2>2, <2>3, <2>4
<1>4. ASSUME NEW n PROVE [w EXCEPT !.no = n].no = n
  BY <1>2
<1> QED BY <1>2, <1>3, <1>4, Zenon DEF Numbered

LEMMA NameIsNumbered ==
  ASSUME NEW job, ~ToStdout, NEW path, path = GenerateOutputFileName(job)
  PROVE  path = Numbered(WantedName(job), path.no)
<1>1. PICK n : path = Numbered(WantedName(job), n)
  BY DEF GenerateOutputFileName
<1> QED BY <1>1, WantedIs

(* What has been made is nowhere where runs are looked for. *)
LEMMA InputsSame ==
  ASSUME Asking, InputsApart, Delivered, NEW p \in Sought
  PROVE  (p \in DOMAIN disk <=> p \in DOMAIN given) /\ (p \in DOMAIN given => disk[p] = given[p])
<1>1. p \notin NotLookedFor
  BY DEF InputsApart
<1>2. p.no = 0
  <2>1. PICK j \in DOMAIN request.jobs : p \in SoughtFor(request.jobs[j])
    BY DEF Sought
  <2>2. PICK d : p = Path(PlainPath[d], request.jobs[j].name, request.jobs[j].ext, "as is")
    BY <2>1 DEF SoughtFor
  <2> QED BY <2>2 DEF Path
<1>3. CASE ~ToStdout
  <2>1. InFiles
    BY <1>3 DEF Delivered
  <2>2. ASSUME NEW j \in 1..(k - 1), p = outPathFileName[j] PROVE FALSE
    <3>1. j \in DOMAIN request.jobs
      BY RequestIs DEF Asking
    <3>2. p = Numbered(WantedName(request.jobs[j]), 0)
      BY <1>2, <2>1, <2>2 DEF InFiles
    <3>3. p = WantedName(request.jobs[j])
      BY <3>2, WantedIs
    <3>4. p \in DOMAIN given
      BY <3>1, <3>3 DEF InputsApart
    <3> QED BY <2>1, <2>2, <3>4 DEF InFiles
  <2> QED BY <2>1, <2>2 DEF InFiles, Same
<1>4. CASE ToStdout /\ request.outFormat \in Direct
  BY <1>4 DEF Delivered, OnStdout, Same
<1>5. CASE ToStdout /\ request.outFormat \notin Direct
  <2>1. p # Temporary
    BY <1>1, <1>5, RequestIs DEF NotLookedFor, Asking
  <2> QED BY <1>5, <2>1 DEF Delivered, OnStdout, Overtaken, Same
<1> QED BY <1>3, <1>4, <1>5

LEMMA FoundSame ==
  ASSUME Asking, InputsApart, Delivered, NEW j \in DOMAIN request.jobs
  PROVE  /\ FoundPlain(request.jobs[j]) = FoundIn(given, request.jobs[j])
         /\ FoundPlain(request.jobs[j]) # None =>
              /\ FoundIn(given, request.jobs[j]) \in DOMAIN given
              /\ disk[FoundPlain(request.jobs[j])].histos = Source(j)
<1> DEFINE at_(d) == Path(PlainPath[d], request.jobs[j].name, request.jobs[j].ext, "as is")
           hits == {d \in DOMAIN PlainPath : at_(d) \in DOMAIN given}
           hitsNow == {d \in DOMAIN PlainPath : at_(d) \in DOMAIN disk}
           least(S) == CHOOSE d \in S : \A e \in S : d <= e
           first == at_(least(hits))
<1>1. \A d \in DOMAIN PlainPath : at_(d) \in Sought
  <2> SUFFICES ASSUME NEW d \in DOMAIN PlainPath PROVE at_(d) \in Sought
    OBVIOUS
  <2>1. at_(d) \in SoughtFor(request.jobs[j])
    BY DEF SoughtFor
  <2> HIDE DEF at_
  <2> QED BY <2>1 DEF Sought
<1>2. hitsNow = hits
  BY <1>1, InputsSame
<1>3. FoundIn(given, request.jobs[j]) = IF hits = {} THEN None ELSE first
  BY DEF FoundIn
<1>4. FoundPlain(request.jobs[j])
        = IF hitsNow = {} THEN None ELSE at_(least(hitsNow))
  BY DEF FoundPlain, FoundIn
<1>5. FoundPlain(request.jobs[j]) = FoundIn(given, request.jobs[j])
  <2> HIDE DEF hits, hitsNow, least, at_
  <2> QED BY <1>2, <1>3, <1>4
<1>6. ASSUME hits # {} PROVE first \in DOMAIN given /\ disk[first] = given[first]
  <2>1. PICK S : S = ToSet(PlainPath)
    OBVIOUS
  <2>2. PlainPath \in Seq(S)
    BY <2>1, Any2ManyAssumption
  <2>3. hits \subseteq Nat
    <3>1. hits \subseteq DOMAIN PlainPath
      OBVIOUS
    <3>2. DOMAIN PlainPath \subseteq Nat
      BY <2>2
    <3> QED BY <3>1, <3>2, Zenon
  <2>4. \E d \in hits : \A e \in hits : d <= e
    <3> HIDE DEF hits
    <3> QED BY <1>6, <2>3, LeastNumber
  <2>5. PICK d : d = CHOOSE c \in hits : \A e \in hits : c <= e
    OBVIOUS
  <2>6. d \in hits
    BY <2>4, <2>5
  <2>7. at_(d) \in Sought /\ at_(d) \in DOMAIN given
    BY <1>1, <2>6
  <2> QED BY <2>5, <2>7, InputsSame
<1> HIDE DEF first, hits
<1> QED BY <1>3, <1>5, <1>6 DEF Source

LEMMA AppendTo ==
  ASSUME NEW n \in Nat, NEW f
  PROVE  Append([j \in 1..n |-> f[j]], f[n + 1]) = [j \in 1..(n + 1) |-> f[j]]
<1>1. PICK S : S = {f[j] : j \in 1..(n + 1)}
  OBVIOUS
<1>2. PICK s : s = [j \in 1..n |-> f[j]]
  OBVIOUS
<1>3. PICK x : x = f[n + 1]
  OBVIOUS
<1>4. x \in S /\ s \in Seq(S) /\ Len(s) = n
  BY <1>1, <1>2, <1>3
<1>5. PICK t : t = Append(s, x)
  OBVIOUS
<1>6. t \in Seq(S) /\ Len(t) = n + 1 /\ t[n + 1] = x /\ \A j \in 1..n : t[j] = s[j]
  BY <1>4, <1>5, AppendProperties
<1>7. t = [j \in 1..(n + 1) |-> t[j]]
  BY <1>6
<1>8. \A j \in 1..(n + 1) : t[j] = f[j]
  BY <1>2, <1>3, <1>6
<1> QED BY <1>2, <1>3, <1>5, <1>7, <1>8

LEMMA AppendTwice ==
  ASSUME NEW n \in Nat, NEW f
  PROVE  [i \in 1..2*n |-> f[(i + 1) \div 2]] \o <<f[n + 1], f[n + 1]>>
           = [i \in 1..2*(n + 1) |-> f[(i + 1) \div 2]]
<1>1. PICK S : S = {f[j] : j \in 1..(n + 1)}
  OBVIOUS
<1>2. PICK s : s = [i \in 1..2*n |-> f[(i + 1) \div 2]]
  OBVIOUS
<1>3. PICK x : x = f[n + 1]
  OBVIOUS
<1>4. x \in S /\ s \in Seq(S) /\ Len(s) = 2*n
  <2>1. \A i \in 1..2*n : (i + 1) \div 2 \in 1..(n + 1)
    OBVIOUS
  <2>2. \A i \in 1..2*n : s[i] \in S
    BY <1>1, <1>2, <2>1
  <2> QED BY <1>1, <1>2, <1>3, <2>2
<1>5. PICK e : e = <<x, x>>
  OBVIOUS
<1>5a. e \in Seq(S) /\ Len(e) = 2 /\ e[1] = x /\ e[2] = x
  BY <1>4, <1>5
<1>6. PICK t : t = s \o e
  OBVIOUS
<1>7. /\ t \in Seq(S) /\ Len(t) = 2*n + 2
      /\ \A i \in 1..2*n : t[i] = s[i]
      /\ t[2*n + 1] = x /\ t[2*n + 2] = x
  <2>1. PICK l \in Nat : l = 2*n
    OBVIOUS
  <2>2. PICK two \in Nat : two = 2
    OBVIOUS
  <2>3. Len(s) = l /\ Len(e) = two
    BY <1>4, <1>5a, <2>1, <2>2
  <2>4. /\ t \in Seq(S) /\ Len(t) = l + two
        /\ \A i \in 1..(l + two) : t[i] = IF i <= l THEN s[i] ELSE e[i - l]
    BY <1>4, <1>5a, <1>6, <2>3, ConcatProperties
  <2>5. \A i \in 1..l : i \in 1..(l + two) /\ i <= l
    BY <2>2
  <2>6. /\ l + 1 \in 1..(l + two) /\ ~(l + 1 <= l) /\ (l + 1) - l = 1
        /\ l + 2 \in 1..(l + two) /\ ~(l + 2 <= l) /\ (l + 2) - l = 2
    BY <2>2
  <2>7. t[l + 1] = x /\ t[l + 2] = x
    BY <1>5a, <2>4, <2>6
  <2>8. \A i \in 1..l : t[i] = s[i]
    BY <2>4, <2>5
  <2> QED BY <2>1, <2>2, <2>4, <2>7, <2>8
<1>8. 2*n + 2 = 2*(n + 1)
  OBVIOUS
<1>9. t = [i \in 1..2*(n + 1) |-> t[i]]
  BY <1>7, <1>8
<1>10. ASSUME NEW i \in 1..2*(n + 1) PROVE t[i] = f[(i + 1) \div 2]
  <2>1. CASE i \in 1..2*n
    BY <1>2, <1>7, <2>1
  <2>2. CASE i = 2*n + 1 \/ i = 2*n + 2
    <3>1. (i + 1) \div 2 = n + 1
      BY <2>2
    <3> QED BY <1>3, <1>7, <2>2, <3>1
  <2> QED BY <2>1, <2>2
<1> QED BY <1>2, <1>3, <1>5, <1>6, <1>9, <1>10

LEMMA AskedSame ==
  ASSUME UNCHANGED <<given, request>>
  PROVE  /\ Wanted' = Wanted /\ ToStdout' = ToStdout /\ Temporary' = Temporary
         /\ (InputsApart' <=> InputsApart) /\ (OlderDiffer' <=> OlderDiffer)
         /\ \A job : WantedName(job)' = WantedName(job)
<1>1. Wanted' = Wanted
  BY DEF Wanted, Source, Converted, FoundIn
<1>2. ToStdout' = ToStdout /\ Temporary' = Temporary /\ Archive' = Archive /\ NotLookedFor' = NotLookedFor
  BY DEF ToStdout, Temporary, Archive, Tar, NotLookedFor
<1>3. \A job : WantedName(job)' = WantedName(job)
  BY DEF WantedName, GetFileName
<1>4. InputsApart' <=> InputsApart
  <2>1. Sought' = Sought
    BY DEF Sought, SoughtFor
  <2>2. \A j : WantedName(request.jobs[j])' = WantedName(request.jobs[j])
    BY DEF WantedName, GetFileName
  <2> QED BY <1>2, <2>1, <2>2 DEF InputsApart
<1>5. OlderDiffer' <=> OlderDiffer
  BY <1>1, <1>2 DEF OlderDiffer
<1> QED BY <1>1, <1>2, <1>3, <1>4, <1>5

(* What is found for a run depends on the files given and on the request.   *)
LEMMA FoundInSame ==
  ASSUME UNCHANGED <<given, request>>
  PROVE  \A j : FoundIn(given, request.jobs[j])' = FoundIn(given, request.jobs[j])
BY DEF FoundIn

(* A run that is converted ends up with those before it. *)
LEMMA WriteDelivers ==
  ASSUME KeptInv, Asking, k <= Len(request.jobs), UNCHANGED <<given, request>>, Delivered,
         NEW histos, Converted(histos) = Wanted[k], Write(request.jobs[k], histos, {}),
         FoundIn(given, request.jobs[k]) \in DOMAIN given, pc' = "convert", unnoticed' = {}
  PROVE  Delivered' /\ k' = k + 1
<1>1. PICK job : job = request.jobs[k]
  OBVIOUS
<1>2. PICK path : path = GenerateOutputFileName(job)
  OBVIOUS
<1>3. PICK file : file = Converted(histos)
  OBVIOUS
<1>4. PICK n \in Nat : k = n + 1 /\ k - 1 = n
  BY RequestIs DEF Asking
<1>5. /\ k' = k + 1
      /\ \/ /\ ToStdout /\ request.outFormat \in Direct
            /\ stdout' = Append(stdout, file) /\ UNCHANGED <<disk, outPathFileName>>
         \/ /\ ToStdout /\ request.outFormat \in Streamed \ Direct
            /\ stdout' = stdout \o <<file, file>> /\ disk' = Without({path})
         \/ /\ ToStdout /\ request.outFormat \notin Direct \cup Streamed
            /\ UNCHANGED stdout /\ disk' = Put(path, file)
         \/ /\ ~ToStdout
            /\ UNCHANGED stdout /\ disk' = Put(path, file) /\ outPathFileName' = Append(outPathFileName, path)
  BY <1>1, <1>2, <1>3 DEF Write, Fail, KeptNames, Stream
<1>6. k' - 1 = n + 1
  BY <1>4, <1>5
<1>7. file = Wanted[n + 1]
  BY <1>3, <1>4
<1>8. Wanted' = Wanted /\ ToStdout' = ToStdout /\ Temporary' = Temporary
  BY AskedSame
<1>9. PICK W : W = Wanted
  OBVIOUS
<1>9a. Found'
  <2>1. \A j : FoundIn(given, request.jobs[j])' = FoundIn(given, request.jobs[j])
    BY FoundInSame
  <2>2. \A j \in 1..(k' - 1) : j \in 1..(k - 1) \/ j = k
    BY <1>4, <1>6
  <2> QED BY <2>1, <2>2 DEF Found, Delivered
<1>10. CASE ToStdout /\ request.outFormat \in Direct
  <2>1. OnStdout /\ request.outFormat \notin Streamed
    BY <1>10 DEF Delivered, Direct, Streamed
  <2>2. stdout' = Append(stdout, file) /\ UNCHANGED disk
    BY <1>5, <1>10
  <2>3. stdout = [j \in 1..n |-> W[j]]
    BY <1>4, <1>9, <1>10, <2>1 DEF OnStdout
  <2>4. stdout' = [j \in 1..(n + 1) |-> W[j]]
    BY <1>7, <1>9, <2>2, <2>3, AppendTo
  <2>5. stdout' = [j \in 1..(k' - 1) |-> W[j]]
    BY <1>6, <2>4
  <2>6. \A p : Same(p)' <=> Same(p)
    BY <2>2 DEF Same
  <2>7. OnStdout'
    BY <1>8, <1>9, <1>10, <2>1, <2>2, <2>5, <2>6 DEF OnStdout
  <2> QED BY <1>5, <1>8, <1>9a, <1>10, <2>7 DEF Delivered
<1>11. CASE ToStdout /\ request.outFormat \in Streamed \ Direct
  <2>1. OnStdout
    BY <1>11 DEF Delivered
  <2>2. stdout' = stdout \o <<file, file>> /\ disk' = Without({Temporary})
    BY <1>2, <1>5, <1>11 DEF GenerateOutputFileName
  <2>3. stdout = [i \in 1..2*n |-> W[(i + 1) \div 2]]
    BY <1>4, <1>9, <1>11, <2>1 DEF OnStdout
  <2>4. stdout' = [i \in 1..2*(n + 1) |-> W[(i + 1) \div 2]]
    <3>1. [i \in 1..2*n |-> W[(i + 1) \div 2]] \o <<W[n + 1], W[n + 1]>>
            = [i \in 1..2*(n + 1) |-> W[(i + 1) \div 2]]
      BY AppendTwice
    <3>2. file = W[n + 1]
      BY <1>7, <1>9
    <3> QED BY <2>2, <2>3, <3>1, <3>2, Zenon
  <2>5. stdout' = [i \in 1..2*(k' - 1) |-> W[(i + 1) \div 2]]
    BY <1>6, <2>4
  <2>6. DOMAIN disk' = DOMAIN disk \ {Temporary} /\ \A p \in DOMAIN disk' : disk'[p] = disk[p]
    BY <2>2 DEF Without, Changed
  <2>7. \A p \in DOMAIN disk' : Same(p)'
    BY <2>1, <2>6 DEF OnStdout, Same
  <2>8. \A p \in DOMAIN given : Same(p)' \/ p = Temporary
    BY <2>1, <2>6 DEF OnStdout, Same
  <2>9. OnStdout'
    BY <1>8, <1>9, <1>11, <2>5, <2>7, <2>8 DEF OnStdout
  <2> QED BY <1>5, <1>8, <1>9a, <1>11, <2>9 DEF Delivered
<1>12. CASE ToStdout /\ request.outFormat \notin Direct \cup Streamed
  <2>1. Overtaken
    BY <1>12 DEF Delivered
  <2>2. UNCHANGED stdout /\ disk' = Put(Temporary, file)
    BY <1>2, <1>5, <1>12 DEF GenerateOutputFileName
  <2>3. /\ DOMAIN disk' = DOMAIN disk \cup {Temporary} /\ disk'[Temporary] = file
        /\ \A p \in DOMAIN disk \ {Temporary} : disk'[p] = disk[p]
    BY <2>2 DEF Put, Changed
  <2>4. \A p \in DOMAIN disk' : Same(p)' \/ p = Temporary
    BY <2>1, <2>3 DEF Overtaken, Same
  <2>5. \A p \in DOMAIN given : Same(p)' \/ p = Temporary
    BY <2>1, <2>3 DEF Overtaken, Same
  <2>6. k' > 1
    BY <1>4, <1>5
  <2>7. Overtaken'
    BY <1>6, <1>7, <1>8, <2>1, <2>2, <2>3, <2>4, <2>5, <2>6 DEF Overtaken
  <2> QED BY <1>5, <1>8, <1>9a, <1>12, <2>7 DEF Delivered
<1>13. CASE ~ToStdout
  <2>1. InFiles
    BY <1>13 DEF Delivered
  <2>2. path \notin DOMAIN disk /\ path = Numbered(WantedName(job), path.no)
    BY <1>2, <1>13, NameIsFree, NameIsNumbered DEF KeptInv
  <2>3. /\ DOMAIN disk' = DOMAIN disk \cup {path} /\ disk'[path] = file
        /\ \A p \in DOMAIN disk : disk'[p] = disk[p]
    BY <1>5, <1>13, <2>2 DEF Put, Changed
  <2>4. path \notin DOMAIN given
    BY <2>1, <2>2 DEF InFiles, Same
  <2>5. PICK old, new : old = outPathFileName /\ new = outPathFileName'
    OBVIOUS
  <2>6. /\ Len(old) = n
        /\ \A i, j \in 1..n : old[i] = old[j] => i = j
        /\ \A j \in 1..n : /\ old[j] \in DOMAIN disk \ DOMAIN given
                           /\ disk[old[j]] = Wanted[j]
                           /\ old[j] = Numbered(WantedName(request.jobs[j]), old[j].no)
    BY <1>4, <2>1, <2>5 DEF InFiles
  <2>7. Len(new) = n + 1 /\ new[n + 1] = path /\ \A j \in 1..n : new[j] = old[j]
    <3>1. PICK S : S = ToSet(outPathFileName) \cup {path}
      OBVIOUS
    <3>2. old \in Seq(ToSet(outPathFileName)) /\ path \in S
      BY <2>5, <3>1 DEF KeptInv, NamesAreNew
    <3>3. old \in Seq(S)
      BY <3>1, <3>2
    <3>4. new = Append(old, path)
      BY <1>5, <1>13, <2>5
    <3> QED BY <2>6, <3>2, <3>3, <3>4, AppendProperties
  <2>8. \A j \in 1..(n + 1) : j \in 1..n \/ j = n + 1
    OBVIOUS
  <2>9. \A i, j \in 1..(n + 1) : new[i] = new[j] => i = j
    BY <2>2, <2>6, <2>7, <2>8
  <2>10. ASSUME NEW j \in 1..(n + 1)
         PROVE  /\ new[j] \in DOMAIN disk' \ DOMAIN given
                /\ disk'[new[j]] = Wanted[j]
                /\ new[j] = Numbered(WantedName(request.jobs[j]), new[j].no)
    <3>1. CASE j = n + 1
      BY <1>1, <1>4, <1>7, <2>2, <2>3, <2>4, <2>7, <3>1
    <3>2. CASE j \in 1..n
      BY <2>3, <2>6, <2>7, <3>2
    <3> QED BY <2>8, <3>1, <3>2
  <2>11. \A p : Same(p) => Same(p)'
    BY <2>3 DEF Same
  <2>12. \A p \in DOMAIN disk' : Same(p)' \/ \E j \in 1..(n + 1) : p = new[j]
    <3>1. ASSUME NEW p \in DOMAIN disk, ~Same(p) PROVE \E j \in 1..(n + 1) : p = new[j]
      <4>1. PICK j \in 1..n : p = old[j]
        BY <1>4, <2>1, <2>5, <3>1 DEF InFiles
      <4>2. j \in 1..(n + 1) /\ p = new[j]
        BY <2>7, <4>1
      <4> QED BY <4>2
    <3>2. n + 1 \in 1..(n + 1)
      OBVIOUS
    <3> QED BY <2>3, <2>7, <2>11, <3>1, <3>2
  <2>13. \A p \in DOMAIN given : Same(p)'
    BY <2>1, <2>11 DEF InFiles
  <2>14. \A j : WantedName(request.jobs[j])' = WantedName(request.jobs[j])
    BY AskedSame
  <2>15. stdout' = <<>>
    BY <1>5, <1>13, <2>1 DEF InFiles
  <2>16. InFiles'
    BY <1>6, <1>8, <2>5, <2>7, <2>9, <2>10, <2>12, <2>13, <2>14, <2>15 DEF InFiles
  <2> QED BY <1>5, <1>8, <1>9a, <1>13, <2>16 DEF Delivered
<1> QED BY <1>5, <1>10, <1>11, <1>12, <1>13

LEMMA ConvertDelivers == ASSUME KeptInv, DeliverInv, Convert PROVE DeliverInv'
<1>1. /\ pc = "convert" /\ k <= Len(request.jobs) /\ UNCHANGED <<given, request>>
      /\ Asking /\ (InputsApart /\ unnoticed = {} => Delivered)
  BY DEF Convert, DeliverInv, Underway
<1>2. pc' \in {"convert", "failed", "crashed"} /\ (pc' = "convert" => k' = k + 1)
  BY <1>1 DEF Convert, Write, Fail
<1>3. CASE pc' # "convert"
  BY <1>2, <1>3 DEF DeliverInv, Underway
<1>4. CASE pc' = "convert"
  <2>1. Asking'
    BY <1>1, <1>2, <1>4, RequestIs DEF Asking
  <2>2. ASSUME InputsApart', unnoticed' = {} PROVE Delivered'
    <3>1. PICK path : path = FoundPlain(request.jobs[k])
      OBVIOUS
    <3>2. path # None /\ Write(request.jobs[k], disk[path].histos, {})
      <4>1. path # None
        BY <1>4, <3>1 DEF Convert, Fail
      <4>2. ReadInput(disk[path]).ok
        BY <1>4, <3>1, <4>1 DEF Convert, Fail
      <4>3. \A h : ~Write(request.jobs[k], h, {"nothing read"})
        BY <1>4, <2>2 DEF Write, Fail
      <4> QED BY <1>4, <3>1, <4>1, <4>2, <4>3 DEF Convert
    <3>3. unnoticed = {}
      BY <1>4, <2>2, <3>2 DEF Write, Fail
    <3>4. InputsApart
      BY <1>1, <2>2, AskedSame
    <3>5. Delivered
      BY <1>1, <3>3, <3>4
    <3>6. k \in DOMAIN request.jobs
      BY <1>1, RequestIs DEF Asking
    <3>7. FoundIn(given, request.jobs[k]) \in DOMAIN given /\ disk[path].histos = Source(k)
      BY <1>1, <3>1, <3>2, <3>4, <3>5, <3>6, FoundSame
    <3>8. Converted(disk[path].histos) = Wanted[k]
      BY <3>6, <3>7 DEF Wanted
    <3> QED BY <1>1, <1>4, <2>2, <3>2, <3>5, <3>7, <3>8, WriteDelivers
  <2> QED BY <1>4, <2>1, <2>2 DEF DeliverInv, Underway
<1> QED BY <1>3, <1>4

LEMMA NoElements ==
  ASSUME NEW S, S = {}, NEW f
  PROVE  [p \in S |-> f[p]] = <<>>
OBVIOUS

New == {q \in DOMAIN disk : q \in DOMAIN given => disk[q] # given[q]}

LEMMA BesideIs == Beside = [p \in New |-> disk[p]] /\ (New = {} => Beside = <<>>)
<1>1. Beside = [p \in New |-> disk[p]]
  BY DEF Beside, New
<1> QED BY <1>1, NoElements

LEMMA WantedOf ==
  ASSUME request \in Requests
  PROVE  /\ Len(request.jobs) \in Nat \ {0}
         /\ DOMAIN Wanted = 1..Len(request.jobs) /\ Len(Wanted) = Len(request.jobs)
         /\ Wanted = [j \in 1..Len(request.jobs) |-> Wanted[j]]
<1>1. PICK n \in Nat \ {0} : n = Len(request.jobs) /\ DOMAIN request.jobs = 1..n
  BY RequestIs
<1>2. PICK W : W = Wanted
  OBVIOUS
<1>3. DOMAIN W = 1..n /\ W = [j \in 1..n |-> W[j]]
  BY <1>1, <1>2 DEF Wanted
<1>4. W \in Seq({W[j] : j \in 1..n})
  BY <1>3
<1>5. Len(W) = n
  BY <1>3, <1>4
<1> QED BY <1>1, <1>2, <1>3, <1>5

(* Files of their own, all of them new. *)
LEMMA FilesDelivered ==
  ASSUME KeptInv, InFiles, NEW n \in Nat, k - 1 = n
  PROVE  /\ DOMAIN outPathFileName = 1..n
         /\ New = {outPathFileName[j] : j \in 1..n} /\ Cardinality(New) = n
         /\ AllConverted = New
<1>1. PICK names : names = outPathFileName
  OBVIOUS
<1>2. /\ Len(names) = n
      /\ \A i, j \in 1..n : names[i] = names[j] => i = j
      /\ \A j \in 1..n : names[j] \in DOMAIN disk \ DOMAIN given
      /\ \A p \in DOMAIN disk : Same(p) \/ \E j \in 1..n : p = names[j]
  BY <1>1 DEF InFiles
<1>3. DOMAIN names = 1..n
  <2>1. PICK S : S = ToSet(names)
    OBVIOUS
  <2>2. names \in Seq(S)
    BY <1>1, <2>1 DEF KeptInv, NamesAreNew
  <2> QED BY <1>2, <2>2
<1>4. New = {names[j] : j \in 1..n}
  <2>1. ASSUME NEW p \in New PROVE \E j \in 1..n : p = names[j]
    BY <1>2, <2>1 DEF New, Same
  <2>2. ASSUME NEW j \in 1..n PROVE names[j] \in New
    BY <1>2 DEF New
  <2> QED BY <2>1, <2>2
<1>5. Cardinality(New) = n
  <2>1. PICK f : f = [j \in 1..n |-> names[j]]
    OBVIOUS
  <2>2. f \in Bijection(1..n, New)
    <3>1. f \in Surjection(1..n, New)
      BY <1>4, <2>1 DEF Surjection
    <3>2. f \in Injection(1..n, New)
      <4>1. f \in [1..n -> New]
        BY <1>4, <2>1
      <4>2. \A a, b \in DOMAIN f : f[a] = f[b] => a = b
        BY <1>2, <2>1
      <4> QED BY <4>1, <4>2, Zenon DEF Injection, IsInjective
    <3> QED BY <3>1, <3>2 DEF Bijection
  <2>3. ExistsBijection(1..n, New)
    BY <2>2 DEF ExistsBijection
  <2>4. IsFiniteSet(1..n) /\ Cardinality(1..n) = n
    BY FS_Interval
  <2> QED BY <2>3, <2>4, FS_Bijection
<1>6. AllConverted = New
  BY <1>1, <1>3, <1>4 DEF AllConverted, ToSet
<1> QED BY <1>1, <1>3, <1>4, <1>5, <1>6

LEMMA PlainDelivered ==
  ASSUME KeptInv, Asking, k > Len(request.jobs), ~request.compress, Delivered, OlderDiffer
  PROVE  AsAskedFor
<1>1. PICK n \in Nat \ {0} : n = Len(request.jobs) /\ k - 1 = n /\ k = n + 1
  BY RequestIs DEF Asking
<1>2. PICK W : W = Wanted
  OBVIOUS
<1>3. DOMAIN W = 1..n /\ Len(W) = n /\ W = [j \in 1..n |-> W[j]]
  BY <1>1, <1>2, WantedOf DEF Asking
<1>4. CASE ~request.stdout
  <2>1. InFiles
    BY <1>4 DEF Delivered, ToStdout
  <2>2. DOMAIN outPathFileName = 1..n /\ New = {outPathFileName[j] : j \in 1..n} /\ Cardinality(New) = n
    BY <1>1, <2>1, FilesDelivered
  <2>3. \A j \in 1..n : Beside[outPathFileName[j]] = W[j]
    BY <1>1, <1>2, <2>1, <2>2, BesideIs DEF InFiles
  <2>4. DOMAIN Beside = New
    BY BesideIs
  <2>5. [j \in DOMAIN outPathFileName |-> Beside[outPathFileName[j]]] = W
    BY <1>3, <2>2, <2>3
  <2>6. stdout = <<>>
    BY <2>1 DEF InFiles
  <2> QED BY <1>2, <1>3, <1>4, <2>2, <2>4, <2>5, <2>6 DEF AsAskedFor
<1>5. CASE request.stdout /\ request.outFormat \in Direct \cup Streamed
  <2>1. OnStdout
    BY <1>5 DEF Delivered, ToStdout
  <2>2. New = {}
    BY <2>1 DEF OnStdout, New, Same
  <2>3. Beside = <<>>
    BY <2>2, BesideIs
  <2>4. request.outFormat \in Direct => stdout = W
    BY <1>1, <1>2, <1>3, <2>1 DEF OnStdout
  <2>5. request.outFormat \in Streamed => stdout = [i \in 1..2*Len(W) |-> W[(i + 1) \div 2]]
    <3>1. ASSUME request.outFormat \in Streamed
          PROVE  stdout = [i \in 1..2*(k - 1) |-> Wanted[(i + 1) \div 2]]
      BY <2>1, <3>1 DEF OnStdout
    <3>2. k - 1 = Len(W)
      BY <1>1, <1>3
    <3> QED BY <1>2, <3>1, <3>2, Zenon
  <2> QED BY <1>2, <1>5, <2>3, <2>4, <2>5 DEF AsAskedFor
<1>6. CASE request.stdout /\ request.outFormat \notin Direct \cup Streamed
  <2>1. Overtaken
    BY <1>6 DEF Delivered, ToStdout
  <2>2. stdout = <<>> /\ Temporary \in DOMAIN disk /\ disk[Temporary] = W[n]
    BY <1>1, <1>2, <2>1 DEF Overtaken
  <2>3. Last(W) = W[n]
    BY <1>3 DEF Last
  <2>4. Temporary \in New
    BY <1>2, <1>6, <2>2, <2>3 DEF New, OlderDiffer, ToStdout
  <2>5. \A p \in New : p = Temporary
    BY <2>1 DEF Overtaken, New, Same
  <2>6. New = {Temporary}
    BY <2>4, <2>5
  <2>7. DOMAIN Beside = {Temporary} /\ Beside[Temporary] = W[n]
    BY <2>2, <2>6, BesideIs
  <2>8. {Beside[p] : p \in DOMAIN Beside} = {W[n]}
    BY <2>7
  <2> QED BY <1>2, <1>6, <2>2, <2>3, <2>8 DEF AsAskedFor
<1> QED BY <1>4, <1>5, <1>6

LEMMA DeliveredSame ==
  ASSUME UNCHANGED <<disk, given, request, k, outPathFileName, stdout>>, Delivered
  PROVE  Delivered'
<1>1. /\ Wanted' = Wanted /\ ToStdout' = ToStdout /\ Temporary' = Temporary
      /\ \A job : WantedName(job)' = WantedName(job)
  BY AskedSame
<1>2. \A p : Same(p)' <=> Same(p)
  BY DEF Same
<1>3. \A j : WantedName(request.jobs[j])' = WantedName(request.jobs[j])
  BY AskedSame
<1>4. InFiles => InFiles'
  BY <1>1, <1>2, <1>3 DEF InFiles
<1>5. OnStdout => OnStdout'
  BY <1>1, <1>2, <1>3 DEF OnStdout
<1>6. Overtaken => Overtaken'
  BY <1>1, <1>2, <1>3 DEF Overtaken
<1>7. Found'
  <2>1. \A j : FoundIn(given, request.jobs[j])' = FoundIn(given, request.jobs[j])
    BY FoundInSame
  <2> QED BY <2>1 DEF Found, Delivered
<1> QED BY <1>1, <1>4, <1>5, <1>6, <1>7 DEF Delivered

LEMMA FinishDelivers == ASSUME KeptInv, DeliverInv, Finish PROVE DeliverInv'
<1>1. /\ Asking /\ (InputsApart /\ unnoticed = {} => Delivered)
      /\ k > Len(request.jobs) /\ ~request.compress /\ pc' = "done"
      /\ UNCHANGED <<disk, given, request, outPathFileName, stdout, unnoticed>>
  BY DEF DeliverInv, Underway, Finish, converter
<1>2. ASSUME InputsApart', OlderDiffer', unnoticed' = {} PROVE AsAskedFor'
  <2>1. InputsApart /\ OlderDiffer
    BY <1>1, <1>2, AskedSame
  <2>2. AsAskedFor
    BY <1>1, <1>2, <2>1, PlainDelivered
  <2>3. Wanted' = Wanted /\ Beside' = Beside /\ Archive' = Archive
    BY <1>1, AskedSame DEF Beside, Archive
  <2> QED BY <1>1, <2>2, <2>3 DEF AsAskedFor
<1>3. Asking'
  BY <1>1 DEF Asking, Finish, converter
<1>4. ASSUME InputsApart', unnoticed' = {} PROVE Delivered'
  <2>1. InputsApart
    BY <1>1, <1>4, AskedSame
  <2>2. Delivered
    BY <1>1, <1>4, <2>1
  <2>3. k' = k
    BY DEF Finish, converter
  <2> QED BY <1>1, <2>2, <2>3, DeliveredSame
<1> QED BY <1>1, <1>2, <1>3, <1>4 DEF DeliverInv, EveryRunDelivered

LEMMA CompressDelivers == ASSUME KeptInv, DeliverInv, Compress PROVE DeliverInv'
<1>1. /\ Asking /\ (InputsApart /\ unnoticed = {} => Delivered)
      /\ k > Len(request.jobs) /\ request.compress /\ pc' \in {"done", "failed"}
      /\ UNCHANGED <<given, request>>
  BY DEF DeliverInv, Underway, Compress
<1>2. ASSUME pc' = "done", InputsApart', OlderDiffer', unnoticed' = {} PROVE AsAskedFor'
  <2>1. InputsApart /\ OlderDiffer /\ Wanted' = Wanted
    BY <1>1, <1>2, AskedSame
  <2>2. PICK packet : packet = Packet
    OBVIOUS
  <2>3. /\ unnoticed = {}
        /\ IF request.stdout
           THEN /\ stdout' = stdout \o <<packet, packet>>
                /\ disk' = Without(AllConverted \cup TarFirst \cup {Archive})
           ELSE disk' = Changed(AllConverted \cup TarFirst, [p \in {Archive} |-> packet]) /\ UNCHANGED stdout
    BY <1>2, <2>2 DEF Compress, Stream
  <2>4. InFiles
    BY <1>1, <2>1, <2>3 DEF Delivered, ToStdout
  <2>5. PICK n \in Nat \ {0} : n = Len(request.jobs) /\ k - 1 = n /\ k = n + 1
    BY <1>1, RequestIs DEF Asking
  <2>6. PICK W : W = Wanted
    OBVIOUS
  <2>7. W = [j \in 1..n |-> W[j]]
    BY <1>1, <2>5, <2>6, WantedOf DEF Asking
  <2>8. DOMAIN outPathFileName = 1..n /\ AllConverted = New
    BY <2>4, <2>5, FilesDelivered
  <2>9. packet = [state |-> "archive", members |-> W]
    <3>1. Members = 1..n
      BY <2>4, <2>5, <2>8 DEF Members, InFiles
    <3>2. [j \in Members |-> disk[outPathFileName[j]]] = W
      BY <2>4, <2>5, <2>6, <2>7, <3>1 DEF InFiles
    <3> QED BY <2>2, <3>2 DEF Packet
  <2>10. stdout = <<>>
    BY <2>4 DEF InFiles
  <2>11. Archive' = Archive
    BY <1>1 DEF Archive
  <2>12. Beside' = [p \in New' |-> disk'[p]] /\ (New' = {} => Beside' = <<>>)
    <3>1. Beside' = [p \in New' |-> disk'[p]]
      BY DEF Beside, New
    <3>2. ASSUME NEW S, S = New' PROVE S = {} => [p \in S |-> disk'[p]] = <<>>
      BY NoElements
    <3> QED BY <3>1, <3>2
  <2>13. CASE request.stdout
    <3>1. DOMAIN disk' \subseteq DOMAIN disk \ AllConverted /\ \A p \in DOMAIN disk' : disk'[p] = disk[p]
      BY <2>3, <2>13 DEF Without, Changed
    <3>2. New' = {}
      BY <1>1, <2>8, <3>1 DEF New
    <3>3. stdout' = <<packet, packet>>
      BY <2>3, <2>10, <2>13
    <3> QED BY <1>1, <2>1, <2>6, <2>9, <2>12, <2>13, <3>2, <3>3 DEF AsAskedFor
  <2>14. CASE ~request.stdout
    <3>1. /\ DOMAIN disk' \subseteq (DOMAIN disk \ AllConverted) \cup {Archive}
          /\ Archive \in DOMAIN disk' /\ disk'[Archive] = packet
          /\ \A p \in DOMAIN disk' \ {Archive} : disk'[p] = disk[p]
      BY <2>3, <2>14 DEF Changed
    <3>2. Archive \in New'
      BY <1>1, <2>1, <2>6, <2>9, <3>1 DEF New, OlderDiffer
    <3>3. \A p \in New' : p = Archive
      BY <1>1, <2>8, <3>1 DEF New
    <3>4. New' = {Archive}
      BY <3>2, <3>3
    <3>5. Beside' = [p \in {Archive} |-> packet]
      BY <2>12, <3>1, <3>4
    <3>6. stdout' = <<>>
      BY <2>3, <2>10, <2>14
    <3> QED BY <1>1, <2>1, <2>6, <2>9, <2>11, <2>14, <3>5, <3>6 DEF AsAskedFor
  <2> QED BY <2>13, <2>14
<1>3. ~Underway'
  BY <1>1 DEF Underway
<1> QED BY <1>1, <1>2, <1>3 DEF DeliverInv, EveryRunDelivered

LEMMA InitDelivers == Init => DeliverInv
<1> SUFFICES ASSUME Init PROVE DeliverInv
  OBVIOUS
<1>1. pc = "read" \/ (pc = "ask" /\ request \in Requests)
  BY DEF Init
<1>2. k = 1 /\ outPathFileName = <<>> /\ stdout = <<>> /\ given = disk
  BY DEF Init
<1>3. ASSUME request \in Requests PROVE Asking /\ Delivered
  <2>1. Asking
    BY <1>2, <1>3, RequestIs DEF Asking
  <2>2. \A p \in DOMAIN disk : Same(p)
    BY <1>2 DEF Same
  <2>3. k - 1 = 0 /\ Len(outPathFileName) = 0 /\ 1..(k - 1) = {} /\ 1..2*(k - 1) = {}
    BY <1>2
  <2>4. InFiles
    BY <1>2, <2>2, <2>3 DEF InFiles
  <2>5. Overtaken
    BY <1>2, <2>2 DEF Overtaken
  <2>6. stdout = [j \in 1..(k - 1) |-> Wanted[j]] /\ stdout = [i \in 1..2*(k - 1) |-> Wanted[(i + 1) \div 2]]
    <3>1. PICK S : S = {}
      OBVIOUS
    <3>2. <<>> = [j \in S |-> Wanted[j]] /\ <<>> = [i \in S |-> Wanted[(i + 1) \div 2]]
      BY <3>1
    <3> QED BY <1>2, <2>3, <3>1, <3>2
  <2>7. OnStdout
    BY <1>2, <2>2, <2>6 DEF OnStdout
  <2>8. Found
    BY <2>3 DEF Found
  <2> QED BY <2>1, <2>4, <2>5, <2>7, <2>8 DEF Delivered
<1> QED BY <1>1, <1>2, <1>3 DEF DeliverInv, Underway

LEMMA NextDelivers == KeptInv /\ DeliverInv /\ [Next]_vars => DeliverInv'
<1> SUFFICES ASSUME KeptInv, DeliverInv, [Next]_vars PROVE DeliverInv'
  OBVIOUS
<1>1. CASE Convert
  BY <1>1, ConvertDelivers
<1>2. CASE Compress
  BY <1>2, CompressDelivers
<1>3. CASE Finish
  BY <1>3, FinishDelivers
<1>4. CASE Fit
  <2>1. pc' \in {"read", "prepare", "refused", "crashed", "fit"}
    BY <1>4 DEF Fit, NextReader, ReadRun, ReadDone, Prepare, NextSession, Prepared
  <2> QED BY <2>1 DEF DeliverInv, Underway
<1>5. CASE Ask \/ Terminated \/ UNCHANGED vars
  <2>1. UNCHANGED <<disk, given, request, k, outPathFileName, stdout, unnoticed>>
    BY <1>5 DEF Ask, Terminated, vars, converter
  <2>2. (pc = "ask" /\ pc' \in {"ignored", "convert"}) \/ pc' = pc
    BY <1>5 DEF Ask, Terminated, vars
  <2>3. /\ Wanted' = Wanted /\ ToStdout' = ToStdout /\ Temporary' = Temporary
        /\ (InputsApart' <=> InputsApart) /\ (OlderDiffer' <=> OlderDiffer)
        /\ \A job : WantedName(job)' = WantedName(job)
    BY <2>1, AskedSame
  <2>7. Delivered => Delivered'
    BY <2>1, DeliveredSame
  <2>8. EveryRunDelivered /\ pc' = pc => EveryRunDelivered'
    <3>1. Beside' = Beside /\ Archive' = Archive
      BY <2>1 DEF Beside, Archive
    <3> QED BY <2>1, <2>3, <3>1 DEF EveryRunDelivered, AsAskedFor
  <2>9. Asking' <=> Asking
    BY <2>1 DEF Asking
  <2> QED BY <2>1, <2>2, <2>3, <2>7, <2>8, <2>9 DEF DeliverInv, Underway
<1> QED BY <1>1, <1>2, <1>3, <1>4, <1>5 DEF Next

(* However many runs any2many converts, into files of their own, a packed  *)
(* archive or to the standard output: at the end each of them is there,    *)
(* and nothing else is, unless what any2many makes has a name under which  *)
(* it looks for a run, or is in the file it replaces already.              *)
THEOREM AllDelivered == Spec => [](InputsApart /\ OlderDiffer => EveryRunDelivered)
<1>1. DeliverInv => (InputsApart /\ OlderDiffer => EveryRunDelivered)
  BY DEF DeliverInv, EveryRunDelivered
<1>2. KeptInv /\ DeliverInv /\ [Next]_vars => KeptInv' /\ DeliverInv'
  BY NextKept, NextDelivers
<1> QED BY <1>1, <1>2, InitKept, InitDelivers, PTL DEF Spec

-----------------------------------------------------------------------------
(* Loops: what a recursive function and the folds of the model compute.    *)

(* A set of numbers that has the first and with each the next has all.     *)
LEMMA UpTo ==
  ASSUME NEW n \in Nat, NEW S, 0 \in S, \A i \in 0..(n - 1) : i \in S => i + 1 \in S
  PROVE  0..n \subseteq S
<1>1. SUFFICES ASSUME NEW T, T = {i \in 0..n : i \notin S}, T # {} PROVE FALSE
  OBVIOUS
<1>2. PICK m \in T : \A l \in T : m <= l
  BY <1>1, LeastNumber
<1>3. m \in 1..n
  BY <1>1
<1>4. m - 1 \in 0..(n - 1) /\ m - 1 \in S
  BY <1>1, <1>2, <1>3
<1>5. (m - 1) + 1 = m
  BY <1>3
<1> QED
  BY <1>1, <1>4, <1>5

(* Step i of a loop makes f[i] of what the step before has left. *)
Runs(f, start, step, n) == f[0] = start /\ \A i \in 1..n : f[i] = step[<<f[i - 1], i>>]

(* A loop can be run: step by step, each value is made from the one before. *)
LEMMA LoopRuns ==
  ASSUME NEW n \in Nat, NEW S, NEW start \in S, NEW step \in [S \X (1..n) -> S]
  PROVE  \E f \in [0..n -> S] : Runs(f, start, step, n)
<1>0. PICK able : able = {m \in 0..n : \E f \in [0..n -> S] : Runs(f, start, step, m)}
  OBVIOUS
<1>1. 0 \in able
  <2>1. PICK f : f = [i \in 0..n |-> start]
    OBVIOUS
  <2>2. f \in [0..n -> S] /\ f[0] = start
    BY <2>1
  <2>3. Runs(f, start, step, 0)
    BY <2>2 DEF Runs
  <2> QED BY <1>0, <2>2, <2>3
<1>2. ASSUME NEW m \in 0..(n - 1), m \in able PROVE m + 1 \in able
  <2>1. PICK f \in [0..n -> S] : Runs(f, start, step, m)
    BY <1>0, <1>2
  <2>2. PICK v : v = step[<<f[m], m + 1>>]
    OBVIOUS
  <2>3. m \in 0..n /\ m + 1 \in 1..n
    OBVIOUS
  <2>4. f[m] \in S
    BY <2>3
  <2>5. v \in S
    BY <2>2, <2>3, <2>4
  <2>6. PICK g : g = [f EXCEPT ![m + 1] = v]
    OBVIOUS
  <2>7. m + 1 \in 0..n
    OBVIOUS
  <2>8. g \in [0..n -> S] /\ g[m + 1] = v
    BY <2>5, <2>6, <2>7
  <2>9. \A i \in 0..m : g[i] = f[i]
    BY <2>6
  <2>10. g[0] = start
    BY <2>1, <2>9 DEF Runs
  <2>11. ASSUME NEW i \in 1..(m + 1) PROVE g[i] = step[<<g[i - 1], i>>]
    <3>1. i - 1 \in 0..m
      OBVIOUS
    <3>2. g[i - 1] = f[i - 1]
      BY <2>9, <3>1
    <3>3. CASE i = m + 1
      <4>1. i - 1 = m
        BY <3>3
      <4> QED BY <2>2, <2>8, <3>2, <3>3, <4>1
    <3>4. CASE i \in 1..m
      <4>1. f[i] = step[<<f[i - 1], i>>]
        BY <2>1, <3>4 DEF Runs
      <4> QED BY <2>9, <3>2, <3>4, <4>1
    <3> QED BY <3>3, <3>4
  <2>12. Runs(g, start, step, m + 1)
    BY <2>10, <2>11 DEF Runs
  <2> QED BY <1>0, <2>7, <2>8, <2>12
<1>3. 0..n \subseteq able
  BY <1>1, <1>2, UpTo
<1>4. n \in able
  BY <1>3
<1> QED BY <1>0, <1>4 DEF Runs

LEMMA MaxIs ==
  ASSUME NEW n \in Nat, NEW s \in SUBSET (1..n), s # {}
  PROVE  Max(s) \in s /\ \A l \in s : l <= Max(s)
<1>1. PICK T : T = {n - l : l \in s}
  OBVIOUS
<1>2. T # {} /\ T \subseteq Nat
  <2>1. ASSUME NEW t \in T PROVE t \in Nat
    <3>1. PICK l \in s : t = n - l
      BY <1>1, Zenon
    <3> QED BY <3>1
  <2>2. PICK l \in s : TRUE
    OBVIOUS
  <2>3. n - l \in T
    BY <1>1
  <2> QED BY <2>1, <2>3
<1>3. PICK m \in T : \A l \in T : m <= l
  BY <1>2, LeastNumber
<1>4. PICK x \in s : m = n - x
  BY <1>1
<1>5. ASSUME NEW l \in s PROVE x >= l
  <2>1. n - l \in T
    BY <1>1
  <2>2. n - x <= n - l
    BY <1>3, <1>4, <2>1
  <2> QED BY <2>2
<1>6. \E y \in s : \A l \in s : y >= l
  BY <1>5
<1>7. Max(s) \in s /\ \A l \in s : Max(s) >= l
  BY <1>6, Zenon DEF Max
<1> QED BY <1>7

FoldsTo(h, start, step, n) ==
  \A s \in SUBSET (1..n) : h[s] = IF s = {} THEN start ELSE step[<<h[s \ {Max(s)}], Max(s)>>]

(* The function that MapThenFoldSet defines by recursion on the set of the  *)
(* indices that are left, the greatest of which is taken last, exists.     *)
LEMMA FoldRuns ==
  ASSUME NEW n \in Nat, NEW S, NEW start \in S, NEW step \in [S \X (1..n) -> S]
  PROVE  \E h \in [SUBSET (1..n) -> S] : FoldsTo(h, start, step, n)
<1>1. PICK sets : sets = SUBSET (1..n)
  OBVIOUS
<1>2. PICK maps : maps = [sets -> S]
  OBVIOUS
<1>3. PICK first : first = [s \in sets |-> start]
  OBVIOUS
<1>4. first \in maps
  BY <1>2, <1>3
<1>5. PICK next : next = [a \in maps \X (1..n) |->
                            [s \in sets |-> IF a[2] \in s THEN step[<<a[1][s \ {a[2]}], a[2]>>] ELSE a[1][s]]]
  OBVIOUS
<1>6. ASSUME NEW g \in maps, NEW i \in 1..n
      PROVE  /\ next[<<g, i>>] \in maps
             /\ \A s \in sets : next[<<g, i>>][s] = IF i \in s THEN step[<<g[s \ {i}], i>>] ELSE g[s]
  <2>1. PICK g2 : g2 = [s \in sets |-> IF i \in s THEN step[<<g[s \ {i}], i>>] ELSE g[s]]
    OBVIOUS
  <2>2. next[<<g, i>>] = g2
    BY <1>5, <2>1
  <2>3. ASSUME NEW s \in sets PROVE (IF i \in s THEN step[<<g[s \ {i}], i>>] ELSE g[s]) \in S
    <3>1. s \ {i} \in sets
      BY <1>1
    <3>2. g[s] \in S /\ g[s \ {i}] \in S
      BY <1>2, <3>1
    <3> QED BY <3>2
  <2>4. g2 \in maps
    BY <1>2, <2>1, <2>3
  <2> QED BY <2>1, <2>2, <2>4
<1>7. next \in [maps \X (1..n) -> maps]
  <2>1. ASSUME NEW a \in maps \X (1..n) PROVE next[a] \in maps
    <3>1. PICK g \in maps, i \in 1..n : a = <<g, i>>
      OBVIOUS
    <3> QED BY <1>6, <3>1
  <2>2. next = [a \in maps \X (1..n) |-> next[a]]
    BY <1>5
  <2> QED BY <2>1, <2>2
<1>8. PICK H \in [0..n -> maps] : H[0] = first /\ \A i \in 1..n : H[i] = next[<<H[i - 1], i>>]
  <2>1. \E H \in [0..n -> maps] : Runs(H, first, next, n)
    BY <1>4, <1>7, LoopRuns, Zenon
  <2> QED BY <2>1 DEF Runs
<1>9. ASSUME NEW i \in 1..n, NEW s \in sets
      PROVE  H[i][s] = IF i \in s THEN step[<<H[i - 1][s \ {i}], i>>] ELSE H[i - 1][s]
  <2>1. i - 1 \in 0..n
    OBVIOUS
  <2>2. PICK g : g = H[i - 1]
    OBVIOUS
  <2>3. g \in maps
    BY <2>1, <2>2
  <2>4. H[i] = next[<<g, i>>]
    BY <1>8, <2>2
  <2>5. \A z \in sets : next[<<g, i>>][z] = IF i \in z THEN step[<<g[z \ {i}], i>>] ELSE g[z]
    BY <1>6, <2>3
  <2> QED BY <2>2, <2>4, <2>5
(* From the greatest index of a set on nothing changes. *)
<1>10. ASSUME NEW m \in 0..n, NEW s \in SUBSET (1..m) PROVE H[n][s] = H[m][s]
  <2>1. PICK same : same = {j \in 0..(n - m) : H[m + j][s] = H[m][s]}
    OBVIOUS
  <2>2. 0 \in same
    BY <2>1
  <2>3. ASSUME NEW j \in 0..((n - m) - 1), j \in same PROVE j + 1 \in same
    <3>1. m + j + 1 \in 1..n /\ (m + j + 1) - 1 = m + j /\ m + j + 1 \notin s /\ j + 1 \in 0..(n - m)
      OBVIOUS
    <3>2. s \in sets
      BY <1>1
    <3>3. PICK i : i = m + j + 1
      OBVIOUS
    <3>4. H[i][s] = H[i - 1][s]
      <4>1. i \in 1..n /\ i \notin s
        BY <3>1, <3>3
      <4> QED BY <1>9, <3>2, <4>1, Zenon
    <3>5. i - 1 = m + j /\ i = m + (j + 1)
      BY <3>1, <3>3
    <3> QED BY <2>1, <2>3, <3>1, <3>4, <3>5
  <2>4. n - m \in Nat
    OBVIOUS
  <2>5. 0..(n - m) \subseteq same
    BY <2>2, <2>3, <2>4, UpTo, Zenon
  <2>7. n - m \in same
    BY <2>4, <2>5
  <2>6. m + (n - m) = n
    OBVIOUS
  <2> QED BY <2>1, <2>6, <2>7
<1>11. PICK h : h = H[n]
  OBVIOUS
<1>12. h \in [SUBSET (1..n) -> S]
  <2>1. n \in 0..n
    OBVIOUS
  <2> QED BY <1>1, <1>2, <1>11, <2>1
<1>13. ASSUME NEW s \in SUBSET (1..n)
       PROVE  h[s] = IF s = {} THEN start ELSE step[<<h[s \ {Max(s)}], Max(s)>>]
  <2>1. CASE s = {}
    <3>1. {} \in SUBSET (1..0) /\ 0 \in 0..n
      OBVIOUS
    <3>2. H[n][{}] = H[0][{}]
      BY <1>10, <3>1
    <3>3. {} \in sets
      BY <1>1
    <3> QED BY <1>3, <1>8, <1>11, <2>1, <3>2, <3>3
  <2>2. CASE s # {}
    <3>1. PICK x : x = Max(s)
      OBVIOUS
    <3>2. x \in s /\ \A l \in s : l <= x
      BY <2>2, <3>1, MaxIs
    <3>3. x \in 1..n /\ x \in 0..n /\ x - 1 \in 0..n
      BY <3>2
    <3>4. s \in SUBSET (1..x) /\ s \ {x} \in SUBSET (1..(x - 1))
      BY <3>2, <3>3
    <3>5. H[n][s] = H[x][s]
      BY <1>10, <3>3, <3>4
    <3>6. H[n][s \ {x}] = H[x - 1][s \ {x}]
      BY <1>10, <3>3, <3>4
    <3>7. H[x][s] = step[<<H[x - 1][s \ {x}], x>>]
      <4>1. x \in 1..n /\ x \in s /\ s \in sets
        BY <1>1, <3>2, <3>3
      <4> QED BY <1>9, <4>1, Zenon
    <3> QED BY <1>11, <2>2, <3>1, <3>5, <3>6, <3>7
  <2> QED BY <2>1, <2>2
<1> QED BY <1>12, <1>13 DEF FoldsTo

LEMMA MaxUpTo ==
  ASSUME NEW n \in Nat, NEW i \in 1..n
  PROVE  1..i \in SUBSET (1..n) /\ 1..i # {} /\ Max(1..i) = i /\ (1..i) \ {i} = 1..(i - 1)
<1>1. PICK s : s = 1..i
  OBVIOUS
<1>2. s \in SUBSET (1..n) /\ i \in s
  BY <1>1
<1>3. PICK x : x = Max(s)
  OBVIOUS
<1>4. x \in s /\ i <= x
  BY <1>2, <1>3, MaxIs
<1>5. x = i
  BY <1>1, <1>4
<1> QED
  BY <1>1, <1>2, <1>3, <1>5

-----------------------------------------------------------------------------
(* Packs as differences of the sums of all bins up to one.                 *)

SumsOf(P, h, L) == P \in [0..L -> Int] /\ P[0] = 0 /\ \A j \in 1..L : P[j] = P[j - 1] + h[j]

LEMMA SumsExist ==
  ASSUME NEW L \in Nat, NEW h \in [1..L -> Int]
  PROVE  \E P : SumsOf(P, h, L)
<1>1. PICK step : step = [a \in Int \X (1..L) |-> a[1] + h[a[2]]]
  OBVIOUS
<1>2. \A s \in Int, j \in 1..L : step[<<s, j>>] = s + h[j]
  BY <1>1
<1>3. step \in [Int \X (1..L) -> Int]
  BY <1>1
<1>4. PICK P \in [0..L -> Int] : Runs(P, 0, step, L)
  <2>1. 0 \in Int
    OBVIOUS
  <2> QED BY <1>3, <2>1, LoopRuns, Zenon
<1>5. ASSUME NEW j \in 1..L PROVE P[j] = P[j - 1] + h[j]
  <2>1. PICK s : s = P[j - 1]
    OBVIOUS
  <2>2. j - 1 \in 0..L
    OBVIOUS
  <2>3. s \in Int
    BY <2>1, <2>2
  <2> QED BY <1>2, <1>4, <2>1, <2>3 DEF Runs
<1> QED BY <1>4, <1>5 DEF Runs, SumsOf

LEMMA TotalIs ==
  ASSUME NEW L \in Nat, NEW h \in [1..L -> Int], NEW P, SumsOf(P, h, L)
  PROVE  Total(h) = P[L]
<1>1. PICK step : step = [a \in Int \X (1..L) |-> a[1] + h[a[2]]]
  OBVIOUS
<1>2. \A s \in Int, j \in 1..L : step[<<s, j>>] = s + h[j]
  BY <1>1
<1>3. step \in [Int \X (1..L) -> Int]
  BY <1>1
<1>4. PICK g \in [SUBSET (1..L) -> Int] : FoldsTo(g, 0, step, L)
  <2>1. 0 \in Int
    OBVIOUS
  <2> QED BY <1>3, <2>1, FoldRuns, Zenon
<1>5. g = [s \in SUBSET (1..L) |-> IF s = {} THEN 0 ELSE g[s \ {Max(s)}] + h[Max(s)]]
  <2>1. ASSUME NEW s \in SUBSET (1..L)
        PROVE  g[s] = IF s = {} THEN 0 ELSE g[s \ {Max(s)}] + h[Max(s)]
    <3>1. CASE s = {}
      BY <1>4, <3>1 DEF FoldsTo
    <3>2. CASE s # {}
      <4>1. PICK x, v : x = Max(s) /\ v = g[s \ {x}]
        OBVIOUS
      <4>2. x \in 1..L
        BY <3>2, <4>1, MaxIs
      <4>3. v \in Int
        BY <4>1
      <4>4. g[s] = step[<<v, x>>]
        BY <1>4, <3>2, <4>1 DEF FoldsTo
      <4>5. step[<<v, x>>] = v + h[x]
        BY <1>2, <4>2, <4>3
      <4> QED BY <3>2, <4>1, <4>4, <4>5
    <3> QED BY <3>1, <3>2
  <2> QED BY <2>1
<1>6. PICK f : f = CHOOSE z : z = [s \in SUBSET (1..L) |-> IF s = {} THEN 0 ELSE z[s \ {Max(s)}] + h[Max(s)]]
  OBVIOUS
<1>7. f = [s \in SUBSET (1..L) |-> IF s = {} THEN 0 ELSE f[s \ {Max(s)}] + h[Max(s)]]
  BY <1>5, <1>6, Zenon
<1>8. DOMAIN h = 1..L
  OBVIOUS
<1>9. Total(h) = f[1..L]
  BY <1>6, <1>8, Zenon DEF Total, FoldLeft, MapThenFoldSet
<1>10. PICK same : same = {j \in 0..L : f[1..j] = P[j]}
  OBVIOUS
<1>11. 0 \in same
  <2>1. 1..0 = {} /\ {} \in SUBSET (1..L)
    OBVIOUS
  <2> QED BY <1>7, <1>10, <2>1 DEF SumsOf
<1>12. ASSUME NEW j \in 0..(L - 1), j \in same PROVE j + 1 \in same
  <2>1. PICK i \in 1..L : i = j + 1 /\ i - 1 = j /\ i \in 0..L
    OBVIOUS
  <2>2. 1..i \in SUBSET (1..L) /\ 1..i # {} /\ Max(1..i) = i /\ (1..i) \ {i} = 1..(i - 1)
    BY MaxUpTo
  <2>3. f[1..i] = f[1..(i - 1)] + h[i]
    BY <1>7, <2>2
  <2>4. P[i] = P[i - 1] + h[i]
    BY DEF SumsOf
  <2> QED BY <1>10, <1>12, <2>1, <2>3, <2>4
<1>13. L \in same
  <2>1. 0..L \subseteq same
    BY <1>11, <1>12, UpTo
  <2> QED BY <2>1
<1> QED BY <1>9, <1>10, <1>13

LEMMA TotalOf ==
  ASSUME NEW L \in Nat, NEW h \in [1..L -> Int], NEW P, SumsOf(P, h, L),
         NEW a \in 0..L, NEW b \in a..L, NEW c, c = a + 1
  PROVE  Total(SubSeq(h, c, b)) = P[b] - P[a]
<1>1. PICK l \in Nat : l = b - a
  OBVIOUS
<1>1a. PICK s : s = SubSeq(h, c, b)
  OBVIOUS
<1>2. \A i \in c..b : h[i] \in Int
  OBVIOUS
<1>3. /\ s \in Seq(Int) /\ Len(s) = IF c <= b THEN b - c + 1 ELSE 0
      /\ \A i \in 1..(b - c + 1) : s[i] = h[c + i - 1]
  BY <1>1a, <1>2, SubSeqProperties
<1>4. l = b - c + 1 /\ Len(s) = l
  BY <1>1, <1>3
<1>5. s \in [1..l -> Int]
  BY <1>3, <1>4
<1>6. \A i \in 1..l : s[i] = h[a + i]
  <2>1. \A i \in 1..l : c + i - 1 = a + i
    OBVIOUS
  <2> QED BY <1>3, <1>4, <2>1
<1>7. PICK Q : Q = [i \in 0..l |-> P[a + i] - P[a]]
  OBVIOUS
<1>8. \A i \in 0..l : a + i \in 0..L /\ P[a + i] \in Int /\ P[a] \in Int
  BY <1>1 DEF SumsOf
<1>9. Q \in [0..l -> Int] /\ Q[0] = 0
  <2>1. Q \in [0..l -> Int]
    <3>1. \A i \in 0..l : P[a + i] - P[a] \in Int
      BY <1>8
    <3> QED BY <1>7, <3>1, Zenon
  <2>2. 0 \in 0..l /\ a + 0 = a
    OBVIOUS
  <2>3. Q[0] = P[a] - P[a]
    BY <1>7, <2>2
  <2>4. P[a] \in Int
    BY <1>8, <2>2
  <2>5. P[a] - P[a] = 0
    BY <2>4
  <2> QED BY <2>1, <2>3, <2>5
<1>10. ASSUME NEW i \in 1..l PROVE Q[i] = Q[i - 1] + s[i]
  <2>1. PICK j \in 1..L : j = a + i /\ a + (i - 1) = j - 1
    BY <1>1
  <2>2. P[j] = P[j - 1] + h[j]
    BY DEF SumsOf
  <2>3. i \in 0..l /\ i - 1 \in 0..l
    OBVIOUS
  <2>4. Q[i] = P[j] - P[a] /\ Q[i - 1] = P[j - 1] - P[a]
    BY <1>7, <2>1, <2>3
  <2>5. s[i] = h[j] /\ h[j] \in Int /\ P[a] \in Int /\ P[j - 1] \in Int
    BY <1>6, <1>8, <2>1, <2>3
  <2> QED BY <2>2, <2>4, <2>5
<1>11. SumsOf(Q, s, l)
  BY <1>9, <1>10 DEF SumsOf
<1>12. Total(s) = Q[l]
  BY <1>5, <1>11, TotalIs
<1>13. Q[l] = P[b] - P[a]
  BY <1>1, <1>7
<1> QED BY <1>1a, <1>12, <1>13

-----------------------------------------------------------------------------
(* When a pack is closed. *)

LEMMA TimesGrows ==
  ASSUME NEW n \in Nat, NEW y \in Int, NEW z \in Int, y <= z
  PROVE  y*n <= z*n
<1>1. PICK w \in Nat : w = z - y
  OBVIOUS
<1>2. w*n >= 0
  OBVIOUS
<1>3. z*n = y*n + w*n
  BY <1>1
<1>4. y*n \in Int /\ w*n \in Int
  OBVIOUS
<1> QED BY <1>2, <1>3, <1>4

LEMMA DividedIs ==
  ASSUME NEW n \in Nat \ {0}, NEW j \in Nat, NEW q \in Int, q*n <= j, j < (q + 1)*n
  PROVE  j \div n = q
<1>1. PICK d \in Int, r \in 0..(n - 1) : d = j \div n /\ r = j % n /\ j = d*n + r
  <2>1. j \div n \in Int /\ j % n \in 0..(n - 1) /\ j = n*(j \div n) + (j % n)
    OBVIOUS
  <2>2. PICK d \in Int : d = j \div n
    BY <2>1
  <2>3. n*d = d*n
    OBVIOUS
  <2> QED BY <2>1, <2>2, <2>3
<1>2. d*n \in Int /\ q*n \in Int /\ (d + 1)*n = d*n + n /\ (q + 1)*n = q*n + n
  OBVIOUS
<1>3. ~(d < q)
  <2>1. ASSUME d + 1 <= q PROVE FALSE
    <3>1. (d + 1)*n <= q*n
      BY <2>1, TimesGrows
    <3> QED BY <1>1, <1>2, <3>1
  <2> QED BY <2>1
<1>4. ~(d > q)
  <2>1. ASSUME q + 1 <= d PROVE FALSE
    <3>1. (q + 1)*n <= d*n
      BY <2>1, TimesGrows
    <3> QED BY <1>1, <1>2, <3>1
  <2> QED BY <2>1
<1> QED BY <1>1, <1>3, <1>4

LEMMA RestIs ==
  ASSUME NEW n \in Nat \ {0}, NEW j \in Nat, NEW q \in Int, q*n <= j, j < (q + 1)*n
  PROVE  j % n = 0 <=> j = q*n
<1>1. j \div n = q
  BY DividedIs
<1>2. j = n*(j \div n) + (j % n) /\ j % n \in 0..(n - 1)
  OBVIOUS
<1>3. j = n*q + (j % n)
  BY <1>1, <1>2
<1>4. n*q = q*n /\ q*n \in Int
  OBVIOUS
<1> QED BY <1>2, <1>3, <1>4

(* Behind bin j there are q packs: the bins up to j are more than fill     *)
(* them and not more than fill another one.                                *)
Closed(q, j, n) == (j = 0 /\ q = 0) \/ (q*n < j /\ j <= (q + 1)*n)

LEMMA CountNext ==
  ASSUME NEW n \in Nat \ {0}, NEW i \in Nat, NEW q \in Nat, Closed(q, i, n), NEW j \in Nat, j = i + 1
  PROVE  IF Closes(j, n) THEN i = (q + 1)*n /\ Closed(q + 1, j, n) ELSE Closed(q, j, n)
<1>1. PICK x \in Int, y \in Int, z \in Int : x = q*n /\ y = (q + 1)*n /\ z = (q + 2)*n
  OBVIOUS
<1>2. y = x + n /\ z = y + n
  BY <1>1
<1>3. (q + 1) + 1 = q + 2 /\ j - 1 = i
  OBVIOUS
<1>4. CASE i = 0
  <2>1. q = 0
    <3>1. ASSUME q >= 1 PROVE FALSE
      <4>1. 1*n <= q*n
        BY <3>1, TimesGrows
      <4> QED BY <1>1, <1>4, <3>1, <4>1 DEF Closed
    <3> QED BY <3>1
  <2>2. x = 0
    BY <1>1, <2>1
  <2>3. x < j /\ j <= y
    BY <1>2, <1>4, <2>2
  <2> QED BY <1>1, <1>4, <2>3 DEF Closes, Closed
<1>5. CASE i # 0 /\ i < y
  <2>1. x < i
    BY <1>1, <1>5 DEF Closed
  <2>2. i % n # 0
    <3>1. q*n <= i /\ i < (q + 1)*n /\ i # q*n
      BY <1>1, <1>5, <2>1
    <3>2. i % n = 0 <=> i = q*n
      BY <3>1, RestIs
    <3> QED BY <3>1, <3>2
  <2>3. x < j /\ j <= y
    BY <1>5, <2>1
  <2> QED BY <1>1, <1>3, <2>2, <2>3 DEF Closes, Closed
<1>6. CASE i # 0 /\ ~(i < y)
  <2>1. i = y
    BY <1>1, <1>6 DEF Closed
  <2>2. i % n = 0
    BY <1>1, <1>2, <1>3, <2>1, RestIs
  <2>3. y < j /\ j <= z
    BY <1>2, <2>1
  <2>4. Closes(j, n)
    BY <1>3, <1>6, <2>2 DEF Closes
  <2> QED BY <1>1, <1>3, <2>1, <2>3, <2>4 DEF Closed
<1> QED BY <1>4, <1>5, <1>6

LEMMA NoOfPacksIs ==
  ASSUME NEW n \in Nat \ {0}, NEW L \in Nat \ {0}, NEW q \in Nat, Closed(q, L, n)
  PROVE  NoOfPacks(L, n) = q
<1>1. PICK j \in Nat : j = L - 1
  OBVIOUS
<1>2. q*n <= j /\ j < (q + 1)*n
  BY <1>1 DEF Closed
<1>3. j \div n = q
  BY <1>2, DividedIs
<1> QED BY <1>1, <1>3 DEF NoOfPacks

-----------------------------------------------------------------------------
(* The loop over the bins of a histogram. *)

Accs == [sum : Int, packs : Seq(Int)]

LEMMA AddBinIs ==
  ASSUME NEW n \in Nat \ {0}, NEW L \in Nat, NEW h \in [1..L -> Int], NEW kept \in BOOLEAN,
         NEW acc \in Accs, NEW j \in 1..L
  PROVE  AddBin(h, n, kept, acc, j) \in Accs
<1>1. acc.sum \in Int /\ acc.packs \in Seq(Int) /\ h[j] \in Int
  BY DEF Accs
<1>2. PICK more, s, t : more = Append(acc.packs, acc.sum) /\ s = (IF kept THEN h[j] ELSE 0) /\ t = acc.sum + h[j]
  OBVIOUS
<1>3. more \in Seq(Int) /\ s \in Int /\ t \in Int
  BY <1>1, <1>2
<1>4. AddBin(h, n, kept, acc, j) = IF Closes(j, n) THEN [sum |-> s, packs |-> more] ELSE [acc EXCEPT !.sum = t]
  BY <1>2 DEF AddBin
<1>5. [sum |-> s, packs |-> more] \in Accs /\ [acc EXCEPT !.sum = t] \in Accs
  BY <1>3 DEF Accs
<1> QED BY <1>4, <1>5

Start(sum0) == [sum |-> sum0, packs |-> <<>>]

LEMMA StartIs == ASSUME NEW sum0 \in Int PROVE Start(sum0) \in Accs
<1>1. PICK none : none = <<>>
  OBVIOUS
<1>2. none \in Seq(Int)
  BY <1>1
<1> QED BY <1>1, <1>2 DEF Start, Accs

(* What the loop has made of the first bins. *)
LoopOf(f, h, n, kept, sum0, L) ==
  /\ f \in [0..L -> Accs] /\ f[0] = Start(sum0)
  /\ \A j \in 1..L : f[j] = AddBin(h, n, kept, f[j - 1], j)
  /\ Loop(h, n, kept, sum0) = f[L]

LEMMA LoopFolds ==
  ASSUME NEW n \in Nat \ {0}, NEW L \in Nat, NEW h \in [1..L -> Int], NEW kept \in BOOLEAN, NEW sum0 \in Int
  PROVE  \E f : LoopOf(f, h, n, kept, sum0, L)
<1>1. PICK S, start : S = Accs /\ start = Start(sum0)
  OBVIOUS
<1>2. start \in S
  BY <1>1, StartIs
<1>3. PICK step : step = [a \in S \X (1..L) |-> AddBin(h, n, kept, a[1], a[2])]
  OBVIOUS
<1>4. \A s \in S, j \in 1..L : step[<<s, j>>] = AddBin(h, n, kept, s, j)
  BY <1>3
<1>5. step \in [S \X (1..L) -> S]
  <2>1. ASSUME NEW a \in S \X (1..L) PROVE AddBin(h, n, kept, a[1], a[2]) \in S
    <3>1. a[1] \in Accs /\ a[2] \in 1..L
      BY <1>1
    <3> QED BY <1>1, <3>1, AddBinIs
  <2> QED BY <1>3, <2>1
<1>6. PICK g \in [SUBSET (1..L) -> S] : FoldsTo(g, start, step, L)
  BY <1>2, <1>5, FoldRuns, Zenon
<1>7. PICK bins : bins = [i \in DOMAIN h |-> i]
  OBVIOUS
<1>8. DOMAIN bins = 1..L /\ \A j \in 1..L : bins[j] = j
  BY <1>7
<1>9. g = [s \in SUBSET (1..L) |->
             IF s = {} THEN start ELSE AddBin(h, n, kept, g[s \ {Max(s)}], bins[Max(s)])]
  <2>1. ASSUME NEW s \in SUBSET (1..L)
        PROVE  g[s] = IF s = {} THEN start ELSE AddBin(h, n, kept, g[s \ {Max(s)}], bins[Max(s)])
    <3>1. CASE s = {}
      BY <1>6, <3>1 DEF FoldsTo
    <3>2. CASE s # {}
      <4>1. PICK x, v : x = Max(s) /\ v = g[s \ {x}]
        OBVIOUS
      <4>2. x \in 1..L
        BY <3>2, <4>1, MaxIs
      <4>3. v \in S
        BY <4>1
      <4>4. g[s] = step[<<v, x>>]
        BY <1>6, <3>2, <4>1 DEF FoldsTo
      <4>5. step[<<v, x>>] = AddBin(h, n, kept, v, x)
        BY <1>4, <4>2, <4>3
      <4>6. bins[x] = x
        BY <1>8, <4>2
      <4> QED BY <3>2, <4>1, <4>4, <4>5, <4>6
    <3> QED BY <3>1, <3>2
  <2>2. g = [s \in SUBSET (1..L) |-> g[s]]
    BY <1>6
  <2> QED BY <2>1, <2>2, Zenon
<1>10. PICK z : z = CHOOSE y : y = [s \in SUBSET (1..L) |->
             IF s = {} THEN start ELSE AddBin(h, n, kept, y[s \ {Max(s)}], bins[Max(s)])]
  OBVIOUS
<1>11. z = [s \in SUBSET (1..L) |->
             IF s = {} THEN start ELSE AddBin(h, n, kept, z[s \ {Max(s)}], bins[Max(s)])]
  BY <1>9, <1>10, Zenon
<1>12. Loop(h, n, kept, sum0) = z[1..L]
  <2>1. Loop(h, n, kept, sum0)
          = (CHOOSE y : y = [s \in SUBSET (DOMAIN bins) |->
               IF s = {} THEN start ELSE AddBin(h, n, kept, y[s \ {Max(s)}], bins[Max(s)])])[DOMAIN bins]
    BY <1>1, <1>7, Zenon DEF Loop, Start, FoldLeftDomain, FoldLeft, MapThenFoldSet
  <2> QED BY <1>8, <1>10, <2>1, Zenon
<1>13. PICK f : f = [i \in 0..L |-> z[1..i]]
  OBVIOUS
<1>14. f[0] = start
  <2>1. 1..0 = {} /\ {} \in SUBSET (1..L) /\ 0 \in 0..L
    OBVIOUS
  <2> QED BY <1>11, <1>13, <2>1
<1>15. ASSUME NEW j \in 1..L PROVE f[j] = AddBin(h, n, kept, f[j - 1], j)
  <2>1. 1..j \in SUBSET (1..L) /\ 1..j # {} /\ Max(1..j) = j /\ (1..j) \ {j} = 1..(j - 1)
    BY MaxUpTo
  <2>2. z[1..j] = AddBin(h, n, kept, z[1..(j - 1)], j)
    <3>1. z[1..j] = AddBin(h, n, kept, z[(1..j) \ {Max(1..j)}], bins[Max(1..j)])
      BY <1>11, <2>1, Zenon
    <3>2. bins[j] = j
      BY <1>8
    <3> QED BY <2>1, <3>1, <3>2, Zenon
  <2>3. j \in 0..L /\ j - 1 \in 0..L
    OBVIOUS
  <2> QED BY <1>13, <2>2, <2>3
<1>16. PICK good : good = {i \in 0..L : f[i] \in S}
  OBVIOUS
<1>17. ASSUME NEW i \in 0..(L - 1), i \in good PROVE i + 1 \in good
  <2>1. PICK j \in 1..L : j = i + 1 /\ j - 1 = i /\ j \in 0..L
    OBVIOUS
  <2>2. f[j] = AddBin(h, n, kept, f[i], j)
    BY <1>15, <2>1
  <2>3. f[i] \in Accs
    BY <1>1, <1>16, <1>17
  <2>4. f[j] \in S
    BY <1>1, <2>2, <2>3, AddBinIs
  <2> QED BY <1>16, <2>1, <2>4
<1>18. 0..L \subseteq good
  <2>1. 0 \in good
    BY <1>2, <1>14, <1>16
  <2> QED BY <1>17, <2>1, UpTo
<1>19. f \in [0..L -> S]
  BY <1>13, <1>16, <1>18
<1>20. Loop(h, n, kept, sum0) = f[L]
  BY <1>12, <1>13
<1>21. LoopOf(f, h, n, kept, sum0, L)
  BY <1>1, <1>14, <1>15, <1>19, <1>20 DEF LoopOf
<1> QED BY <1>21

(* What is in pack m besides its bins. *)
Extra(h, n, kept, sum0, m) == IF m = 1 THEN sum0 ELSE IF kept THEN 0 ELSE -h[(m - 1)*n + 1]

PackedTo(acc, h, n, kept, sum0, P, q, j) ==
  /\ Closed(q, j, n) /\ Len(acc.packs) = q
  /\ \A m \in 1..q : acc.packs[m] = P[m*n] - P[(m - 1)*n] + Extra(h, n, kept, sum0, m)
  /\ acc.sum = P[j] - P[q*n] + Extra(h, n, kept, sum0, q + 1)
PackedUpTo(acc, h, n, kept, sum0, P, j) == \E q \in Nat : PackedTo(acc, h, n, kept, sum0, P, q, j)

LEMMA SumIs ==
  ASSUME NEW L \in Nat, NEW h \in [1..L -> Int], NEW P, SumsOf(P, h, L), NEW j \in 0..L
  PROVE  P[j] \in Int
BY DEF SumsOf

LEMMA ExtraIs ==
  ASSUME NEW n \in Nat \ {0}, NEW L \in Nat, NEW h \in [1..L -> Int], NEW kept \in BOOLEAN,
         NEW sum0 \in Int, NEW m \in Nat \ {0}, m = 1 \/ (m - 1)*n + 1 \in 1..L
  PROVE  Extra(h, n, kept, sum0, m) \in Int
<1>1. CASE m = 1
  BY <1>1 DEF Extra
<1>2. CASE m # 1
  <2>1. PICK i \in 1..L : i = (m - 1)*n + 1
    BY <1>2
  <2>2. h[i] \in Int
    OBVIOUS
  <2> QED BY <1>2, <2>1, <2>2 DEF Extra
<1> QED BY <1>1, <1>2

LEMMA PackedNext ==
  ASSUME NEW n \in Nat \ {0}, NEW L \in Nat, NEW h \in [1..L -> Int], NEW kept \in BOOLEAN, NEW sum0 \in Int,
         NEW P, SumsOf(P, h, L), NEW acc \in Accs, NEW next, NEW j \in 1..L, next = AddBin(h, n, kept, acc, j),
         NEW i \in 0..L, i = j - 1, NEW q \in Nat, PackedTo(acc, h, n, kept, sum0, P, q, i)
  PROVE  PackedUpTo(next, h, n, kept, sum0, P, j)
<1>1. PICK E : E = [m \in Nat |-> Extra(h, n, kept, sum0, m)]
  OBVIOUS
<1>2. acc.sum \in Int /\ acc.packs \in Seq(Int) /\ h[j] \in Int /\ P[i] \in Int /\ P[j] = P[i] + h[j]
  <2>1. P[j] = P[j - 1] + h[j]
    BY DEF SumsOf
  <2> QED BY <2>1, SumIs DEF Accs
<1>3. /\ Closed(q, i, n) /\ Len(acc.packs) = q /\ q + 1 \in Nat
      /\ \A m \in 1..q : acc.packs[m] = P[m*n] - P[(m - 1)*n] + E[m]
      /\ acc.sum = P[i] - P[q*n] + E[q + 1]
  <2>1. Closed(q, i, n) /\ Len(acc.packs) = q /\ q + 1 \in Nat
    BY DEF PackedTo
  <2>2. ASSUME NEW m \in 1..q PROVE acc.packs[m] = P[m*n] - P[(m - 1)*n] + E[m]
    <3>1. acc.packs[m] = P[m*n] - P[(m - 1)*n] + Extra(h, n, kept, sum0, m)
      BY Zenon DEF PackedTo
    <3>2. Extra(h, n, kept, sum0, m) = E[m]
      BY <1>1
    <3> QED BY <3>1, <3>2, Zenon
  <2>3. acc.sum = P[i] - P[q*n] + E[q + 1]
    <3>1. acc.sum = P[i] - P[q*n] + Extra(h, n, kept, sum0, q + 1)
      BY Zenon DEF PackedTo
    <3>2. Extra(h, n, kept, sum0, q + 1) = E[q + 1]
      BY <1>1
    <3> QED BY <3>1, <3>2, Zenon
  <2> QED BY <2>1, <2>2, <2>3, Zenon
<1>4. IF Closes(j, n) THEN i = (q + 1)*n /\ Closed(q + 1, j, n) ELSE Closed(q, j, n)
  BY <1>3, CountNext
<1>5. CASE Closes(j, n)
  <2>1. PICK r \in Nat : r = q + 1
    OBVIOUS
  <2>2. i = r*n /\ Closed(r, j, n)
    BY <1>4, <1>5, <2>1
  <2>3. PICK more, s : more = Append(acc.packs, acc.sum) /\ s = (IF kept THEN h[j] ELSE 0)
    OBVIOUS
  <2>4. next.packs = more /\ next.sum = s
    BY <1>5, <2>3 DEF AddBin
  <2>5. Len(more) = r /\ more[r] = acc.sum /\ \A m \in 1..q : more[m] = acc.packs[m]
    BY <1>2, <1>3, <2>1, <2>3
  <2>6. ASSUME NEW m \in 1..r PROVE more[m] = P[m*n] - P[(m - 1)*n] + Extra(h, n, kept, sum0, m)
    <3>1. CASE m = r
      <4>1. m - 1 = q /\ m \in Nat
        BY <2>1, <3>1
      <4>2. acc.sum = P[r*n] - P[q*n] + E[r]
        BY <1>3, <2>1, <2>2
      <4> QED BY <1>1, <2>5, <3>1, <4>1, <4>2
    <3>2. CASE m # r
      <4>1. m \in 1..q
        BY <2>1, <3>2
      <4>2. E[m] = Extra(h, n, kept, sum0, m)
        BY <1>1
      <4> QED BY <1>3, <2>5, <4>1, <4>2
    <3> QED BY <3>1, <3>2
  <2>7. s = P[j] - P[r*n] + Extra(h, n, kept, sum0, r + 1)
    <3>1. Extra(h, n, kept, sum0, r + 1) = IF kept THEN 0 ELSE -h[j]
      <4>1. (r + 1) - 1 = r /\ r + 1 # 1
        BY <2>1
      <4>2. r*n + 1 = j
        BY <2>2
      <4> QED BY <4>1, <4>2 DEF Extra
    <3>2. PICK p \in Int, b \in Int : p = P[i] /\ b = h[j]
      BY <1>2
    <3>2a. PICK e : e = IF kept THEN 0 ELSE -b
      OBVIOUS
    <3>3. s = (p + b) - p + e
      BY <2>3, <3>2, <3>2a
    <3>4. P[j] = p + b /\ P[r*n] = p /\ Extra(h, n, kept, sum0, r + 1) = e
      BY <1>2, <2>2, <3>1, <3>2, <3>2a
    <3> QED BY <3>3, <3>4, Zenon
  <2>8. PackedTo(next, h, n, kept, sum0, P, r, j)
    BY <2>2, <2>4, <2>5, <2>6, <2>7 DEF PackedTo
  <2> QED BY <2>8 DEF PackedUpTo
<1>6. CASE ~Closes(j, n)
  <2>1. Closed(q, j, n)
    BY <1>4, <1>6
  <2>2. PICK t : t = acc.sum + h[j]
    OBVIOUS
  <2>3. next.packs = acc.packs /\ next.sum = t
    <3>1. next = [acc EXCEPT !.sum = t]
      BY <1>6, <2>2 DEF AddBin
    <3> QED BY <3>1 DEF Accs
  <2>4. t = P[j] - P[q*n] + Extra(h, n, kept, sum0, q + 1)
    <3>1. q*n \in 0..L
      <4>1. q*n \in Nat
        OBVIOUS
      <4>2. CASE q = 0
        <5>1. q*n = 0
          BY <4>2
        <5> QED BY <5>1
      <4>3. CASE q # 0
        BY <1>3, <4>1, <4>3 DEF Closed
      <4> QED BY <4>2, <4>3
    <3>2. P[q*n] \in Int
      BY <3>1, SumIs
    <3>3. PICK m \in Nat \ {0} : m = q + 1 /\ m - 1 = q
      OBVIOUS
    <3>4. m = 1 \/ (m - 1)*n + 1 \in 1..L
      <4>1. CASE q # 0
        <5>1. q*n < i
          BY <1>3, <4>1 DEF Closed
        <5> QED BY <3>1, <3>3, <5>1
      <4> QED BY <3>3, <4>1
    <3>5. Extra(h, n, kept, sum0, m) \in Int
      BY <3>4, ExtraIs
    <3>6. PICK u \in Int, e \in Int : u = P[q*n] /\ e = Extra(h, n, kept, sum0, q + 1) /\ E[q + 1] = e
      BY <1>1, <3>2, <3>3, <3>5
    <3>7. t = P[i] - u + e + h[j]
      BY <1>3, <2>2, <3>6
    <3>8. PICK p \in Int, b \in Int : p = P[i] /\ b = h[j]
      BY <1>2
    <3>9. t = p - u + e + b /\ P[j] = p + b
      BY <1>2, <3>7, <3>8
    <3>10. t = (p + b) - u + e
      BY <3>9
    <3> QED BY <3>6, <3>9, <3>10, Zenon
  <2>5. \A m \in 1..q : E[m] = Extra(h, n, kept, sum0, m)
    BY <1>1
  <2>6. PackedTo(next, h, n, kept, sum0, P, q, j)
    BY <1>3, <2>1, <2>3, <2>4, <2>5 DEF PackedTo
  <2> QED BY <2>6 DEF PackedUpTo
<1> QED BY <1>5, <1>6

LEMMA LoopIs ==
  ASSUME NEW n \in Nat \ {0}, NEW L \in Nat, NEW h \in [1..L -> Int], NEW kept \in BOOLEAN, NEW sum0 \in Int,
         NEW P, SumsOf(P, h, L)
  PROVE  /\ Loop(h, n, kept, sum0) \in Accs
         /\ \E q \in Nat : PackedTo(Loop(h, n, kept, sum0), h, n, kept, sum0, P, q, L)
<1>1. PICK f : LoopOf(f, h, n, kept, sum0, L)
  BY LoopFolds
<1>2. PICK good : good = {j \in 0..L : \E q \in Nat : PackedTo(f[j], h, n, kept, sum0, P, q, j)}
  OBVIOUS
<1>3. 0 \in good
  <2>1. f[0].packs = <<>> /\ f[0].sum = sum0
    BY <1>1 DEF LoopOf, Start
  <2>2. Len(<<>>) = 0 /\ 0*n = 0 /\ 0 + 1 = 1
    OBVIOUS
  <2>3. P[0] = 0
    BY DEF SumsOf
  <2>4. f[0].sum = P[0] - P[0*n] + Extra(h, n, kept, sum0, 0 + 1)
    BY <2>1, <2>2, <2>3 DEF Extra
  <2>5. Closed(0, 0, n)
    BY DEF Closed
  <2>6. PackedTo(f[0], h, n, kept, sum0, P, 0, 0)
    BY <2>1, <2>2, <2>4, <2>5 DEF PackedTo
  <2> QED BY <1>2, <2>6
<1>4. ASSUME NEW i \in 0..(L - 1), i \in good PROVE i + 1 \in good
  <2>1. PICK j \in 1..L : j = i + 1 /\ i = j - 1 /\ j \in 0..L /\ i \in 0..L
    OBVIOUS
  <2>2. PICK q \in Nat : PackedTo(f[i], h, n, kept, sum0, P, q, i)
    BY <1>2, <1>4
  <2>3. f[i] \in Accs /\ f[j] = AddBin(h, n, kept, f[i], j)
    BY <1>1, <2>1 DEF LoopOf
  <2>4. \E r \in Nat : PackedTo(f[j], h, n, kept, sum0, P, r, j)
    <3>1. PICK acc, next : acc = f[i] /\ next = f[j]
      OBVIOUS
    <3>2. acc \in Accs
      BY <2>3, <3>1
    <3>3. next = AddBin(h, n, kept, acc, j)
      BY <2>3, <3>1
    <3>4. PackedTo(acc, h, n, kept, sum0, P, q, i)
      BY <2>2, <3>1
    <3>5. i \in 0..L
      BY <2>1
    <3>6. i = j - 1
      BY <2>1
    <3>7. PackedUpTo(next, h, n, kept, sum0, P, j)
      BY <3>2, <3>3, <3>4, <3>5, <3>6, PackedNext, Zenon
    <3> QED BY <3>1, <3>7 DEF PackedUpTo
  <2> QED BY <1>2, <2>1, <2>4
<1>5. L \in good
  <2>1. 0..L \subseteq good
    BY <1>3, <1>4, UpTo
  <2> QED BY <2>1
<1>6. Loop(h, n, kept, sum0) = f[L] /\ f[L] \in Accs
  BY <1>1 DEF LoopOf
<1> QED BY <1>2, <1>5, <1>6

(* Loop in terms of what a pack is to hold. *)
LoopGives(loop, h, n, kept, sum0, q, L) ==
  /\ loop.sum \in Int /\ loop.packs \in Seq(Int) /\ q \in Nat /\ Len(loop.packs) = q
  /\ \A m \in 1..q : loop.packs[m] = Pack(h, m, n) + Extra(h, n, kept, sum0, m)
  /\ kept /\ q # 0 => loop.sum = Total(SubSeq(h, q*n + 1, L))

LEMMA PacksOf ==
  ASSUME NEW n \in Nat \ {0}, NEW L \in Nat \ {0}, NEW h \in [1..L -> Int], NEW kept \in BOOLEAN, NEW sum0 \in Int,
         NEW loop, loop = Loop(h, n, kept, sum0), NEW q, q = NoOfPacks(L, n)
  PROVE  LoopGives(loop, h, n, kept, sum0, q, L)
<1>1. PICK P : SumsOf(P, h, L)
  BY SumsExist
<1>2. loop \in Accs /\ \E r \in Nat : PackedTo(loop, h, n, kept, sum0, P, r, L)
  BY <1>1, LoopIs
<1>3. PICK r \in Nat : PackedTo(loop, h, n, kept, sum0, P, r, L)
  BY <1>2
<1>4. r = q
  BY <1>3, NoOfPacksIs DEF PackedTo
<1>5. ASSUME NEW m \in 1..r PROVE m \in Nat /\ m*n \in 0..L /\ (m - 1)*n \in 0..(m*n) /\ m*n = (m - 1)*n + n
  <2>1. m*n <= r*n
    BY TimesGrows
  <2>2. r*n < L
    BY <1>3 DEF PackedTo, Closed
  <2>3. m*n = (m - 1)*n + n /\ m*n \in Nat /\ (m - 1)*n \in Nat /\ r*n \in Nat
    OBVIOUS
  <2> QED BY <2>1, <2>2, <2>3
<1>6. ASSUME NEW m \in 1..r PROVE loop.packs[m] = Pack(h, m, n) + Extra(h, n, kept, sum0, m)
  <2>0. PICK a \in 0..L : a = (m - 1)*n
    BY <1>5
  <2>1. PICK b \in a..L : b = m*n /\ a = (m - 1)*n
    BY <1>5, <2>0
  <2>2. Pack(h, m, n) = Total(SubSeq(h, a + 1, b))
    BY <2>1 DEF Pack
  <2>3. Total(SubSeq(h, a + 1, b)) = P[b] - P[a]
    BY <1>1, TotalOf
  <2>4. loop.packs[m] = P[m*n] - P[(m - 1)*n] + Extra(h, n, kept, sum0, m)
    BY <1>3 DEF PackedTo
  <2> QED BY <2>1, <2>2, <2>3, <2>4, Zenon
<1>7. ASSUME kept, r # 0 PROVE loop.sum = Total(SubSeq(h, r*n + 1, L))
  <2>1. PICK a \in 0..L : a = r*n
    <3>1. r*n \in Nat
      OBVIOUS
    <3>2. r*n < L
      BY <1>3, <1>7 DEF PackedTo, Closed
    <3> QED BY <3>1, <3>2
  <2>2. PICK b \in a..L : b = L
    OBVIOUS
  <2>3. Total(SubSeq(h, a + 1, b)) = P[b] - P[a]
    BY <1>1, TotalOf
  <2>4. Extra(h, n, kept, sum0, r + 1) = 0
    BY <1>7 DEF Extra
  <2>5. loop.sum = P[b] - P[a] + 0
    BY <1>3, <2>1, <2>2, <2>4 DEF PackedTo
  <2>6. P[b] \in Int /\ P[a] \in Int
    BY <1>1, <2>2, SumIs
  <2>7. P[b] - P[a] + 0 = P[b] - P[a]
    BY <2>6
  <2> QED BY <2>1, <2>2, <2>3, <2>5, <2>7, Zenon
<1>8. loop.sum \in Int /\ loop.packs \in Seq(Int) /\ Len(loop.packs) = r
  BY <1>2, <1>3 DEF Accs, PackedTo
<1> QED BY <1>4, <1>6, <1>7, <1>8 DEF LoopGives

-----------------------------------------------------------------------------
(* The loop over the histograms. *)

Histos(N, L) == [1..N -> [1..L -> Int]]
SetAccs == [sum : Int, histos : Seq(Seq(Int))]

LEMMA AddHistoIs ==
  ASSUME NEW n \in Nat \ {0}, NEW L \in Nat \ {0}, NEW h \in [1..L -> Int], NEW acc \in SetAccs
  PROVE  AddHisto(n, acc, h) \in SetAccs
<1>1. acc.sum \in Int
  BY DEF SetAccs
<1>2. PICK loop : loop = Loop(h, n, TRUE, acc.sum)
  OBVIOUS
<1>3. loop.sum \in Int /\ loop.packs \in Seq(Int)
  <2>1. PICK s \in Int : s = acc.sum
    BY <1>1
  <2>2. PICK kept \in BOOLEAN : kept = TRUE
    OBVIOUS
  <2>3. PICK q : q = NoOfPacks(L, n)
    OBVIOUS
  <2>4. loop = Loop(h, n, kept, s)
    BY <1>2, <2>1, <2>2
  <2>5. LoopGives(loop, h, n, kept, s, q, L)
    BY <2>3, <2>4, PacksOf, Zenon
  <2> QED BY <2>5 DEF LoopGives
<1>4. PICK S, T : S = Seq(Int) /\ T = Seq(S)
  OBVIOUS
<1>5. acc.histos \in T /\ loop.packs \in S
  BY <1>3, <1>4 DEF SetAccs
<1>6. PICK more : more = Append(acc.histos, loop.packs)
  OBVIOUS
<1>7. more \in T
  BY <1>4, <1>5, <1>6
<1>8. AddHisto(n, acc, h) = [sum |-> loop.sum, histos |-> more]
  BY <1>2, <1>6 DEF AddHisto
<1> QED BY <1>3, <1>4, <1>7, <1>8 DEF SetAccs

SetStart == [sum |-> 0, histos |-> <<>>]

LEMMA SetStartIs == SetStart \in SetAccs
<1>1. PICK S, T, none : S = Seq(Int) /\ T = Seq(S) /\ none = <<>>
  OBVIOUS
<1>2. none \in T
  BY <1>1
<1> QED BY <1>1, <1>2 DEF SetStart, SetAccs

SetOf(f, hs, n, N) ==
  /\ f \in [0..N -> SetAccs] /\ f[0] = SetStart
  /\ \A i \in 1..N : f[i] = AddHisto(n, f[i - 1], hs[i])
  /\ LoopSet(hs, n) = f[N].histos

LEMMA SetFolds ==
  ASSUME NEW n \in Nat \ {0}, NEW N \in Nat, NEW L \in Nat \ {0}, NEW hs \in Histos(N, L)
  PROVE  \E f : SetOf(f, hs, n, N)
<1>1. PICK S : S = SetAccs
  OBVIOUS
<1>2. SetStart \in S /\ DOMAIN hs = 1..N /\ \A i \in 1..N : hs[i] \in [1..L -> Int]
  BY <1>1, SetStartIs DEF Histos
<1>3. PICK step : step = [a \in S \X (1..N) |-> AddHisto(n, a[1], hs[a[2]])]
  OBVIOUS
<1>4. \A s \in S, i \in 1..N : step[<<s, i>>] = AddHisto(n, s, hs[i])
  BY <1>3
<1>5. step \in [S \X (1..N) -> S]
  <2>1. ASSUME NEW a \in S \X (1..N) PROVE AddHisto(n, a[1], hs[a[2]]) \in S
    <3>1. a[1] \in SetAccs /\ hs[a[2]] \in [1..L -> Int]
      BY <1>1, <1>2
    <3> QED BY <1>1, <3>1, AddHistoIs
  <2> QED BY <1>3, <2>1
<1>6. PICK g \in [SUBSET (1..N) -> S] : FoldsTo(g, SetStart, step, N)
  BY <1>2, <1>5, FoldRuns, Zenon
<1>7. g = [s \in SUBSET (1..N) |-> IF s = {} THEN SetStart ELSE AddHisto(n, g[s \ {Max(s)}], hs[Max(s)])]
  <2>1. ASSUME NEW s \in SUBSET (1..N)
        PROVE  g[s] = IF s = {} THEN SetStart ELSE AddHisto(n, g[s \ {Max(s)}], hs[Max(s)])
    <3>1. CASE s = {}
      BY <1>6, <3>1 DEF FoldsTo
    <3>2. CASE s # {}
      <4>1. PICK x, v : x = Max(s) /\ v = g[s \ {x}]
        OBVIOUS
      <4>2. x \in 1..N
        BY <3>2, <4>1, MaxIs
      <4>3. v \in S
        BY <4>1
      <4>4. g[s] = step[<<v, x>>]
        BY <1>6, <3>2, <4>1 DEF FoldsTo
      <4>5. step[<<v, x>>] = AddHisto(n, v, hs[x])
        BY <1>4, <4>2, <4>3
      <4> QED BY <3>2, <4>1, <4>4, <4>5
    <3> QED BY <3>1, <3>2
  <2>2. g = [s \in SUBSET (1..N) |-> g[s]]
    BY <1>6
  <2> QED BY <2>1, <2>2, Zenon
<1>8. PICK z : z = CHOOSE y : y = [s \in SUBSET (1..N) |->
             IF s = {} THEN SetStart ELSE AddHisto(n, y[s \ {Max(s)}], hs[Max(s)])]
  OBVIOUS
<1>9. z = [s \in SUBSET (1..N) |-> IF s = {} THEN SetStart ELSE AddHisto(n, z[s \ {Max(s)}], hs[Max(s)])]
  BY <1>7, <1>8, Zenon
<1>10. LoopSet(hs, n) = z[1..N].histos
  BY <1>2, <1>8, Zenon DEF LoopSet, SetStart, FoldLeft, MapThenFoldSet
<1>11. PICK f : f = [i \in 0..N |-> z[1..i]]
  OBVIOUS
<1>12. f[0] = SetStart
  <2>1. 1..0 = {} /\ {} \in SUBSET (1..N) /\ 0 \in 0..N
    OBVIOUS
  <2> QED BY <1>9, <1>11, <2>1
<1>13. ASSUME NEW i \in 1..N PROVE f[i] = AddHisto(n, f[i - 1], hs[i])
  <2>1. 1..i \in SUBSET (1..N) /\ 1..i # {} /\ Max(1..i) = i /\ (1..i) \ {i} = 1..(i - 1)
    BY MaxUpTo
  <2>2. z[1..i] = AddHisto(n, z[1..(i - 1)], hs[i])
    <3>1. z[1..i] = AddHisto(n, z[(1..i) \ {Max(1..i)}], hs[Max(1..i)])
      BY <1>9, <2>1, Zenon
    <3> QED BY <2>1, <3>1, Zenon
  <2>3. i \in 0..N /\ i - 1 \in 0..N
    OBVIOUS
  <2> QED BY <1>11, <2>2, <2>3
<1>14. PICK good : good = {i \in 0..N : f[i] \in S}
  OBVIOUS
<1>15. ASSUME NEW i \in 0..(N - 1), i \in good PROVE i + 1 \in good
  <2>1. PICK j \in 1..N : j = i + 1 /\ j - 1 = i /\ j \in 0..N
    OBVIOUS
  <2>2. f[j] = AddHisto(n, f[i], hs[j])
    BY <1>13, <2>1
  <2>3. f[i] \in SetAccs /\ hs[j] \in [1..L -> Int]
    BY <1>1, <1>2, <1>14, <1>15
  <2>4. f[j] \in S
    BY <1>1, <2>2, <2>3, AddHistoIs
  <2> QED BY <1>14, <2>1, <2>4
<1>16. 0..N \subseteq good
  <2>1. 0 \in good
    BY <1>2, <1>12, <1>14
  <2> QED BY <1>15, <2>1, UpTo
<1>17. f \in [0..N -> S] /\ LoopSet(hs, n) = f[N].histos
  BY <1>10, <1>11, <1>14, <1>16
<1>18. SetOf(f, hs, n, N)
  BY <1>1, <1>12, <1>13, <1>17 DEF SetOf
<1> QED BY <1>18

(* What is added to the first pack: the bins behind the last one of the    *)
(* histogram before.                                                       *)
Behind(hs, n, L, i, m) ==
  IF m = 1 /\ i > 1 THEN Total(SubSeq(hs[i - 1], NoOfPacks(L, n)*n + 1, L)) ELSE 0

SetGives(packs, hs, n, L, i, q) ==
  /\ packs \in Seq(Int) /\ Len(packs) = q
  /\ \A m \in 1..q : packs[m] = Pack(hs[i], m, n) + Behind(hs, n, L, i, m)

LEMMA LoopSetIs ==
  ASSUME NEW n \in Nat \ {0}, NEW N \in Nat, NEW L \in Nat \ {0}, NEW hs \in Histos(N, L),
         NEW q, q = NoOfPacks(L, n), NEW i \in 1..N, NEW packs, packs = LoopSet(hs, n)[i]
  PROVE  SetGives(packs, hs, n, L, i, q)
<1>1. PICK f : SetOf(f, hs, n, N)
  BY SetFolds
<1>2. \A j \in 1..N : hs[j] \in [1..L -> Int]
  BY DEF Histos
<1>3. PICK loops : loops = [j \in 1..N |-> Loop(hs[j], n, TRUE, f[j - 1].sum)]
  OBVIOUS
<1>4. ASSUME NEW j \in 1..N
      PROVE  /\ loops[j] = Loop(hs[j], n, TRUE, f[j - 1].sum)
             /\ f[j - 1].sum \in Int /\ f[j - 1].histos \in Seq(Seq(Int))
             /\ f[j].sum = loops[j].sum /\ f[j].histos = Append(f[j - 1].histos, loops[j].packs)
  <2>1. loops[j] = Loop(hs[j], n, TRUE, f[j - 1].sum)
    BY <1>3
  <2>2. j - 1 \in 0..N
    OBVIOUS
  <2>3. f[j - 1] \in SetAccs
    BY <1>1, <2>2 DEF SetOf
  <2>4. f[j] = AddHisto(n, f[j - 1], hs[j])
    BY <1>1 DEF SetOf
  <2>5. f[j] = [sum |-> loops[j].sum, histos |-> Append(f[j - 1].histos, loops[j].packs)]
    BY <2>1, <2>4 DEF AddHisto
  <2>6. f[j - 1].sum \in Int /\ f[j - 1].histos \in Seq(Seq(Int))
    BY <2>3 DEF SetAccs
  <2>7. f[j].sum = loops[j].sum /\ f[j].histos = Append(f[j - 1].histos, loops[j].packs)
    BY <2>5
  <2> QED BY <2>1, <2>6, <2>7
<1>5. ASSUME NEW j \in 1..N
      PROVE  /\ loops[j].sum \in Int /\ loops[j].packs \in Seq(Int) /\ q \in Nat /\ Len(loops[j].packs) = q
             /\ \A m \in 1..q : loops[j].packs[m] = Pack(hs[j], m, n) + Extra(hs[j], n, TRUE, f[j - 1].sum, m)
             /\ q # 0 => loops[j].sum = Total(SubSeq(hs[j], q*n + 1, L))
  <2>1. PICK h, s, loop, kept : h = hs[j] /\ s = f[j - 1].sum /\ loop = loops[j] /\ kept = TRUE
    OBVIOUS
  <2>2. h \in [1..L -> Int] /\ s \in Int /\ kept \in BOOLEAN /\ loop = Loop(h, n, kept, s)
    BY <1>2, <1>4, <2>1
  <2>3. LoopGives(loop, h, n, kept, s, q, L)
    BY <2>2, PacksOf, Zenon
  <2>4. LoopGives(loops[j], hs[j], n, TRUE, f[j - 1].sum, q, L)
    BY <2>1, <2>3, Zenon
  <2> QED BY <2>4, Zenon DEF LoopGives
<1>6. PICK good : good = {j \in 0..N : /\ Len(f[j].histos) = j
                                       /\ \A a \in 1..j : f[j].histos[a] = loops[a].packs}
  OBVIOUS
<1>7. 0 \in good
  <2>1. f[0].histos = <<>>
    BY <1>1 DEF SetOf, SetStart
  <2> QED BY <1>6, <2>1
<1>8. ASSUME NEW b \in 0..(N - 1), b \in good PROVE b + 1 \in good
  <2>1. PICK j \in 1..N : j = b + 1 /\ b = j - 1 /\ j \in 0..N
    OBVIOUS
  <2>2. PICK S : S = Seq(Int)
    OBVIOUS
  <2>3. PICK old, x : old = f[b].histos /\ x = loops[j].packs
    OBVIOUS
  <2>4. old \in Seq(S) /\ x \in S /\ f[j].histos = Append(old, x)
    BY <1>4, <1>5, <2>1, <2>2, <2>3
  <2>5. Len(old) = b /\ \A a \in 1..b : old[a] = loops[a].packs
    BY <1>6, <1>8, <2>3
  <2>6. PICK new : new = Append(old, x)
    OBVIOUS
  <2>7. Len(new) = j /\ new[j] = x /\ \A a \in 1..b : new[a] = old[a]
    BY <2>1, <2>4, <2>5, <2>6, AppendProperties
  <2>8. \A a \in 1..j : a = j \/ a \in 1..b
    BY <2>1
  <2>9. \A a \in 1..j : new[a] = loops[a].packs
    BY <2>3, <2>5, <2>7, <2>8
  <2> QED BY <1>6, <2>1, <2>4, <2>6, <2>7, <2>9
<1>9. packs = loops[i].packs
  <2>1. 0..N \subseteq good
    BY <1>7, <1>8, UpTo
  <2>2. N \in good
    BY <2>1
  <2> QED BY <1>1, <1>6, <2>2 DEF SetOf
<1>10. ASSUME NEW m \in 1..q PROVE Extra(hs[i], n, TRUE, f[i - 1].sum, m) = Behind(hs, n, L, i, m)
  <2>1. CASE m # 1
    BY <2>1 DEF Extra, Behind
  <2>2. CASE m = 1 /\ i = 1
    <3>1. f[0].sum = 0
      BY <1>1 DEF SetOf, SetStart
    <3> QED BY <2>2, <3>1 DEF Extra, Behind
  <2>3. CASE m = 1 /\ i > 1
    <3>1. PICK j \in 1..N : j = i - 1
      BY <2>3
    <3>2. q # 0
      BY <1>5
    <3>3. f[j].sum = Total(SubSeq(hs[j], q*n + 1, L))
      BY <1>4, <1>5, <3>2
    <3> QED BY <2>3, <3>1, <3>3 DEF Extra, Behind
  <2>4. i = 1 \/ i > 1
    OBVIOUS
  <2> QED BY <2>1, <2>2, <2>3, <2>4
<1> QED BY <1>5, <1>9, <1>10 DEF SetGives

LEMMA FilledIs ==
  ASSUME NEW s \in Seq(Int), NEW l \in Int, NEW m \in 1..Len(s)
  PROVE  Filled(s, l)[m] = s[m]
<1>1. PICK d \in Int : d = l - Len(s)
  <2>1. PICK c \in Nat : c = Len(s)
    OBVIOUS
  <2>2. l - c \in Int
    OBVIOUS
  <2> QED BY <2>1, <2>2
<1>2. PICK zeros : zeros = [i \in 1..d |-> 0]
  OBVIOUS
<1>3. zeros \in Seq(Int)
  <2>1. CASE d >= 0
    BY <1>2, <2>1
  <2>2. CASE d < 0
    <3>1. 1..d = 1..0
      BY <2>2
    <3>2. zeros \in [1..0 -> Int]
      BY <1>2, <3>1
    <3> QED BY <3>2
  <2> QED BY <2>1, <2>2
<1>4. Filled(s, l) = s \o zeros
  BY <1>1, <1>2 DEF Filled
<1> QED BY <1>3, <1>4, ConcatProperties

(* What PackedInPlace says of one pack.                                    *)
PackGives(pack, f, hs, n, L, i, m) ==
  pack = Pack(hs[i], m, n) +
           CASE f = "wkm"   -> (IF m = 1 THEN 0 ELSE -hs[i][(m - 1)*n + 1])
             [] f = "ascii" -> (IF m = 1 THEN hs[i][1] ELSE 0)
             [] OTHER       -> Behind(hs, n, L, i, m)

LEMMA PackedIs ==
  ASSUME NEW n \in Nat \ {0}, NEW N \in Nat, NEW L \in Nat \ {0}, NEW hs \in Histos(N, L),
         NEW f \in OutFormats, n # 1 \/ f = "mud", NEW i \in 1..N, NEW m \in 1..NoOfPacks(L, n)
  PROVE  PackGives(Packed(f, hs, n)[i][m], f, hs, n, L, i, m)
<1>1. PICK q : q = NoOfPacks(L, n)
  OBVIOUS
<1>2. DOMAIN hs = 1..N /\ 1 \in 1..N /\ \A j \in 1..N : hs[j] \in [1..L -> Int] /\ Len(hs[j]) = L
  <2>1. ASSUME NEW j \in 1..N PROVE hs[j] \in [1..L -> Int] /\ Len(hs[j]) = L
    <3>1. hs[j] \in [1..L -> Int]
      BY DEF Histos
    <3> QED BY <3>1
  <2> QED BY <2>1 DEF Histos
<1>3. CASE f = "wkm"
  <2>1. PICK h, loop, x, kept : h = hs[i] /\ x = 0 /\ kept = FALSE /\ loop = Loop(h, n, kept, x)
    OBVIOUS
  <2>2. h \in [1..L -> Int] /\ x \in Int /\ kept \in BOOLEAN
    <3>1. h \in [1..L -> Int]
      BY <1>2, <2>1
    <3>2. x \in Int
      BY <2>1
    <3>3. kept \in BOOLEAN
      BY <2>1
    <3> QED BY <3>1, <3>2, <3>3
  <2>3. loop.packs[m] = Pack(h, m, n) + Extra(h, n, FALSE, 0, m)
    <3>1. LoopGives(loop, h, n, kept, x, q, L)
      BY <1>1, <2>1, <2>2, PacksOf, Zenon
    <3>2. loop.packs[m] = Pack(h, m, n) + Extra(h, n, kept, x, m)
      BY <1>1, <3>1, Zenon DEF LoopGives
    <3> QED BY <2>1, <3>2, Zenon
  <2>4. Packed(f, hs, n)[i] = loop.packs
    BY <1>2, <1>3, <2>1 DEF Packed, WriteWkm
  <2>5. Extra(h, n, FALSE, 0, m) = IF m = 1 THEN 0 ELSE -h[(m - 1)*n + 1]
    BY DEF Extra
  <2> QED BY <1>3, <2>1, <2>3, <2>4, <2>5 DEF PackGives
<1>4. CASE f = "ascii"
  <2>1. PICK h, x, loop, kept : h = hs[i] /\ x = h[1] /\ kept = TRUE /\ loop = Loop(h, n, kept, x)
    OBVIOUS
  <2>2. h \in [1..L -> Int] /\ x \in Int /\ kept \in BOOLEAN
    BY <1>2, <2>1
  <2>3. loop.packs[m] = Pack(h, m, n) + Extra(h, n, TRUE, x, m)
    <3>1. LoopGives(loop, h, n, kept, x, q, L)
      BY <1>1, <2>1, <2>2, PacksOf, Zenon
    <3>2. loop.packs[m] = Pack(h, m, n) + Extra(h, n, kept, x, m)
      BY <1>1, <3>1, Zenon DEF LoopGives
    <3> QED BY <2>1, <3>2, Zenon
  <2>4. Packed(f, hs, n)[i] = loop.packs
    BY <1>2, <1>4, <2>1 DEF Packed, WriteAscii
  <2>5. Extra(h, n, TRUE, x, m) = IF m = 1 THEN x ELSE 0
    BY DEF Extra
  <2> QED BY <1>4, <2>1, <2>3, <2>4, <2>5 DEF PackGives
<1>5. CASE f \in {"musrroot", "root", "nexus1-hdf5", "psi-bin", "mud"}
  <2>1. PICK packs : packs = LoopSet(hs, n)[i]
    OBVIOUS
  <2>2. /\ packs \in Seq(Int) /\ Len(packs) = q
        /\ packs[m] = Pack(hs[i], m, n) + Behind(hs, n, L, i, m)
    <3>1. SetGives(packs, hs, n, L, i, q)
      BY <1>1, <2>1, LoopSetIs, Zenon
    <3> QED BY <1>1, <3>1, Zenon DEF SetGives
  <2>3. PICK l \in Int : l = L \div n + 1
    OBVIOUS
  <2>4. Filled(packs, l)[m] = packs[m]
    BY <1>1, <2>2, FilledIs
  <2>5. Packed(f, hs, n)[i] = packs \/ Packed(f, hs, n)[i] = Filled(packs, l)
    <3>1. CASE f \in {"nexus1-hdf5", "psi-bin"}
      BY <2>1, <3>1 DEF Packed, WriteNexus, WritePsiBin
    <3>2. CASE f \in {"musrroot", "root"}
      <4>1. Packed(f, hs, n) = Th1f(LoopSet(hs, n), hs, n)
        BY <3>2 DEF Packed, WriteMusrRoot, WriteRoot
      <4>2. Th1f(LoopSet(hs, n), hs, n)[i] = Filled(packs, l)
        BY <1>2, <2>1, <2>3 DEF Th1f
      <4> QED BY <4>1, <4>2
    <3>3. CASE f = "mud"
      <4>1. Packed(f, hs, n) = WriteMud(hs, n)
        BY <3>3 DEF Packed
      <4>2. WriteMud(hs, n)[i] = Filled(packs, l)
        BY <1>2, <2>1, <2>3 DEF WriteMud
      <4> QED BY <4>1, <4>2
    <3> QED BY <1>5, <3>1, <3>2, <3>3
  <2>6. Packed(f, hs, n)[i][m] = packs[m]
    BY <2>4, <2>5
  <2> QED BY <1>5, <2>2, <2>6 DEF PackGives
<1> QED BY <1>3, <1>4, <1>5 DEF OutFormats

-----------------------------------------------------------------------------
(* Every bin is in its pack.                                               *)

(* The packs of the histograms of one run.                                 *)
LEMMA RunInPlace ==
  ASSUME request.rebin \in Nat \ {0}, request.outFormat \in OutFormats, NEW hs, OfOneLength(hs)
  PROVE  InPlace(hs, Packed(request.outFormat, hs, request.rebin))
<1> DEFINE n == request.rebin
           f == request.outFormat
           packed == Packed(f, hs, n)
<1>1. n \in Nat \ {0} /\ f \in OutFormats
  OBVIOUS
<1>2. packed = Packed(f, hs, n)
  OBVIOUS
<1> HIDE DEF n, f, packed
<1>4. PICK N \in Nat : N = Len(hs) /\ DOMAIN hs = 1..N
  BY DEF OfOneLength
<1>5. ASSUME n # 1 \/ f = "mud", NEW i \in DOMAIN hs, NEW m \in 1..NoOfPacks(Len(hs[i]), n)
      PROVE  packed[i][m] = Pack(hs[i], m, n) +
               CASE f = "wkm"   -> (IF m = 1 THEN 0 ELSE -hs[i][(m - 1) * n + 1])
                 [] f = "ascii" -> (IF m = 1 THEN hs[i][1] ELSE 0)
                 [] OTHER       -> (IF m = 1 /\ i > 1
                                    THEN Total(SubSeq(hs[i - 1], NoOfPacks(Len(hs[i - 1]), n) * n + 1,
                                                      Len(hs[i - 1]))) ELSE 0)
  <2>1. hs \in Seq(Seq(Int)) /\ hs[i] \in Seq(Int) /\ Len(hs[i]) # 0
    BY DEF OfOneLength
  <2>2. PICK L \in Nat \ {0} : L = Len(hs[i])
    BY <2>1
  <2>3. ASSUME NEW j \in 1..N PROVE hs[j] \in Seq(Int) /\ Len(hs[j]) = L
    <3>1. j \in DOMAIN hs
      BY <1>4
    <3>2. hs[j] \in Seq(Int)
      BY <2>1, <3>1
    <3>3. Len(hs[i]) = Len(hs[j])
      BY <3>1, Zenon DEF OfOneLength
    <3> QED BY <2>2, <3>2, <3>3
  <2>4. \A j \in 1..N : hs[j] \in [1..L -> Int]
    BY <2>3
  <2>5. hs \in Histos(N, L)
    <3>1. hs = [j \in 1..N |-> hs[j]]
      BY <1>4, <2>1
    <3> QED BY <2>4, <3>1 DEF Histos
  <2>6. i \in 1..N /\ m \in 1..NoOfPacks(L, n)
    BY <1>4, <2>2
  <2>7. PackGives(packed[i][m], f, hs, n, L, i, m)
    <3>1. i \in 1..N
      BY <2>6
    <3>2. m \in 1..NoOfPacks(L, n)
      BY <2>6
    <3>3. PackGives(Packed(f, hs, n)[i][m], f, hs, n, L, i, m)
      BY <1>1, <1>5, <2>5, <3>1, <3>2, PackedIs, Zenon
    <3> QED BY <1>2, <3>3, Zenon
  <2>8. Behind(hs, n, L, i, m) =
          IF m = 1 /\ i > 1
          THEN Total(SubSeq(hs[i - 1], NoOfPacks(Len(hs[i - 1]), n) * n + 1, Len(hs[i - 1]))) ELSE 0
    <3>1. CASE m = 1 /\ i > 1
      <4>1. i - 1 \in 1..N
        BY <2>6, <3>1
      <4>2. Len(hs[i - 1]) = L
        BY <2>3, <4>1
      <4> QED BY <3>1, <4>2 DEF Behind
    <3>2. CASE ~(m = 1 /\ i > 1)
      BY <3>2 DEF Behind
    <3> QED BY <3>1, <3>2
  <2> QED BY <2>7, <2>8, Zenon DEF PackGives
<1> QED BY <1>5, Zenon DEF InPlace, n, f, packed

(* The files that were there are files of a disk.                          *)
LEMMA GivenOnes == Spec => [](given \in Disks)
<1>1. Init => given \in Disks
  BY DEF Init
<1>2. given \in Disks /\ [Next]_vars => (given \in Disks)'
  BY DEF Next, vars, Fit, Ask, Convert, Compress, Finish, Terminated
<1> QED BY <1>1, <1>2, PTL DEF Spec

(* Whatever number of runs any2many packs, into files of their own, however *)
(* many bins there are to a pack and whatever the format: every bin of      *)
(* every histogram is where PackedInPlace says, unless a file that any2many *)
(* makes has a name under which it looks for a run.                         *)
THEOREM PacksInPlace == Spec => [](InputsApart => PackedInPlace)
<1>1. ASSUME given \in Disks, KeptInv, DeliverInv, InputsApart PROVE PackedInPlace
  <2>1. SUFFICES ASSUME pc = "done", unnoticed = {}, ~request.stdout, ~request.compress,
                        NEW j \in DOMAIN outPathFileName
                 PROVE  InPlace(Source(j), disk[outPathFileName[j]].histos)
    BY DEF PackedInPlace, Results
  <2>2. Asking /\ Delivered
    BY <1>1, <2>1 DEF DeliverInv, Underway
  <2>3. InFiles /\ Found
    BY <2>1, <2>2 DEF Delivered, ToStdout
  <2>4. PICK n \in Nat : k = n + 1 /\ k - 1 = n /\ n <= Len(request.jobs)
    BY <2>2, RequestIs DEF Asking
  <2>5. j \in 1..n
    <3>1. outPathFileName \in Seq(ToSet(outPathFileName))
      BY <1>1 DEF KeptInv, NamesAreNew
    <3>2. Len(outPathFileName) = n
      BY <2>3, <2>4 DEF InFiles
    <3> QED BY <3>1, <3>2
  <2>6. disk[outPathFileName[j]] = Wanted[j]
    BY <2>3, <2>4, <2>5 DEF InFiles
  <2>7. FoundIn(given, request.jobs[j]) \in DOMAIN given
    BY <2>3, <2>4, <2>5 DEF Found
  <2>8. OfOneLength(Source(j))
    BY <1>1, <2>7, PacksAssumption DEF Source
  <2>9. request.rebin \in Nat \ {0} /\ request.outFormat \in OutFormats
    BY <2>2, PacksAssumption DEF Asking
  <2>10. j \in DOMAIN request.jobs
    <3>1. request.jobs \in Seq(ToSet(request.jobs))
      BY <2>2, Any2ManyAssumption DEF Asking
    <3> QED BY <2>4, <2>5, <3>1, RequestIs, <2>2 DEF Asking
  <2>11. disk[outPathFileName[j]].histos = Packed(request.outFormat, Source(j), request.rebin)
    BY <2>6, <2>10 DEF Wanted, Converted
  <2> QED BY <2>8, <2>9, <2>11, RunInPlace
<1>2. KeptInv /\ DeliverInv /\ [Next]_vars => KeptInv' /\ DeliverInv'
  BY NextKept, NextDelivers
<1> QED BY <1>1, <1>2, InitKept, InitDelivers, GivenOnes, PTL DEF Spec
=============================================================================
