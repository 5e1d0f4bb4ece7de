----------------------------- MODULE Any2Many ------------------------------
(* any2many: PRunDataHandler reads one data file after the other and       *)
(* writes each of them in another format, into a file of its own or to the *)
(* standard output.  At the end the files may be put into an archive.      *)
(* The specification is of one user of data files at a time: a fit, as in  *)
(* DataHandler, or any2many.                                               *)
EXTENDS DataHandler, Packing

CONSTANTS PlainPath,    \* the directories any2many searches, in order
          Requests      \* the command lines

(* Without a file to convert it says how it is used.                       *)
ASSUME Any2ManyAssumption ==
  /\ PlainPath \in Seq(ToSet(PlainPath))
  /\ \A r \in Requests : r.jobs # <<>> /\ r.jobs \in Seq(ToSet(r.jobs))

(* The histograms of a run have bins, all the same number; a pack is one of *)
(* bins, and a format that of a writer.                                    *)
OfOneLength(hs) ==
  hs \in Seq(Seq(Int)) /\ \A i, j \in DOMAIN hs : Len(hs[i]) # 0 /\ Len(hs[i]) = Len(hs[j])
ASSUME PacksAssumption ==
  /\ \A files \in Disks : \A p \in DOMAIN files : OfOneLength(files[p].histos)
  /\ \A r \in Requests : r.rebin \in Nat \ {0} /\ r.outFormat \in OutFormats

VARIABLES given,        \* the data files when the program starts
          request,
          k,            \* the run to convert next
          outPathFileName,
          stdout,       \* what has been written to the standard output
          unnoticed     \* what has gone wrong and was not looked at

converter == <<k, outPathFileName, stdout, unnoticed>>
vars == <<disk, pc, reader, fData, fAllDataAvailable, given, request, converter>>

ToStdout == request.stdout /\ ~request.compress
Streamed == {"musrroot", "root", "mud"}      \* by way of a temporary file
Direct == {"wkm", "ascii"}                   \* with std::cout itself
UnlookedAt == {"musrroot", "root", "nexus1-hdf5"}  \* nobody asks whether they were written

-----------------------------------------------------------------------------
(* Names. *)

FoundIn(files, job) ==
  LET at_(d) == Path(PlainPath[d], job.name, job.ext, "as is")
      hits == {d \in DOMAIN PlainPath : at_(d) \in DOMAIN files}
  IN  IF hits = {} THEN None ELSE at_(CHOOSE d \in hits : \A e \in hits : d <= e)
FoundPlain(job) == FoundIn(disk, job)

WriterExt(format) ==
  CASE format \in {"musrroot", "root"} -> "root"
    [] format = "nexus1-hdf5" -> "nxs"
    [] format = "psi-bin"     -> "bin"
    [] format = "mud"         -> "msr"
    [] OTHER                  -> format

(* GetFileName: the name of the input with the extension of the writer. *)
GetFileName(job) ==
  LET name == IF request.inFormat = request.outFormat
              THEN job.name \o "_rebin" \o ToString(request.rebin) ELSE job.name
  IN  Path(request.outPath, name, WriterExt(request.outFormat), "as is")

WantedName(job) ==
  IF job.out = None THEN GetFileName(job)
  ELSE Path(request.outPath, job.out, WriterExt(request.outFormat), "as is")

Temporary == Path(request.outPath, "__tmp", WriterExt(request.outFormat), "as is")

(* A file that is there gets a number put into its name. *)
Numbered(path, n) == [path EXCEPT !.no = n]
GenerateTakenFileName(job) == WantedName(job)   \* mutant
GenerateOutputFileName(job) ==
  LET wanted == WantedName(job)
      free == {n \in 0..Cardinality(DOMAIN disk) : Numbered(wanted, n) \notin DOMAIN disk}
  IN  IF ToStdout THEN Temporary
      ELSE Numbered(wanted, CHOOSE n \in free : \A l \in free : n <= l)

(* The files when some are gone and others made. *)
Changed(gone, made) ==
  [p \in (DOMAIN disk \ gone) \cup DOMAIN made |-> IF p \in DOMAIN made THEN made[p] ELSE disk[p]]
Without(paths) == Changed(paths, <<>>)
Put(path, file) == Changed({}, [p \in {path} |-> file])

-----------------------------------------------------------------------------
(* ReadWriteFilesList: the next run. *)

ReadInput(file) ==
  CASE request.inFormat \in {"root", "musrroot"}   -> ReadRootFile(file)
    [] request.inFormat \in {"psi-bin", "psi-mdu"} -> ReadPsiBinFile(file)
    [] request.inFormat = "nexus"                  -> ReadNexusFile(file)
    [] request.inFormat = "mud"                    -> ReadMudFile(file)
    [] request.inFormat = "wkm"                    -> ReadWkmFile(file)

Converted(histos) ==
  [state |-> "good", histos |-> Packed(request.outFormat, histos, request.rebin)]

Fail ==
  /\ pc' = "failed"
  /\ UNCHANGED <<disk, converter>>

(* A stream is read to its end in pieces as long as the file, and the      *)
(* buffer written after each: the end is only noticed by the second one.   *)
Stream(file) == <<file, file>>

KeptFirstName(path) ==   \* mutant
  IF ToStdout THEN outPathFileName ELSE IF outPathFileName = <<>> THEN <<path>> ELSE outPathFileName
KeptNames(path) == IF ToStdout THEN outPathFileName ELSE Append(outPathFileName, path)

Write(job, histos, trouble) ==
  LET file == Converted(histos)
      path == GenerateOutputFileName(job)
      stream == ToStdout /\ request.outFormat \in Streamed
  IN  IF ToStdout /\ request.outFormat \in Direct
      THEN /\ stdout' = Append(stdout, file) /\ k' = k + 1
           /\ unnoticed' = unnoticed \cup trouble
           /\ UNCHANGED <<disk, pc, outPathFileName>>
      ELSE \/ /\ stdout' = IF stream THEN stdout \o Stream(file) ELSE stdout
              /\ disk' = IF stream THEN Without({path}) ELSE Put(path, file)
              /\ outPathFileName' = KeptNames(path) /\ k' = k + 1
              /\ unnoticed' = unnoticed \cup trouble
              /\ UNCHANGED pc
           \/ (* it cannot be written *)
              IF stream \/ request.outFormat \notin UnlookedAt THEN Fail
              ELSE /\ outPathFileName' = KeptNames(path) /\ k' = k + 1
                   /\ unnoticed' = unnoticed \cup trouble \cup {"not written"}
                   /\ UNCHANGED <<disk, pc, stdout>>

Convert ==
  /\ pc = "convert" /\ k <= Len(request.jobs)
  /\ LET job == request.jobs[k]
         path == FoundPlain(job)
     IN  IF path = None THEN Fail
         ELSE IF ~ReadInput(disk[path]).ok THEN Fail
         ELSE IF ReadInput(disk[path]).kept = "none"
         THEN (* fData[0] of an empty vector: the end, or what is left of   *)
              (* the run before                                             *)
              \/ pc' = "crashed" /\ UNCHANGED <<disk, converter>>
              \/ k > 1 /\ Write(job, disk[FoundPlain(request.jobs[k - 1])].histos, {"nothing read"})
         ELSE Write(job, disk[path].histos, {})
  /\ UNCHANGED <<reader, fData, fAllDataAvailable, given, request>>

-----------------------------------------------------------------------------
(* The archive: tar, and gzip or bzip2.  That they have failed is not seen *)
(* in what system() returns.  Several files are put into a tar-file first, *)
(* which is left behind if it is not compressed: gzip and bzip2 ask before *)
(* they replace an older archive.                                          *)

Archive == Path(request.outPath, request.archive, "tar.gz", "as is")
Tar == Path(request.outPath, request.archive, "tar", "as is")
TarFirst == IF Len(outPathFileName) = 1 THEN {} ELSE {Tar}
Members == {j \in DOMAIN outPathFileName : outPathFileName[j] \in DOMAIN disk}
Packet == [state |-> "archive", members |-> [j \in Members |-> disk[outPathFileName[j]]]]
TarLeft == [p \in TarFirst |-> Packet]

AllConverted == ToSet(outPathFileName)

Compress ==
  /\ pc = "convert" /\ k > Len(request.jobs) /\ request.compress
  /\ \/ /\ IF request.stdout
            THEN stdout' = stdout \o Stream(Packet) /\ disk' = Without(AllConverted \cup TarFirst \cup {Archive})
            ELSE disk' = Changed(AllConverted \cup TarFirst, [p \in {Archive} |-> Packet]) /\ UNCHANGED stdout
        /\ pc' = "done"
        /\ UNCHANGED <<k, outPathFileName, unnoticed>>
     \/ \E left \in {<<>>, TarLeft} :   \* there is no new archive then
          IF request.stdout /\ Archive \notin DOMAIN disk
          THEN /\ pc' = "failed" /\ disk' = Changed({}, left)
               /\ UNCHANGED converter
          ELSE /\ IF request.stdout
                  THEN /\ stdout' = stdout \o Stream(disk[Archive])
                       /\ disk' = Changed(AllConverted \cup {Archive}, left)
                  ELSE disk' = Changed(AllConverted, left) /\ UNCHANGED stdout
               /\ pc' = "done"
               /\ unnoticed' = unnoticed \cup {"no archive"}
               /\ UNCHANGED <<k, outPathFileName>>
  /\ UNCHANGED <<reader, fData, given, request>>
  /\ fAllDataAvailable' = (pc' = "done")

Finish ==
  /\ pc = "convert" /\ k > Len(request.jobs) /\ ~request.compress
  /\ pc' = "done" /\ fAllDataAvailable' = TRUE
  /\ UNCHANGED <<disk, reader, fData, given, request, converter>>

(* main: the same format is for packing only. *)
Ask ==
  /\ pc = "ask"
  /\ pc' = IF request.inFormat = request.outFormat /\ request.rebin = 1 THEN "ignored" ELSE "convert"
  /\ UNCHANGED <<disk, reader, fData, fAllDataAvailable, given, request, converter>>

-----------------------------------------------------------------------------
NoRequest == [jobs |-> <<>>]

Init ==
  /\ disk \in Disks /\ given = disk
  /\ InitReader
  /\ k = 1 /\ outPathFileName = <<>> /\ stdout = <<>> /\ unnoticed = {}
  /\ \/ pc = "read" /\ blocks \in Lists /\ request = NoRequest
     \/ pc = "ask" /\ blocks = <<>> /\ request \in Requests

Terminated ==
  /\ \/ pc \in {"refused", "crashed", "failed", "done", "ignored"}
     \/ pc = "fit" /\ session = MaxSessions
  /\ UNCHANGED vars

Fit == NextReader /\ UNCHANGED <<given, request, converter>>

Next == Fit \/ Ask \/ Convert \/ Compress \/ Finish \/ Terminated

Spec == Init /\ [][Next]_vars

-----------------------------------------------------------------------------
(* Properties. *)

(* A fit uses whole files.  All that is kept of a file with an error in it *)
(* may only come to a fit when a file read later is fine - the flag is     *)
(* that of the last file -, or when the error is too few bins in an        *)
(* mdu-ascii file; and only with formats that keep what they have read.    *)
FitUsesWholeFiles ==
  pc = "fit" => \A i \in DOMAIN fData : fData[i].kept = "part" =>
    \/ fData[i].format = "mdu-ascii" /\ disk[fData[i].path].state = "odd"
    \/ fData[i].format \in {"mdu-ascii", "ascii", "db"} /\ i < Len(fData)

(* The numbers of the histograms of a LEM run are moved to those that are, *)
(* or are not, corrected for pile up by the first session only: the next   *)
(* one, which reads the msr-file that the fit has written, leaves formats  *)
(* and numbers alone.  (Not so for a block that has runs of both kinds,    *)
(* one of them older than 2012: they move the numbers to and fro.)         *)
ReadsSameAgain == [][session > 1 => blocks' = blocks]_vars

(* any2many leaves the files alone which were there before, whatever it    *)
(* is asked for and wherever it ends: the files it reads, an older file    *)
(* with the name it wants, and what else is in the directory.  It does not *)
(* look for an older archive of the name asked for, for its tar-file or    *)
(* for a file with the name of the temporary one.                          *)
NotLookedFor ==
  IF request = NoRequest THEN {}
  ELSE (IF request.compress THEN {Archive, Tar} ELSE {})
         \cup (IF ToStdout /\ request.outFormat \notin Direct THEN {Temporary} ELSE {})
FilesBeforeKept ==
  \A p \in DOMAIN given \ NotLookedFor : p \in DOMAIN disk /\ disk[p] = given[p]

(* What any2many has been asked for, run by run, and what is new. *)
Source(j) == given[FoundIn(given, request.jobs[j])].histos
Wanted == [j \in DOMAIN request.jobs |-> Converted(Source(j))]
Beside == [p \in {q \in DOMAIN disk : q \in DOMAIN given => disk[q] # given[q]} |-> disk[p]]

(* Where its results are then. *)
AsAskedFor ==
  LET archive == [state |-> "archive", members |-> Wanted]
      twice == [i \in 1..2*Len(Wanted) |-> Wanted[(i + 1) \div 2]]
  IN  IF request.compress
      THEN IF request.stdout THEN stdout = <<archive, archive>> /\ Beside = <<>>
           ELSE stdout = <<>> /\ Beside = [p \in {Archive} |-> archive]
      ELSE IF ~request.stdout
      THEN /\ stdout = <<>> /\ Cardinality(DOMAIN Beside) = Len(Wanted)
           /\ [j \in DOMAIN outPathFileName |-> Beside[outPathFileName[j]]] = Wanted
      ELSE IF request.outFormat \in Direct THEN stdout = Wanted /\ Beside = <<>>
      ELSE IF request.outFormat \in Streamed THEN stdout = twice /\ Beside = <<>>
      ELSE stdout = <<>> /\ {Beside[p] : p \in DOMAIN Beside} = {Last(Wanted)}

(* When any2many ends well and nothing went wrong that it does not look    *)
(* at, every run is where it was asked for and nothing else is left: in a  *)
(* file of its own, in the archive, or on the standard output.  (What goes *)
(* by way of a file is on the standard output twice; psi-bin and NeXus     *)
(* files do not get there, the last one stays behind.)                     *)
EveryRunDelivered == pc = "done" /\ unnoticed = {} => AsAskedFor

(* The runs that have been converted with the packs asked for, and what    *)
(* has become of them. *)
Results ==
  IF pc = "done" /\ unnoticed = {} /\ ~request.stdout /\ ~request.compress
  THEN {<<Source(j), disk[outPathFileName[j]].histos>> : j \in DOMAIN outPathFileName} ELSE {}

(* Packing puts every bin in its place: pack m of a histogram is the sum   *)
(* of its n bins, for all packs but the last, which is not given away, and *)
(* the first, to which the last one of the histogram before is added; in   *)
(* ASCII files the first bin counts twice, in WKM files the bin that       *)
(* closes a pack is in none.  The loop of the mud files is there for packs *)
(* of one bin, too.                                                        *)
InPlace(hs, packed) ==
  LET n == request.rebin
      f == request.outFormat
      behind(h) == Total(SubSeq(h, NoOfPacks(Len(h), n) * n + 1, Len(h)))
  IN  n # 1 \/ f = "mud" => \A i \in DOMAIN hs : \A m \in 1..NoOfPacks(Len(hs[i]), n) :
        packed[i][m] = Pack(hs[i], m, n) +
          CASE f = "wkm"   -> (IF m = 1 THEN 0 ELSE -hs[i][(m - 1) * n + 1])
            [] f = "ascii" -> (IF m = 1 THEN hs[i][1] ELSE 0)
            [] OTHER       -> (IF m = 1 /\ i > 1 THEN behind(hs[i - 1]) ELSE 0)
PackedInPlace == \A r \in Results : InPlace(r[1], r[2])
=============================================================================
