---------------------------- MODULE DataHandler ----------------------------
(* PRunDataHandler as a fit uses it: it looks for the data files of the    *)
(* runs of a msr-file along the search path, reads each of them once and   *)
(* tells whether all data are available.  The runs then take their         *)
(* histograms from it.  The msr-file, which it has changed on the way, is  *)
(* written and read again by the next session.                             *)
EXTENDS Integers, Sequences, FiniteSets, SequencesExt

CONSTANTS None,
          Disks,        \* the data files there may be: path -> file
          Lists,        \* the RUN blocks of the msr-files
          SearchPath,   \* the directories in the order they are searched
          Spellings,    \* the ways TestFileName spells name and extension, in its order
          LemYear(_),   \* name -> year of a LEM run, None of others
          MaxSessions   \* bound: sessions with one msr-file

Offset == 20            \* PRH_PPC_OFFSET

(* A directory has finitely many files; a RUN block has at least its run.  *)
Formats == {"root-npp", "root-ppc", "musr-root", "nexus", "psi-bin", "psi-mdu", "mud", "wkm",
            "mdu-ascii", "ascii", "db", "dat", "unknown"}
RunNames == [name : STRING, format : Formats]
RunBlocks == [runs : Seq(RunNames) \ {<<>>}, histos : Seq(Int)]
ASSUME DataHandlerAssumption ==
  /\ \A d \in Disks : IsFiniteSet(DOMAIN d)
  /\ Lists \subseteq Seq(RunBlocks)

VARIABLES disk,
          pc,
          session,
          blocks,       \* the RUN blocks: their runs (a run and its ADDRUNs) and histograms
          at,           \* <<i, j>> of the two loops of ReadFilesMsr
          year,
          success,
          fData,        \* the data that have been read
          fAllDataAvailable

reader == <<session, blocks, at, year, success>>

Path(dir, name, ext, spelled) ==
  [dir |-> dir, name |-> name, ext |-> ext, spelled |-> spelled, no |-> 0]

-----------------------------------------------------------------------------
(* Files. *)

Extension(format) ==
  CASE format \in {"root-npp", "root-ppc", "musr-root"} -> "root"
    [] format = "nexus"     -> "NXS"
    [] format = "psi-bin"   -> "bin"
    [] format = "psi-mdu"   -> "mdu"
    [] format = "mud"       -> "msr"
    [] format = "wkm"       -> "nemu"
    [] format = "mdu-ascii" -> "mdua"
    [] format = "ascii"     -> "dat"
    [] format = "db"        -> "db"
    [] format = "dat"       -> "dat"
    [] OTHER                -> None

(* TestFileName: the first spelling of a name that is there. *)
TestFileName(dir, name, ext) ==
  LET hits == {s \in DOMAIN Spellings : Path(dir, name, ext, Spellings[s]) \in DOMAIN disk}
  IN  IF hits = {} THEN None
      ELSE Path(dir, name, ext, Spellings[CHOOSE s \in hits : \A t \in hits : s <= t])

FileExistsCheck(run) ==
  LET found(d) == TestFileName(SearchPath[d], run.name, Extension(run.format))
      hits == {d \in DOMAIN SearchPath : found(d) # None}
  IN  IF Extension(run.format) = None \/ hits = {} THEN None
      ELSE found(CHOOSE d \in hits : \A e \in hits : d <= e)

(* What reading a file gives: the return value, how much of the file is    *)
(* kept, and the numbers under which its histograms are found.  A file is  *)
(* good, or something that has to be there is missing or not a number      *)
(* (broken), or it is odd in a way which its reader lets pass or finds too *)
(* late.                                                                   *)
Result(ok, kept, nos) == [ok |-> ok, kept |-> kept, nos |-> nos]
Failed == Result(FALSE, "none", {})
Numbers(file) == DOMAIN file.histos

(* Odd is a LEM file of 2006 or before: without histograms corrected for   *)
(* pile up. *)
ReadRootFile(file) ==
  CASE file.state = "good" ->
         Result(TRUE, "whole", Numbers(file) \cup {n + Offset : n \in Numbers(file)})
    [] file.state = "odd"  -> Result(TRUE, "whole", Numbers(file))
    [] OTHER               -> Failed

(* Odd is a version of the format that is neither 1 nor 2: nothing is      *)
(* kept, and nothing said. *)
ReadNexusFile(file) ==
  CASE file.state = "good" -> Result(TRUE, "whole", Numbers(file))
    [] file.state = "odd"  -> Result(TRUE, "none", {})
    [] OTHER               -> Failed

ReadWkmFile(file) ==
  IF file.state = "good" THEN Result(TRUE, "whole", Numbers(file)) ELSE Failed
ReadPsiBinFile(file) ==
  IF file.state = "good" THEN Result(TRUE, "whole", Numbers(file)) ELSE Failed
ReadMudFile(file) ==
  IF file.state = "good" THEN Result(TRUE, "whole", Numbers(file)) ELSE Failed

(* What has been read in front of the error is kept all the same.  Odd is  *)
(* a file with fewer bins than its header says, which is a warning only.   *)
(* The histograms are counted from zero.                                   *)
ReadMduAsciiFile(file) ==
  LET nos == {n - 1 : n \in Numbers(file)}
  IN  CASE file.state = "good" -> Result(TRUE, "whole", nos)
        [] file.state = "odd"  -> Result(TRUE, "part", nos)
        [] OTHER               -> Result(FALSE, "part", nos)

ReadAsciiFile(file) ==
  IF file.state = "good" THEN Result(TRUE, "whole", Numbers(file))
  ELSE Result(FALSE, "part", Numbers(file))

ReadDBFileUnchecked(file) ==   \* mutant
  IF file.state = "broken" THEN Failed
  ELSE Result(TRUE, IF file.state = "odd" THEN "part" ELSE "whole", Numbers(file))

(* Odd are columns of different length: found when all of it is read. *)
ReadDBFile(file) ==
  CASE file.state = "good" -> Result(TRUE, "whole", Numbers(file))
    [] file.state = "odd"  -> Result(FALSE, "part", Numbers(file))
    [] OTHER               -> Failed

ReadDatFile(file) ==
  IF file.state = "good" THEN Result(TRUE, "whole", Numbers(file)) ELSE Failed

Read(format, file) ==
  CASE format \in {"root-npp", "root-ppc", "musr-root"} -> ReadRootFile(file)
    [] format = "nexus"                -> ReadNexusFile(file)
    [] format \in {"psi-bin", "psi-mdu"} -> ReadPsiBinFile(file)
    [] format = "mud"                  -> ReadMudFile(file)
    [] format = "wkm"                  -> ReadWkmFile(file)
    [] format = "mdu-ascii"            -> ReadMduAsciiFile(file)
    [] format = "ascii"                -> ReadAsciiFile(file)
    [] format = "db"                   -> ReadDBFile(file)
    [] format = "dat"                  -> ReadDatFile(file)

Kept(name, path, format, result) ==
  IF result.kept = "none" THEN <<>>
  ELSE <<[name |-> name, path |-> path, format |-> format,
          kept |-> result.kept, nos |-> result.nos]>>

FileAlreadyRead(name) == \E k \in DOMAIN fData : fData[k].name = name

GetRunData(name) ==
  IF ~FileAlreadyRead(name) THEN None
  ELSE fData[CHOOSE k \in DOMAIN fData :
               fData[k].name = name /\ \A l \in 1..(k - 1) : fData[l].name # name]

-----------------------------------------------------------------------------
(* ReadFilesMsr: the next run of the two loops. *)

YearOf(name) == IF LemYear(name) = None THEN year ELSE LemYear(name)

ShiftedAgain(format, n) ==   \* mutant
  CASE format = "root-npp" -> n
    [] format = "root-ppc" -> n + Offset
    [] OTHER -> n

(* The numbers of the histograms mean those which are, or which are not,   *)
(* corrected for pile up, as the format says.                              *)
Shifted(format, n) ==
  CASE format = "root-npp" /\ n > Offset -> n - Offset
    [] format = "root-ppc" /\ n < Offset -> n + Offset
    [] OTHER -> n

Renamed(format, y) ==
  IF format \in {"root-npp", "root-ppc"} /\ y >= 12 THEN "musr-root" ELSE format

After(b, j, y) ==
  LET format == b.runs[j].format
  IN  [b EXCEPT !.runs[j].format = Renamed(format, y),
                !.histos = [k \in DOMAIN @ |-> Shifted(format, @[k])]]

NextAt ==
  IF at[2] < Len(blocks[at[1]].runs) THEN <<at[1], at[2] + 1>> ELSE <<at[1] + 1, 1>>

ReadRun ==
  /\ pc = "read" /\ at[1] <= Len(blocks)
  /\ LET b == blocks[at[1]]
         run == b.runs[at[2]]
         path == FileExistsCheck(run)
         y == YearOf(run.name)
         changed == After(b, at[2], y)
         format == changed.runs[at[2]].format
     IN  IF path = None
         THEN /\ fAllDataAvailable' = FALSE /\ pc' = "prepare"
              /\ UNCHANGED <<reader, fData>>
         ELSE /\ year' = y
              /\ blocks' = [blocks EXCEPT ![at[1]] = changed]
              /\ at' = NextAt
              /\ IF FileAlreadyRead(run.name) THEN UNCHANGED <<success, fData>>
                 ELSE LET result == Read(format, disk[path])
                      IN  /\ success' = result.ok
                          /\ fData' = fData \o Kept(run.name, path, format, result)
              /\ UNCHANGED <<pc, session, fAllDataAvailable>>
  /\ UNCHANGED disk

ReadDone ==
  /\ pc = "read" /\ at[1] > Len(blocks)
  /\ fAllDataAvailable' = success
  /\ pc' = "prepare"
  /\ UNCHANGED <<disk, reader, fData>>

-----------------------------------------------------------------------------
(* The fit. *)

DataOf(b) == [j \in DOMAIN b.runs |-> GetRunData(b.runs[j].name)]
Has(data, b) == \A k \in DOMAIN b.histos : b.histos[k] \in data.nos

(* PrepareData of a run: that the histograms are there is only looked at   *)
(* for the run itself, not for its ADDRUNs.                                *)
Prepared(b) ==
  IF DataOf(b)[1] = None \/ ~Has(DataOf(b)[1], b) THEN "refused"
  ELSE IF \E j \in DOMAIN b.runs : DataOf(b)[j] = None THEN "refused"
  ELSE IF \E j \in DOMAIN b.runs : ~Has(DataOf(b)[j], b) THEN "crashed"
  ELSE "fit"

(* The runs are added one after the other, the first that is no good ends  *)
(* the session.                                                            *)
NotPrepared == {i \in DOMAIN blocks : Prepared(blocks[i]) # "fit"}

Prepare ==
  /\ pc = "prepare"
  /\ pc' = IF ~fAllDataAvailable THEN "refused"
           ELSE IF NotPrepared = {} THEN "fit"
           ELSE Prepared(blocks[CHOOSE i \in NotPrepared : \A j \in NotPrepared : i <= j])
  /\ UNCHANGED <<disk, reader, fData, fAllDataAvailable>>

(* The session after a fit reads the msr-file which the fit has written.   *)
NextSession ==
  /\ pc = "fit" /\ session < MaxSessions
  /\ session' = session + 1
  /\ pc' = "read" /\ at' = <<1, 1>> /\ year' = 0 /\ success' = TRUE
  /\ fData' = <<>> /\ fAllDataAvailable' = FALSE
  /\ UNCHANGED <<disk, blocks>>

InitReader ==
  /\ session = 1
  /\ at = <<1, 1>> /\ year = 0 /\ success = TRUE
  /\ fData = <<>> /\ fAllDataAvailable = FALSE

NextReader == ReadRun \/ ReadDone \/ Prepare \/ NextSession
=============================================================================
