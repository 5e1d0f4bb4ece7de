# musrfit: models and proofs

TLA+ modules of musrfit, the muSR data analysis program of this repository, with
the TLC configurations that check them on small instances and theorems which
TLAPS proves for every instance. Paths are those of the repository.

## The system

musrfit is a family of programs around one file format. An *msr-file* holds the
parameters, the theory, the runs and the commands of a fit in text blocks.
`musrfit` reads it and the data files it names, fits, writes an *mlog-file* (the
msr-file with results in it) and swaps the two. Other programs (`musrview`,
`msr2data`, `musredit`, ...) read the files or start `musrfit`.

| part | state | operations | interacts with |
|---|---|---|---|
| `musrfit.cpp` (main) | the files, MINUIT2.OUTPUT, `__temp.msr`, the exit code | read, fit, log, swap, the watchdog thread | all the classes; every other process in its directory |
| `PFitter` | the command queue, `fMnUserParams`, `fFcnMin`, flags for valid, scan-only, converged | one per line of the COMMANDS block | Minuit2; parameters and statistics of `PMsrHandler`; ranges of `PRunListCollection` |
| `PRunListCollection` | the lists of run objects | sums of chi^2 and likelihood; fit range setters; getters | every `PRun...` object |
| `PRunSingleHisto`, `PRunAsymmetry`, ... | data, time and bin ranges of a run | prepare the data, chi^2 in an OpenMP loop, set the fit range | `PTheory`, `PFunctionHandler` |
| `PTheory` | the tree of the theory; the tables of the Kubo-Toyabe functions | `Func` | called by all threads of the loop |
| `PMsrHandler` | the blocks of the msr-file | read, write the msr- and the mlog-file, getters and setters | everybody |
| `PFunctionHandler` | the trees of the FUNCTIONS block | check, evaluate | the runs, every call of chi^2 |
| `PRunDataHandler` | the data sets | search and read (or write) data files | the runs, `any2many`, `addRun` |
| `PMsr2Data`, `msr2data` | run list, templates, db-file | generate msr-files, chains of fits, collect results | starts `musrfit` |
| `PMusrCanvas`, `PMusrT0`, `PFourier...` | plots and what the user toggles | keys, menus, mouse | `PRunListCollection`, the msr-file |
| `musredit`, `mupp`, `musrWiz`, `musrStep` | editor tabs, file watcher, child processes | Qt slots | the programs above |
| `src/external` | physics models, file format libraries | numerics, file formats | `PTheory`, `PRunDataHandler` |

What is hard in it, and what makes the parts correct:

* **Order of commands** (`PFitter`). Any sequence of commands is legal, any of
  them may fail, and they communicate by state: ranges, fixed parameters, the
  minimum, errors, sections of MINUIT2.OUTPUT. What is written must stem from
  one minimum, in the range asked for; a rejected block must run nothing.
* **Copies and crashes** (`main`). The swap consists of three copies and a
  deletion by way of a file with a fixed name. A watchdog may end the process
  anywhere, several processes may share a directory, a file may be read-only.
  The user's input must survive.
* **Reporting** (`main` and `PFitter`). Four flags (`fIsValid`, `fConverged`,
  `fIsScanOnly`, `fStatistic.fValid`) decide what is logged.
* **Unprotected caches** (`PTheory`). The tables of the LF functions are
  recalculated when the parameters change, by whichever thread notices.
* **Ranges** (the runs). A fit range is kept in time and in bins, and given in
  either.
* **Bins from four places** (the runs, `musrt0`). A t0 comes from the RUN block, the
  GLOBAL block, the header or the maximum of the data file; addruns and groups are
  added t0 on t0; what was found is written to the msr-file, as if the user had
  said so, and read again by the next fit. `musrt0` writes to the same lines.
* **Chains of programs** (`msr2data`). Each fit starts on what the one before has
  left, which may be a diverged, a rejected or a broken file, and results are
  appended to a file that outlives the session.
* **Spectra that are kept** (`PMusrCanvas`). Differences, transforms and averages
  are calculated when they are first shown and thrown away by some handlers; the
  keys and menu entries come in any order.
* **A watcher that is switched off** (`musredit`). The editor, the programs it
  starts and others write the same files. The watcher is off while musredit writes
  itself, a timer switches it on, and every dialog runs the event loop.
* **One flag for many files** (`PRunDataHandler`). Every reader sets the same flag,
  some keep what they have read in front of an error, and the histogram numbers of
  LEM runs are changed on the way in the msr-file itself.
* **Files that make way** (`any2many`). The converted files get their names from
  those of the input, may replace what is there, and are removed behind an archive
  or a stream; seven writers pack bins with seven copies of one loop.
* **Text as memory** (`PMsrHandler`). The msr-file is what one session tells the
  next. It is read by one set of rules and written by another, which goes through
  the old file once more; what is written must be read as it was meant, and what
  the user has written must stay.

The hazards are listed one by one in PROJECT.json, with the lines where they bite.

## The modules

| module | models | source |
|---|---|---|
| `Fitter` | `PFitter`: check and execution of a COMMANDS block | `src/src/classes/PFitter.cpp`, `PRunListCollection.cpp` |
| `FitSession` | `Fitter`, and what main reports of it | `src/src/musrfit.cpp` |
| `Musrfit` | processes, files, swap, watchdog, restart | `src/src/musrfit.cpp` |
| `FitFiles` | abstract: what the help text promises of the files | `src/src/musrfit.cpp:129` |
| `TheoryCache` | the cached theory functions in the parallel loop | `PTheory.cpp`, `PRunSingleHisto.cpp` |
| `ChiSquare` | abstract: a call of `CalcChiSquare` | `PRunSingleHisto.cpp` |
| `MsrFile` | the msr-file through reader and writer, session after session | `PMsrHandler.cpp` |
| `RunBlock` | the lines of a RUN and a GLOBAL block with their numbers, read and written | `PMsrHandler.cpp`, `PMusr.cpp` |
| `RunBins` | from these lines to the bins that are fitted, session after session | `PRunSingleHisto.cpp`, `PRunAsymmetry.cpp` |
| `MusrT0` | `RunBins`, with `musrt0` before, between and after the fits | `musrt0.cpp`, `PMusrT0.cpp` |
| `GlobalMsr` | the msr-files that msr2data makes from a template | `PMsr2Data.cpp` |
| `Msr2Data` | a session of msr2data, interrupted and called again | `msr2data.cpp`, `PMsr2Data.cpp` |
| `MusrCanvas` | the windows of musrview, their keys and menus | `PMusrCanvas.cpp` |
| `DataHandler` | the data files of a fit: search, readers, what comes to the runs | `PRunDataHandler.cpp`, `musrfit.cpp` |
| `Packing` | how the writers of any2many pack bins | `PRunDataHandler.cpp` |
| `Any2Many` | any2many: from a list of runs to files, an archive or stdout | `PRunDataHandler.cpp`, `any2many.cpp` |
| `MusrEdit` | musredit's tabs, its file system watcher, the programs it starts | `musredit_qt6/musredit/PTextEdit.cpp` |
| `MC...` | instances for TLC | |
| `...Proofs` | theorems: `FitProofs` about `Fitter`, `FitSession` and `TheoryCache`, `SessionsProofs` about what sessions of `RunBins` and of `MusrT0` leave to the next, `MusrfitProofs` about `Musrfit` and `MsrFile`, the others about the module they are named after | |

`FitSession` extends `Fitter`; `Musrfit` and `TheoryCache` contain an instance of
`FitFiles` and `ChiSquare`, which they implement. `MusrT0` extends `RunBins`, which
extends `RunBlock`: a fit is a step of musrt0's specification. `Msr2Data` extends
`GlobalMsr`. `Any2Many` extends `DataHandler` and `Packing`: a user of data files is a fit
or any2many. The others stand alone and take of their neighbours what these
promise: `MsrFile` reduces a fit to what it leaves in the handler, `Musrfit` a
session to whose text is in which file, `Msr2Data` and `MusrEdit` a fit to what it
does to the two files (`SwappedAtEnd` and the outcomes of `FitSession`).

**Fitter.** The constructor of `PFitter` goes through the COMMANDS block
(`CheckLine`, one line at a time, which chooses the line; `EndCheck`), main looks
at `IsValid()`, and `DoFit` goes through the queue (`StartFit`, then one action per
`Execute...` method, `EndFit`). `CalcChisqOnly` is the `-c` option. Numbers are
replaced by where they come from: minimum number *i* is the *i*-th that Minuit2
has found in this session, and a value, an error, a chi^2 or a section of the
output is the number of the minimum it belongs to (0: read from the file).
Minuit2 is external: each command that calls it succeeds or fails, MINOS for
each parameter. A line names its command, the parameters and the range it asks
for, whether its arguments are right, and whether a comment follows: the check
strips comments, the execution does not. The parts of `PRunListCollection` and
of the runs are `SetFitRange`, `SetFitRangeBin` and `GetNoOfFitBins`, on the pair
(`fitTime`, `fitBins`). Reading behind the end of a vector is `Crash`, beside the
action that goes on.

**FitSession** extends it by main's view: `Report` says whether the mlog-file is
written (`fIsScanOnly`, `-c`), whether it says "converged" and what `-k` keeps.

**Musrfit** has any number of processes. The content of a file is who has
written it in which session, `Partial` or `None`. `TSystem::CopyFile` is two
steps, `OpenCopy` (read the source, truncate the target) and `WriteCopy`; so is
the mlog-file. `After` and `Copies` are the order of the copies in main. `Kill`
is the watchdog, `Restart` the user. The state of `FitSession` is reduced to
"writes a log or not".

**FitFiles** is the promise of the help text: both files change at once. In
`Musrfit`, `MsrSeen` and `MlogSeen` map the files to it: while a process swaps,
they are what they will be.

**TheoryCache** has one theory term, its cache (`prev` is `fPrevParam`, `table` is
`fLFIntegral`/`fDynLFFuncValue`), and the threads of a loop. `Consults` says at which
times a function compares its parameters with the cache, the one thing in which
the four functions differ: the static ones unless all is zero, `dynGssKTLF` when
there is no closed formula, and `dynExpKTLF` only behind its time shift.
`CalcChiSquare` contains the evaluation before the loop; `TakeChunk` is OpenMP's
schedule; `Compare`, `StartRebuild`, `EndRebuild` and `Sum` are the steps of a
thread in `Func`. Reading a vector that is being changed is undefined: `DataRace`, or
going on with whatever there is (`Torn`).

**ChiSquare** is what Minuit2 calls: a function that returns the sum over all bins
for the parameters it was given. `theory`, `par` and `chisq` map to themselves.

**MsrFile** takes a file as a sequence of lines. A line is what it says (`word`,
`arg`) and whether blanks precede it, for the reader (`ReadBlock`, `ReadParam`,
`ReadRunLine`, `ReadStatisticLine`: the `Handle...Entry` methods) and the writer
(`Section`, `WriteLine`, `WriteMissing`: `WriteMsrLogFile`) do not look for tags in
the same places. `InBlock` is the block a line belongs to for the reader, `Section` for the
writer. A number is the session it was found in; its digits are left
out, and so is what a rounding to the digits of its error does to it. The actions
are a session: `Read` or `Refuse`, one of `FitConverges`, `FitFails` and
`FitRejected` (which leave what `Fitter` shows a block of commands can leave), and
`Write`, which is writing the mlog-file and swapping it. THEORY stands for the
blocks that are copied line by line (COMMANDS, GLOBAL, PLOT, FOURIER, FUNCTIONS).

**RunBlock** has a block as a sequence of lines, each a word with its numbers
(`t0`, `addt0`, `background`, `data`, `fit`, `fit fgb`), and as the record the
handler makes of it: lists that are filled up with -1 (`SetAt`, the setters of
`PMsrRunBlock`), a range in times or in bins with its two offsets. `ReadBlock` is
`HandleRunEntry` and `HandleGlobalEntry`, `WriteRun` and `WriteGlobal` the two
blocks of `WriteMsrLogFile`, with the lines that are put in front of the fit line.

**RunBins** goes through `PrepareData` and `PrepareFitData`, one action per method
(`GetProperT0`, the background, `GetProperDataRange`, `GetProperFitRange`,
`CalcNoOfFitBins`, a FIT_RANGE command, `Write`). A bin is the unit of time. There are
no counts: `SummedBin` is the set of bins of the data files which are added up in a
bin, so that a wrong shift is a wrong set. An asymmetry has two sides, a single
histogram one.

**MusrT0** has the windows of main's loops in their order (`Items`), an action per
key, `PromptPeak` for the option `-g`, `WriteT0`, and `Quit` for a window that is
closed. `chosen` is what the user has set, `written` what of it the file has got, and
`gaps` tells whether anything was ever written with a t0, an addrun or the end of a range
left out: what the file holds then cannot be told from what was set.

**GlobalMsr** has a file as its parameters (name, run, what it was fitted to),
the tokens of THEORY and FUNCTIONS which refer to parameters, maps and functions,
and the RUN blocks with their entries and maps. `GlobalFile` is
`PrepareGlobalInputFile`: parameters sorted and numbered anew, run specific ones
repeated for every run, references replaced, maps added where a specific parameter
is in the theory. The new numbers are the ranks of `compare_parameters`
(`Before`, `Rank`); a template whose RUN blocks are of another run is refused (`Matches`).
`MeansTheSame` says what it is for: every reference of the template, followed through
the maps, ends at the same parameter, that of the run if it is run specific.

**Msr2Data** is main's loop over the run list: start and checks of the run numbers,
input file, fit (any outcome `Musrfit` allows: refused, not converged, converged,
files in pieces), reading, writing a line of the db-file; and the three steps of
the global modes. `Interrupt` ends a session anywhere; the next one finds the files
and the db-file as they are.

**DataHandler** has the disk as a function from paths to files. A file is good,
broken (something its reader must have is missing or not a number) or odd (what a
reader lets pass or finds only at its end); `Read...File` says for each format what
the reader returns, how much of the file `fData` keeps, and under which numbers the
histograms are found. `ReadRun` is one turn of `ReadFilesMsr`, the search along the
path and the change of format and histogram numbers included; `Prepare` is what
`PrepareData` makes of the data, `NextSession` the msr-file that is read again.

**Packing** is the seven loops of the writers, as folds over the bins.

**Any2Many** converts one run after the other (`Convert`): read, find a name, write,
stream. `Compress` is tar and gzip with the removal of the files: an older archive or
tar-file of that name is not looked at, nor whether tar and gzip have worked. `Ask` and
`Finish` are main. A writer may fail whenever it writes. `unnoticed` is no state of the
program: it collects what has gone wrong without being looked at.

**MusrCanvas** has per window what it shows, the flags, the checked menu entries
and the set of spectra there are, each with the time window it was made from.
`Cleanup...`, `Handle...` and `Plot...` are operators on that state; `HandleCmdKey` and
`HandleMenuPopup` are an action per key and entry. The two static variables are
shared by the windows. A null pointer that is read is `Crash`.

**MusrEdit** has the disk, the tabs (the text, what there is to undo, what the file
held when it was read, the star), the watcher (paths, notifications on their way,
on or off), the timers, and the dialogs: the questions of `fileChanged` (nested, for
each runs the event loop), musrfit's dialog, and musrStep, beside which the editor
goes on. The actions are the user's, the timer's, and those of other programs.
`silent` is no state of the program: it collects the files of which musredit does
not tell, with the reason at each place, so that `StaleIsReported` says that there
are no other ones.

## What is checked

| run | shows | instance |
|---|---|---|
| `fit_all` | a rejected block runs nothing; the bins follow the range; only SAVE with sectors moves it; results of one minimum; the log tells of a minimum iff there is one; MINUIT2.OUTPUT is kept as a whole | 31 lines of every kind, right, wrong and with comments, blocks of up to 3; 9 of them, blocks of up to 5: FIX, fit, MINOS, RESTORE, fit fits in; single histograms, 2 runs |
| `musrfit_kill` | the input survives; a finished swap is right; the watchdog ends a fit that hangs; the copies implement `FitFiles` | 2 processes apart, one with a watchdog, one with `-k` whose copy of MINUIT2.OUTPUT cannot be written, 2 sessions each |
| `theory_loop` | nothing is rebuilt in the loop; every bin has its parameters' value; the loop implements `ChiSquare`; every call returns | 2 threads, 4 bins at 0, 1, 2, 3 us, 5 processors, teams of one or two threads, the warm-up at 1 us, shift 0 or 2 us, all theories, 3 calls |
| `msrfile_roundtrip` | what a session writes the next one reads again; the user's lines stay; a file stops growing | 32 files: parameter lines of 4, 5, 6 and 7 columns, each next to a constant; runs with and without t0, in times and bins, indented or not; 6 ends of a file; 3 sessions, every outcome of a fit, with and without `-e` |
| `runbins_all` | what is added up in a bin has the same time after its t0; the loop takes the bins of the range and no other; FIT_RANGE in bins means what a fit line does; the next session finds the same | 22 setups (both kinds of fit, addruns, groups, t0 in the header or not, packing 3, a beam period, ISIS), all combinations of up to 56 RUN and 4 GLOBAL blocks, histograms of 40 bins, 2 sessions |
| `musrt0_all` | a t0 and a range that were set are used by the next fits; the other detectors keep theirs | 9 setups with up to 4 detectors and 2 addruns, up to 10 files each, 2 positions of the cursor, musrt0 up to twice in 3 sessions, with windows or `-g` |
| `msr2data_all` | rows are of the session's own fit, of their run, none is lost; the header stays in front; a global file means what its template does | 12 command lines of 2 or 3 runs (4 and 5 digits, chains up and down, no template, run list, headers, global, global+), 3 db-files, templates of 3 parameters and 2 RUN blocks with all kinds of references, 2 sessions interrupted anywhere |
| `data_all` | a fit uses whole files, except as listed; the next session reads the same histograms; any2many leaves the files alone which were there; every run ends up where it was asked for; every bin in its pack | 10 runs of 8 formats, one of their files missing, broken, odd or spelled in upper case, or names that are taken; msr-files of up to 2 RUN blocks and one ADDRUN, 2 sessions; 7 output formats, packs of 1 to 3 bins, with and without `-s`, `-z`, the directory of the input and one name for all |
| `canvas_all` | no frequency axis on a data plot; keys draw what they ask for, from spectra that exist; a transform is that of the window on the screen | 5 setups of a plot, 6 users (keys only, menu only, both, two windows), one zoomed window, the phase turned by one step |
| `editor_all` | a change is reported, or silent for a listed reason; a starred tab is not lost without a question; the watcher comes back | 2 tabs of one fit and a file of the same name in another directory, 2 changes, 2 timers, 3 moves of the user besides his answers |

`fit_all` also checks the type invariant which the proofs rest on; those of `Musrfit`,
`TheoryCache`, `RunBins`, `MusrCanvas` and `MusrEdit` are proved, and the `TypeOK` of
`MsrFile` says what its variables hold.

Why the bounds are enough. A block of three to five lines holds every pair of
commands with what has to precede them (a minimum) and a failure between; values
are names, so that more minima add nothing once two can be told apart. The run is
of single histograms; about asymmetry and non-muSR runs, which differ in what a range
and a SAVE do, speak the three theorems, which hold for every kind of run. Two
processes are what one shared file needs, two sessions what a restart on the
remains of the first needs. Two sets of integral parameters, one closed and one
zero set, in three calls give every way to come back to an earlier set; two
threads make every race of the cache, and four bins are fewer than the
processors, so that the chunk of the loop is the smallest one. The second session
of `MsrFile` reads what the first has written, the third one is what `StopsGrowing` is about; a line is written by itself and its block, so that two of a kind
in a file show what more would. In `RunBins` the histograms are longer than every
range and shift, and the ranges include one that is reversed, one that leaves the
histogram and one without an end; two addruns and two groups are what an index
that is one off needs to hit another one. In `MusrT0` the cursor has two positions,
so that what was set can be told from what was there, and two starts are what it takes
to set one t0 after another. In `Msr2Data` three runs are
one before, at and behind a failure; 9998 to 10000 change the number of digits;
two specific parameters beside a global one are out of order in every way. In
`MusrCanvas` a second window only matters by the two static variables, and a second
zoom would be a third name for a frame. In `MusrEdit` two timers are what an overlap
needs, three moves of the user are an edit, a save and a fit (or a close). In
`Any2Many` the counts of a histogram are such that every sum of bins is another
number; a run of two and one of three histograms show what the last one leaves; the
flag of the readers needs one file behind the bad one, and the numbers of a LEM run
two formats in one block.

**Fairness.** `Musrfit`: weak fairness of a process for
reading, writing and for the sleep of its watchdog, none for `Fit`, which may hang.
`TheoryCache`: weak fairness for each thread of a loop, which OpenMP runs to its end.
`MusrEdit`: weak fairness of a timer that runs and of a notification, both of which
Qt's event loop delivers, and none for users and other programs.
Deadlock is checked everywhere; the ends are the action `Terminated`.

### Disagreements

Two runs expect a violation; PROJECT.json quotes the lines they contradict.

| run | what happens |
|---|---|
| `fitter_binrange` | FIT_RANGE in bins does not reach the bins of the next chi^2 |
| `msr2data_diverged` | a global fit of several runs has not converged: its file is let go after the first run, and msr2data looks into it for the second |

The models contain others, which have no run of their own. Most of them show up as
a condition in a property, which says where the code keeps its word.

*Fitter, FitSession, Musrfit.* FIT_RANGE in times leaves out the bins of non-muSR
runs; SAVE leaves the runs in the range of the last sector; a comment behind
FIT_RANGE RESET is read as a range; a block whose only minimiser is SIMPLEX counts
as a scan, and nothing is written; two SCANs scan the parameter of the second;
SECTOR and SAVE of asymmetry runs read behind a vector (`Crash`); the loop that is to
"place a warning" about MINOS after RELEASE looks at one line again and again
(`PFitter.cpp:1500`). A mere SCAN counts as converged, and so does a session whose
last minimisation failed after an earlier one: main writes `HasConverged()` over the
validity (`musrfit.cpp:751`). A rejected block is logged and swapped; `-k` keeps the
MINUIT2.OUTPUT of an earlier session; the exit code is 0 after most errors. Two
fits in one directory, or a fit and musrt0, swap through one `__temp.msr`
(`musrfit.cpp:810`): one's mlog-file may get the other's text. If the mlog-file cannot
be written but an old one is there, it is swapped all the same and the input is
gone (`musrfit.cpp:758`). The theorems exclude the last two by their assumptions.

*TheoryCache.* dynExpKTLF with a shift above 1 us is tabulated by the threads, though
the comment at `PRunSingleHisto.cpp:187` says that this is done before the loop
(`Late`).

*MsrFile.* A file whose STATISTIC block is not the last one grows by an empty line
per session; tags behind blanks are read but not written as tags; an expected
chi^2 of an earlier session stays beside a new one; `expected maxLH` is read as
`maxLH`; a line of four columns has no place for the positive error; a STATISTIC
block without a result, of a fit that did not converge, gets four asterisks and is
refused by the next session; six columns are refused, though the error message at
`PMsrHandler.cpp:2856` names that form; `fit fgb+5 lgb-0` is written as `fit fgb+5
lgb` and read as `fgb+0` and an undefined offset; a RUN tag behind blanks is written in the first
column, and the t0 of that run, which its block does not get in this session, comes with the
next one, so that the file grows twice (`StopsGrowing`).

*RunBins.* What is written is not always what is read: bins that are zero are left out
(a background estimated from a t0 below 10, a data range that begins at bin 0, `data 0
40` of GLOBAL), a third number in the data line of GLOBAL is read as half a range and
the file is refused when the RUN block gives the other two, a time of exactly -1 ends a
fit line, what is missing is written in front of each of two fit lines, an addt0 line
behind the fit line is written twice and then refused (`RangesPassed` and `Passed`), and
`fit fgb+4 lgb-0` is another range in the next session (`OffsetsPassed`). Gaps in a list
of t0's are filled with 0.0 (`PMusr.cpp:1719`), which counts as found in the next
session and hides GLOBAL and the data file; the addt0's of GLOBAL are never used, nor
those of a single histogram whose t0 is only in GLOBAL. A missing t0 or range is only
written if the RUN block has a fit line. An asymmetry refuses a range in bins in GLOBAL
which a single histogram accepts; its good bins are shifted after they have been checked
and may leave the histograms; histograms are not aligned if the two starts have the same
distance from their t0's on opposite sides. The background is a sum over `end - start`
bins divided by one more; packed data lose their last bin; t0 lines of an asymmetry that
are too long are accepted (`PMsrHandler.cpp:5968`, `&&` for `||`).

*MusrT0.* Setting the second t0 only makes the first one 0.0; setting the addt0 of
the second addrun only, a range with one end, or a bin 0, gives a file that is
refused, or one that means something else (`NoGaps`, `RangesComplete`, `gaps`); windows of the backward detectors show the t0
of the forward histogram; without a fit line in the RUN block everything found or
set is lost, although `user-manual.html:460` says that `-g` "writes the corresponding
values to the t0 lines" (`HasPlace`).

*Msr2Data.* An unreadable msr-file in a run list: no line of the list is consumed, so
the next run does not match and the rest is not processed, although
`msr2data.cpp:997` says "proceed to the next run"; a global file without specific
parameters is a division by zero (`PMsr2Data.cpp:1727`); from run 9999 to 10000 four
of five digits are replaced; the FOURIER phases of a global file get a stale
number; a map that is free in the first RUN block may be used in another
(`FreeInAll`); more parameters than `MSR_PARAM_FUN_OFFSET` would be taken for functions;
parameters named after another run than the template's stay as they are and can get into the
rows of every run (`OwnNames`); a function as alpha or beta ends the global mode by an exception;
`global+` takes the template's values for the first run; an empty db-file gets no
header, and a db-file without a newline at its end swallows the first row.

*DataHandler.* Data of a broken ascii, mdu-ascii or db file come to a fit if a file
read later is fine, since every reader sets the one flag (`FitUsesWholeFiles` says
when); too few bins in an mdu-ascii file are a warning. An ADDRUN without the
histogram of its run is a null pointer (`PRunSingleHisto.cpp:776`): only the run
itself is checked. The year that decides about the format of a LEM run is that of
the run before if the name has none. An ADDRUN `root-ppc` moves the numbers which
the run itself has moved the other way as `root-npp`; if one of them is older than 2012 the
numbers differ from session to session, and numbers above 40 are moved by 20 once more
(`ReadsSameAgain`).

*Packing, Any2Many.* The help text says that `-rebin` gives "the number of bins to be
packed". All writers drop the last pack; all but those of WKM and ASCII add it to the
first one of the next histogram; WKM drops the bin that closes a pack, ASCII counts
the very first bin twice; MUD packs with 1, too, and drops the last bin then
(`PackedInPlace`). With `-s` all that goes by way of a file (ROOT, MUD, the archive) is
written to the standard output twice, since the end of the file is noticed only by
the second read (`PRunDataHandler.cpp:4727`); psi-bin and NeXus files do not get there
at all and `__tmp` stays behind (`EveryRunDelivered`). A ROOT or NeXus file that cannot
be written, and tar or gzip that fail, go unnoticed; in the second case the converted
files are removed all the same. A file with the name of the archive, of its tar-file or
of `__tmp` is replaced or removed without a question (`NotLookedFor`), and what has been written
under a name at which a later run is looked for is read as that run (`InputsApart`). A NeXus file of another version reads well, and its
data are taken from an empty vector (`crashed`, or the run before again). The exit
code is that of success after every error.

*MusrCanvas.* The transforms behind `f` `d` are kept when one goes back to the data,
so that `d f d f`, zooming, `f d` shows the difference of transforms of the old
window; the guards against `f d f` and `d f d` are forgotten after any other key and
shared by all windows; DIFFERENCE, a Fourier view and DIFFERENCE in the menu take
the frequency axis as the time window; the difference of the phase optimised
transform, the phase of a plot without one, and the menu's difference of
transforms that have not been made dereference null pointers (`KeysNeverCrash` and
`DrawnAsAsked` say for whom this cannot happen); an average is not calculated
anew with what it is the average of.

*MusrEdit.* Saving does not reset "modified": after edit, save and undo the text is
another one than the file's and has no star, closing it asks nothing and musrfit
fits the file. Opening a file that is open loads it again and drops the edits (the
comment at line 1181 says it is just shown). `isActive()` of the timer is never
true for a static single shot: timers overlap, and one of a save before musrfit
switches the watcher on while musrfit writes. A save that fails leaves the watcher
off (`stuck`), and so do musrfit on other files than msr and mlog and the early
returns of musrMsr2Data. Yes for a starred tab reloads nothing; a tab is found by
its file's name without the directory; Save as does not watch the new file; the mlog
tab is not reloaded after a fit if its name has a directory; closing one of two
tabs of a file stops watching the other; closing all others with two tabs of the
same text runs out of range; the end of musrStep reloads whatever tab is the
current one by then, or dereferences the end of the list if there is none.

## What is proved

| theorem | says | argument |
|---|---|---|
| `FitProofs!TypeCorrect` | `TypeOK` | conjunct by conjunct (block, flags, parameters, results), one step per action |
| `FitProofs!OneMinimum` | `ResultsOfOneMinimum` | inductive with `TypeOK`; `Minimize`, `Hesse` and `Minos` disturb it |
| `FitProofs!RejectedNothing` | `RejectedBlockRunsNothing` | `RejectInv`: while the block is checked nothing has been touched, and one rejected line makes `fIsValid` false for good |
| `FitProofs!BinsFollow` | `BinsFollowRange` | inductive with `TypeOK` and `BeforeFit` (until the first command runs the range is that of the file); every command that counts the bins makes them follow |
| `FitProofs!RangeLeaks` | `RangeLeaksOnlyBySector` | `CommandedAfter`: a FIT_RANGE that has just run is the one asked for last, every other command leaves the range asked for as it was; only SAVE moves the range itself |
| `FitProofs!SessionIsFit` | a session implements `Fitter` | `Report` is a stutter; so every theorem about `Fitter` holds in a session |
| `FitProofs!KeptOfOneSession` | `KeptIsOfOneSession` | `OutputInv`: the sections are the ones of before, or each is that of a minimum of this session, since SAVE writes behind a minimum only |
| `FitProofs!LogTells` | `LogTellsOfMinimum` | `ConvergedInv`: `fConverged` is set with `fFcnMin` and never cleared; set without a minimum it comes of a SCAN |
| `MusrfitProofs!TypeCorrect` | `TypeOK` | with `CopyingOK`: no copy is under way when only the deletion is left |
| `MusrfitProofs!SafeApart`, `InputSafe` | `InputSurvives`, `OneFileComplete` and `SwappedAtEnd` | `PhaseInv`: for each phase of the swap, which file holds what; a step of another process changes no file of this one (`Apart`) |
| `MusrfitProofs!SwapRefinesPromise` | `Musrfit` implements `FitFiles` | `Seen` ties the mapped files to the phases, `FreshInv` says that a text about to be written is in no file yet; the one step that is not a stutter is opening the mlog-file |
| `MusrfitProofs!UsersLinesStay` | `KeepsUsersLines` | `MsrInv`: a file keeps its form, and the runs read are as many as the RUN tags up to each line (`RunsUpTo`); each line is written as a piece with the user's part of it (`FileIsWritten`), and the user's lines of the pieces add up (`LinesOfPieces`) |
| `FitProofs!LoopTypeCorrect` | `LoopTypeOK` | no chunk passes the end of the range |
| `FitProofs!NoRebuildInLoop` | `RebuiltBeforeLoop` | `CacheInv`: the table is that of `fPrevParam`, or being rebuilt for the present parameters; what is compared in the loop was compared before it unless the shift is late |
| `FitProofs!ExactValues` | `ValuesOfParameters` | a bin is read when `prev = par`, hence `table = par` (`SumsExact`) |
| `FitProofs!LoopRefinesSum` | `TheoryCache` implements `ChiSquare` | `HandedOut`: a bin handed out has its value or lies before its thread |
| `RunBinsProofs!BinsHaveKinds` | `TypeOK` | `Sessions`: numbers of a kind in the files, the blocks and the bins, and that a file which was accepted, and what is written over it, can be written (`Writable`) |
| `RunBinsProofs!SessionsInvariant` | blocks on disk and in memory mean the user's t0's | `AsMeant`: `GetProperT0` fills the RUN block with what is meant (`SetMeant`), and what is written is read again as it is, or not at all (`WrittenMeant`) |
| `RunBinsProofs!T0sAlign` | `EventsAligned` | from `AsMeant`: the t0's that shift the histograms are those that are meant, so that the shift of each cancels against its t0 |
| `RunBinsProofs!FitBinsInRange` | `FitBinsAreInRange` | `NoOfFitBinsIs`: the rounding of both ends, over the integers (`Divided`) |
| `RunBinsProofs!CommandMeansLine` | `CommandAsLine` | `ReadOne`: a block of one line is what that line says |
| `SessionsProofs!KeptInvariant` | `KeptInv`: what file and blocks hold after any number of sessions | see below |
| `SessionsProofs!SessionsAgree` | `SameAgain` | from `KeptInv`: what was found before is `TheFound`, a function of the user's file, and what is found now is the same; nothing in the file can be refused (`NotRefused`) |
| `SessionsProofs!MusrT0Invariant` | `T0Inv`: what has been written is in the file, in the block and in what a fit uses | `Sessions` for the fits and `WindowTyped` for the windows; `Grown`: while musrt0 runs, the block is that of the file with t0's added up to one that was set; `RowsWritten`, `WrittenRange`: what is written is read again, if there is a line for it, which the lines that stay single (`FileOnce`) tell |
| `SessionsProofs!ChosenIsUsed`, `OthersAreKept` | `ChosenUsed` and `OthersKeepTheirs` | from `T0Inv`: without gaps every t0 that was filled up is one that was set or the user's (`GrownTheirs`), and `GetProperT0` takes it from the block (`FoundT0`, `FoundAddT0`) |
| `MusrEditProofs!EditorTypes` | `TypeOK` | with it, that tabs and dialogs are about known files; `RemoveAtProperties` keeps `cur` a tab when others are closed |
| `MusrEditProofs!StaleTabsReported` | `StaleIsReported` | `Told`, of the tabs, watched paths, notifications and silent files: a file on disk differs from its tab only if it is `pending`, `asked` or `silent`. Every handler that takes a file out of the first two, or out of the watcher, puts it into the third or loads the tab |
| `MusrEditProofs!EditsAreKept` | `EditsKept` | one step per handler; only `load` and `removePath` take a text from a tab, and then the tab has no star or the user was asked |
| `MusrCanvasProofs!CanvasTypes` | `TypeOK` | with it, that an average announced by the flag exists |
| `MusrCanvasProofs!DataKeepsTime` | `DataInTime` | `fHistoFrame` is kept only if the view before was one of data (`Inv`) |
| `MusrCanvasProofs!KeysDrawAsAsked` | `DrawnAsAsked` | as long as only keys are used, view, difference flag and drawing go together, in every window |
| `MusrCanvasProofs!KeysAreSafe` | `KeysNeverCrash` | `KeysInv`: as long as the user has only keys, each window has the spectra which its view needs (`Sound`, `Complete`) |
| `MusrCanvasProofs!TransformsFollow` | `TransformOfWindow` | `Settled`: going back to the data has cleaned up the transform of what is shown, and what is drawn and the last key tell of which kind a difference is that is still kept |
| `Any2ManyProofs!FilesKept` | `FilesBeforeKept` | `GenerateOutputFileName` chooses a name that is free (there is one, by counting), so every converted file, and with it every file that is removed, is new |
| `Any2ManyProofs!AllDelivered` | `EveryRunDelivered` | `Delivered`, in front of each run: those before it are in files of their own, on the standard output or overtaken in the temporary file, and every other file is as it was; so each run is read from the file that was there at the start (`FoundSame`) |
| `Any2ManyProofs!PacksInPlace` | `PackedInPlace` | `PackedTo`, in front of each bin: the packs given away are differences of the sums of all bins up to one, `P[m*n] - P[(m-1)*n]`, and what is in the sum is the rest (`LoopGives`); over the histograms, the sum goes from one to the next (`SetGives`). `Found` and `Delivered` say that the file at the end was made from the run |
| `Any2ManyProofs!WholeFiles` | `FitUsesWholeFiles` | `PartsNoticed`: a part of a file in the last place is noticed, for the flag is down; or the file read since then has left nothing, so that its run is missing |
| `Any2ManyProofs!ReadAlike` | `ReadsSameAgain` | `SameInv`: a run that was read is settled, its numbers are where its format wants them, and the year behind it is the one that all readers find there (`YearIs`, unique by `OneYear`) and leaves its format alone |
| `Msr2DataProofs!HeaderFirst` | `AutoHeaderFirst` | `Fresh`: as long as a session that is to decide by itself has not written the header, the db-file is missing or empty |
| `Msr2DataProofs!FitsInDb` | `NoFitLost` | `FitsInv`: of the runs gone through, those with a valid fit have a row, and the files of runs behind are not touched any more |
| `Msr2DataProofs!RowsAreOwn` | `RowsOfOwnFit` | `OwnValues`: what the file of the present run holds at each stage (template, started, fitted, read), for single runs and for the one file of a global mode |
| `Msr2DataProofs!GlobalMeans` | `GlobalMeansTemplate` | `MeansAll`: the sorted template and its digits are those of the file on disk (`TemplateRead`); the file for all runs means what the template means from `Merge` on, and a fit changes values only (`MeansInv`, `MeaningStays`); while rows are written, the counts of specific parameters fit the names in the file (`OwnPars`) |

The loops of `RunBins` are folds over lines, detectors and addruns. The induction they
take is one over a set of numbers (`UpTo`: a set that holds 0, and with each number below n the
next, is all of 0..n), which needs no operator as parameter: `LoopRuns` and `FoldRuns`
turn a fold into the sequence of its intermediate values, `Reads`, `Writes`, `SetsT0s` and
`SetsAddT0s` say what holds after each step. `ReadConcat` splits what is read at any
place, `WrittenT0s` and `WrittenAddT0s` are the round trip: the t0's and addt0's read
from what `WriteRun` has written are those of the block, if it was read from the lines
written over. `ReadRangeLines` and `WriteRangeBegins` are the same for the ranges: a range is
written up to the first bin that is zero, and read from every line that begins with it.

`KeptInv` says what the sessions share, in three layers of conditions. For a file with all its t0's
(`Complete`), the t0's found are `TheT0s`. With ranges that the writer passes on (`RangesPass`), the
data range of the file is the user's or the one with the gaps filled (`FilledData`), and so
is that of the block; the fit range of both is the user's (`SameFit`); the good bins and the
fit range found are `TheGood` and `TheTimes`. With lines that stand alone (`LinesPass`) the same holds
of the background (`FilledBkg`), and the file is legal. The named values depend on the user's file
and the data files alone (`TheSame`), and each is a fixed point: to fill in what was filled in changes
nothing (`WithDataFills`, `WithBkgFills`). That what is written is read as it was is `RunRangesWritten` for the ranges,
`FitWritten` for the fit line, `GlobalWritten` for the GLOBAL block; `WrittenTidy`,
`OwnLegal` and `GlobalLegal` say that the parser accepts it. The layers are
needed: with two fit lines, say, `Passed` fails and the ranges are still the same.

`GlobalMeans` follows a reference through the whole of `PrepareGlobalInputFile`. The ranks
of the parameters are a permutation with the run specific ones at the end (`RankGrows`,
`OrderIs`, `SpecificBehind`). Each token becomes a parameter or a map of that parameter in
every block, and what was put in before it stays (`TokenBecomes`, `AllBecome`): the first map that is
free is new or free in all blocks (`FreeMapIs`, `WithMapIs`), and `SetMap` moves no other. The
parameters of run a stand in a table behind the global ones (`RowAndColumn`, `BehindOthers`), its
RUN blocks behind those of the runs before (`FlattenEven`), and `ShiftedBy` leads from one
to the other (`MovedMeans`). `GlobalFileMeans` puts this together.

Lemmas about loops and folds (`UpTo`, `LoopRuns`, `FoldRuns`) stand in `RunBinsProofs` (which `SessionsProofs` extends),
`MusrfitProofs`, `Any2ManyProofs` and `Msr2DataProofs`, each of which uses its own.

They hold for every value of the constants that meets the module's assumption, which
TLC evaluates on each run. What these assume: `MusrfitAssumption`, that processes are
neither files nor directories; `FilesAssumption`, that an msr-file is made of lines, the
first of which is its title; `MusrCanvasAssumption` and `NoSpectrum`, that canvases
have numbers and "no spectrum" is none; `MusrEditAssumption`, that every msr-file has
its mlog-file; `DataHandlerAssumption`, that a directory is finite and a RUN block
has a run; `Any2ManyAssumption`, that something is to be converted (without it
any2many stops) and that search path and runs are lists; `PacksAssumption`, that the
histograms of a run have bins and all the same number of them, that a pack is of one bin
or more, and that there is a writer of the format; `Msr2DataAssumption`, that an older db-file was written by
msr2data and that files are named after runs or the command line; `SetupsAssumption`,
`BinsAssumption` and `UserFilesAssumption`, that detectors, packing and bins are counted,
that the t0's of a header and the maxima lie within the histogram, and that a file is
made of the lines of the six keywords; `MusrT0Assumption`, that the cursor is at a bin
of the axis, the underflow included, and that "not set" is no number; `OnceAssumption`, that the t0 and
the fit line stand once in a RUN block. They are matters
of names, or what the parser refuses; only the last one is about what a user writes: the
parser would join several t0 lines, and the writer write all t0's into each.

Some theorems have hypotheses of their own. `SafeApart` and `SwapRefinesPromise`
assume that no two processes share a file or directory and that the files of the swap
can be written (`Writable`; that of `-k` need not be); the second is about the
processes without a watchdog, whatever is killed besides them. `FitsInDb` assumes that
no run is in the list twice (`NoRunTwice`): the file of the first is that of the second,
which fits it again after the row has been written. `ReadAlike` assumes that no RUN block
of a LEM file has runs of both formats and that histogram numbers are those which the
formats know (`LemBlocks`). `AllDelivered` and `PacksInPlace` assume that no name any2many makes is one
under which it looks for a run and finds none yet (`InputsApart`: it would read what it has
just written), the first also that an older archive or temporary file is not already what it makes
(`OlderDiffer`). `FitsInDb`, `RowsAreOwn` and `GlobalMeans` assume that "no
file" is not the content of one (`NoneIsNoSequence`), `GlobalMeans` also that it is no
parameter (`NoneIsNoParameter`). Without these assumptions the
properties are wrong, see the disagreements. All others assume nothing: what they
cannot promise is a condition within the property, as the late shift in
`RebuiltBeforeLoop`. Those of `GlobalMeansTemplate` are what the code takes for granted of
a template: that its references exist (`Complete`, which `CheckMaps`, `CheckFuncs` and musrfit check), that
a map free in one RUN block is so in all (`FreeInAll`), that there is room below the functions,
and that no run number but the last one is too long for its digits. The invariants were checked by TLC first.

## What is only model-checked

* Liveness (`WatchdogEndsFit`, `CallEnds`, `WatcherComesBack`): fairness and ENABLED
  are out of the prover's reach.
* `ReadsBack` and `StopsGrowing` of `MsrFile`. The first is about a whole file that is read,
  written and read again: folds within folds, over lines chosen by `SelectSeq`, of which the
  provers know nothing. The second compares the sizes of three files in a row.
* `GlobalFitMayFail`, which the code does not keep.

## What is not modelled

Minuit2's results (any outcome), the values of theories, data, functions and
Fourier transforms, drawing, and the data file formats. In the fitter: CONTOURS
beyond its check; the commands that only print a warning are one command. In the
msr-file: digits, the contents of COMMANDS, PLOT, FOURIER and FUNCTIONS, the lines
of RUN and GLOBAL besides those of `RunBlock`, and a title that begins like a tag.
Of the runs: the preparation for a view, rotating reference frames, beta-NMR and
non-muSR data. Of the data files: headers and comments, the packs of NeXus IDF 2, the
groups of `-h`, names without an extension, a psi-bin library that lengthens
histograms, `-rebin 0`, psi-mdu as an output format (it is written as psi-bin), WKM files of
other beamlines than mue4 (whose name is the extension), and the last search path,
which is made of institute and beamline.
Of msr2data: the ASCII output, lists of parameters, the option
that sets the title. Of musrview: the batch mode, a PFourier that fails, handlers of windows that
have been closed, the timeout, and the pads with parameters. Of musredit: tabs
without a name, msr2data and the swap of msr and mlog, finding and replacing; the
Qt 5 and Qt 3/4 editors. Command line parsing, `--dump` and the startup file. The
components in PROJECT.json give the reason for each part.

## Plan

Written in this order, the most important first: `Fitter`, `FitSession`, `Musrfit`
and `FitFiles`, `TheoryCache` and `ChiSquare`, each pair with its proofs, then
`MsrFile`, `MusrCanvas`, `RunBlock` and `RunBins`, `MusrT0`, `GlobalMsr` and
`Msr2Data`, `MusrEdit`, and `DataHandler`, `Packing` and `Any2Many`.

Every invariant of the passing runs is a theorem, and of the action properties all but two
of `MsrFile` (see above).

Candidates for more modules: what FUNCTIONS and the maps may refer to
(`PMsrHandler::CheckMaps`, `CheckFuncs`), addRun, and mupp's selection of parameters.
