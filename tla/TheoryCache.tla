----------------------------- MODULE TheoryCache -----------------------------
(***************************************************************************)
(* The longitudinal field Kubo-Toyabe functions of PTheory                 *)
(* (src/src/classes/PTheory.cpp) and the parallel loops over the data      *)
(* which call them (CalcChiSquare and its like of the PRun classes).       *)
(*                                                                         *)
(* Such a function needs an integral which is tabulated once for a set of  *)
(* parameters: fPrevParam holds the set, fLFIntegral or fDynLFFuncValue    *)
(* the table.  Neither is protected against the threads of the loop, which *)
(* is why each CalcChiSquare evaluates the theory once before it.          *)
(*                                                                         *)
(* A table is replaced by the parameters it was calculated for, the value  *)
(* of a bin by the table or the closed formula it was calculated with.     *)
(***************************************************************************)
EXTENDS Integers

CONSTANTS
  Threads,      \* the threads there are
  NoOfBins,     \* the bins of the fit range
  Time,         \* the time of each of them
  Procs,        \* omp_get_num_procs()
  MinChunk,     \* the least number of bins a thread is handed at a time
  WarmUpTime,   \* the time at which the theory is evaluated before the loop
  Theories,     \* the theories to look at, see Theory
  ParamSets,    \* the sets of parameters Minuit2 asks for
  Form,         \* which branch of the functions each set takes, see Forms
  None,         \* fPrevParam of a new object, a bin without a value
  Torn,         \* a table which is empty or being rebuilt
  MaxCalls      \* bound: the number of calls of Minuit2

Bins == 1..NoOfBins

Kinds == {"statGssKTLF", "statExpKTLF", "dynGssKTLF", "dynExpKTLF"}
Static == {"statGssKTLF", "statExpKTLF"}

Theory == [kind : Kinds, shift : Int]

(* zero: all the parameters are 0; closed: there is a formula for them (no *)
(* damping, zero or high field, fast hopping); integral: there is none.    *)
Forms == {"zero", "closed", "integral"}

ASSUME TheoryCacheAssumption ==
  /\ NoOfBins \in Nat /\ Procs \in Nat \ {0} /\ MinChunk \in Nat \ {0}
  /\ Time \in [Bins -> Int] /\ WarmUpTime \in Int
  /\ Theories \subseteq Theory
  /\ Form \in [ParamSets -> Forms]
  /\ None \notin ParamSets /\ Torn \notin ParamSets
  /\ MaxCalls \in Nat

VARIABLES
  theory,       \* the theory of the run
  team,         \* the threads of the OpenMP loops, see the option -u
  call,         \* whether CalcChiSquare is being executed
  calls,        \* how often it has been called
  par,          \* the parameters of this call
  prev,         \* fPrevParam
  table,        \* fLFIntegral, fDynLFFuncValue
  next,         \* the next bin of the loop to hand out
  at,           \* where each thread is in Func
  bin, last,    \* its bin, and the last one of its chunk
  values,       \* the value of each bin so far
  chisq         \* the values summed up by the last call

run == <<theory, team>>
cache == <<prev, table>>
loop == <<next, at, bin, last, values>>
loopVars == <<run, call, calls, par, cache, loop, chisq>>

LoopInit ==
  /\ theory \in Theories /\ team \in (SUBSET Threads) \ {{}}
  /\ call = "idle" /\ calls = 0 /\ par \in ParamSets
  /\ prev = None /\ table = Torn
  /\ next = NoOfBins + 1
  /\ at = [t \in Threads |-> "idle"]
  /\ bin = [t \in Threads |-> 0] /\ last = [t \in Threads |-> 0]
  /\ values = [i \in Bins |-> None]
  /\ chisq = values

-----------------------------------------------------------------------------
(* Func. *)

(* Whether it gets as far as comparing the parameters with fPrevParam.     *)
ConsultsAfterShift(th, time, p) ==   \* mutant
  /\ Form[p] = "integral"
  /\ time >= th.shift

Consults(th, time, p) ==
  /\ Form[p] = "integral" \/ (th.kind \in Static /\ Form[p] = "closed")
  /\ th.kind = "dynExpKTLF" => time >= th.shift

NewParamNoField(p) == prev = None   \* mutant
NewParam(p) == prev # p

(* Whether its value is read off the table.  A static function of a field  *)
(* below 0.02 has a formula and calculates its table all the same; here it *)
(* is left out, since nobody reads it.                                     *)
ReadsTable(th, time, p) == Form[p] = "integral" /\ time >= th.shift

Read(th, time, p, from) ==
  IF ReadsTable(th, time, p) THEN <<"table", from>> ELSE <<"formula", p>>

(* The table when it is complete; for a closed formula there is none.      *)
Rebuilt(p) == IF Form[p] = "integral" THEN p ELSE table

-----------------------------------------------------------------------------
(* CalcChiSquare.  At first there is only the main thread.                 *)

CalcChiSquare ==
  /\ call = "idle" /\ calls < MaxCalls
  /\ calls' = calls + 1
  /\ \E p \in ParamSets :
       /\ par' = p
       /\ IF Consults(theory, WarmUpTime, p) /\ NewParam(p)
          THEN prev' = p /\ table' = Rebuilt(p)
          ELSE UNCHANGED cache
  /\ call' = "loop" /\ next' = 1
  /\ values' = [i \in Bins |-> None]
  /\ UNCHANGED <<run, at, bin, last, chisq>>

(* schedule(dynamic, chunk)                                                *)
ChunkUnbounded == NoOfBins \div Procs   \* mutant
Chunk == IF NoOfBins \div Procs < MinChunk THEN MinChunk ELSE NoOfBins \div Procs

LastOfChunk(first) ==
  IF first + Chunk <= NoOfBins THEN first + Chunk - 1 ELSE NoOfBins

TakeChunk(t) ==
  /\ call = "loop" /\ at[t] = "idle" /\ next <= NoOfBins
  /\ bin' = [bin EXCEPT ![t] = next]
  /\ last' = [last EXCEPT ![t] = LastOfChunk(next)]
  /\ next' = LastOfChunk(next) + 1
  /\ at' = [at EXCEPT ![t] = "func"]
  /\ UNCHANGED <<run, call, calls, par, cache, values, chisq>>

Compare(t) ==
  /\ call = "loop" /\ at[t] = "func"
  /\ at' = [at EXCEPT ![t] =
              IF Consults(theory, Time[bin[t]], par) /\ NewParam(par) THEN "new" ELSE "value"]
  /\ UNCHANGED <<run, call, calls, par, cache, next, bin, last, values, chisq>>

(* fPrevParam is set before the table is cleared and calculated.           *)
StartRebuild(t) ==
  /\ call = "loop" /\ at[t] = "new"
  /\ prev' = par
  /\ table' = IF Form[par] = "integral" THEN Torn ELSE table
  /\ at' = [at EXCEPT ![t] = "rebuild"]
  /\ UNCHANGED <<run, call, calls, par, next, bin, last, values, chisq>>

Rebuilding(t) == at[t] = "rebuild"

(* Two threads which have changed the vector at once leave it in any state.*)
EndRebuild(t) ==
  /\ call = "loop" /\ Rebuilding(t)
  /\ table' \in {Rebuilt(par)} \cup
                {Torn : s \in {s \in team \ {t} : Rebuilding(s)}}
  /\ at' = [at EXCEPT ![t] = "value"]
  /\ UNCHANGED <<run, call, calls, par, prev, next, bin, last, values, chisq>>

Sum(t) ==
  /\ call = "loop" /\ at[t] = "value"
  /\ values' = [values EXCEPT ![bin[t]] = Read(theory, Time[bin[t]], par, table)]
  /\ IF bin[t] < last[t]
     THEN bin' = [bin EXCEPT ![t] = @ + 1] /\ at' = [at EXCEPT ![t] = "func"]
     ELSE at' = [at EXCEPT ![t] = "idle"] /\ UNCHANGED bin
  /\ UNCHANGED <<run, call, calls, par, cache, next, last, chisq>>

(* Undefined behaviour: a vector is read, or changed, while it is changed. *)
DataRace(t) ==
  /\ call = "loop"
  /\ \/ at[t] = "value" /\ ReadsTable(theory, Time[bin[t]], par) /\ table = Torn
     \/ Rebuilding(t) /\ \E s \in team \ {t} : Rebuilding(s)
  /\ call' = "crashed"
  /\ UNCHANGED <<run, calls, par, cache, loop, chisq>>

Return ==
  /\ call = "loop" /\ next > NoOfBins
  /\ \A t \in team : at[t] = "idle"
  /\ chisq' = values
  /\ call' = "idle"
  /\ UNCHANGED <<run, calls, par, cache, loop>>

Thread(t) == \/ TakeChunk(t) \/ Compare(t) \/ StartRebuild(t)
             \/ EndRebuild(t) \/ Sum(t) \/ DataRace(t)

LoopTerminated ==
  /\ call = "crashed" \/ (call = "idle" /\ calls = MaxCalls)
  /\ UNCHANGED loopVars

LoopNext == CalcChiSquare \/ (\E t \in team : Thread(t)) \/ Return \/ LoopTerminated

LoopSpec == LoopInit /\ [][LoopNext]_loopVars

(* Every thread of the loop gets on.                                       *)
LoopFairSpec ==
  LoopSpec /\ WF_loopVars(Return) /\ \A t \in Threads : WF_loopVars(t \in team /\ Thread(t))

-----------------------------------------------------------------------------
(* Properties. *)

(* The type invariant.                                                     *)
Value == {"table", "formula"} \X (ParamSets \cup {Torn})
LoopTypeOK ==
  /\ theory \in Theories /\ team \in (SUBSET Threads) \ {{}} /\ par \in ParamSets
  /\ call \in {"idle", "loop", "crashed"} /\ calls \in Nat
  /\ prev \in ParamSets \cup {None} /\ table \in ParamSets \cup {Torn}
  /\ next \in 1..(NoOfBins + 1)
  /\ at \in [Threads -> {"idle", "func", "new", "rebuild", "value"}]
  /\ bin \in [Threads -> Bins \cup {0}] /\ last \in [Threads -> Bins \cup {0}]
  /\ \A t \in Threads : at[t] # "idle" => bin[t] \in Bins
  /\ values \in [Bins -> Value \cup {None}] /\ chisq \in [Bins -> Value \cup {None}]

(* A time shift behind the time of the evaluation before the loop.         *)
IsLate(th) == th.kind = "dynExpKTLF" /\ WarmUpTime < th.shift
Late == IsLate(theory)

OneThread == \A s, t \in team : s = t
ThreadSafe == ~Late \/ OneThread

(* "non-thread-save calculations only need to be calculated once for a     *)
(* given set of parameters---which should be done outside of the           *)
(* parallelized loop": whatever parameters have been asked for before, the *)
(* threads find the table they need, except dynExpKTLF with a Late shift.  *)
RebuiltBeforeLoop ==
  ~Late => \A t \in Threads : at[t] \notin {"new", "rebuild"}

(* Whatever the threads do, each bin is summed up with the table or the    *)
(* formula of the parameters Minuit2 asks for, and never with the table of *)
(* an earlier call; with a Late shift so does a single thread.             *)
Exact(th, i, p) == Read(th, Time[i], p, p)
ValuesOfParameters ==
  ThreadSafe =>
    \A i \in Bins : values[i] # None => values[i] = Exact(theory, i, par)

(* Every call returns, or has crashed.                                     *)
CallEnds == call = "loop" ~> call # "loop"

(* The loop implements the sequential sum.                                 *)
Promise == INSTANCE ChiSquare WITH
  Params <- ParamSets, busy <- call # "idle", safe <- ThreadSafe, Value <- Exact
KeepsPromise == Promise!Spec
=============================================================================
