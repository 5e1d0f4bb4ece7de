------------------------------ MODULE GlobalMsr ------------------------------
(* The msr-files msr2data makes from a template: for one run               *)
(* (PMsr2Data::PrepareNewInputFile), for one run with its parameters       *)
(* sorted, and for all runs together (PrepareGlobalInputFile).             *)
(*                                                                         *)
(* A file is the sequence of its parameters, the THEORY and FUNCTIONS      *)
(* blocks as the tokens that refer to parameters, maps and functions, and  *)
(* its RUN blocks.  A parameter has a name (base and, if it ends with one, *)
(* a run number, else 0) and a value: what it has been fitted to.          *)
EXTENDS Integers, Sequences, SequencesExt, FiniteSetsExt

CONSTANT None      \* no file, and a file that cannot be read
CONSTANT Broken

Items == {"norm", "bkgfit", "alpha", "beta", "lifetime"}
FunOffset == 20000
Width == 4         \* digits of a run number in the names of the data files

Par(k) == [kind |-> "par", no |-> k]
MapNo(k) == [kind |-> "map", no |-> k]

(* Run numbers and the number of their digits, fRunNumberDigits.           *)
DigitsOf(run) == Width + Cardinality({d \in Width..9 : run >= 10 ^ d})
TooLong(run, digits) == DigitsOf(run) > digits

(* name.replace(loc, fRunNumberDigits, new): of a longer number the last   *)
(* digits stay behind.  A name without the number is left as it is.        *)
Replaced(name, old, new, digits) ==
  IF name # old THEN name
  ELSE IF TooLong(old, digits) THEN (10 * new) + (old % 10) ELSE new

NotConvergedKept(doc) == doc   \* mutant
NotConverged(doc) == [doc EXCEPT !.valid = FALSE]

WithData(doc, old, new, digits) ==
  [doc EXCEPT !.blocks = [b \in DOMAIN @ |->
     [@[b] EXCEPT !.data = Replaced(@, old, new, digits)]]]

(* PrepareNewInputFile, from the text of the template: only the first RUN  *)
(* lines and the line of chisq or maxLH are changed.                       *)
NewInput(doc, temp, run, digits) ==
  IF doc = Broken THEN Broken ELSE NotConverged(WithData(doc, temp, run, digits))

-----------------------------------------------------------------------------
(* Global and run specific parameters. *)

IsSpecific(doc, k, run) == doc.par[k].run = run
NoOfSpecific(doc, run) == Cardinality({k \in DOMAIN doc.par : IsSpecific(doc, k, run)})

(* compare_parameters: the global ones first, a sorted file stays as it is. *)
Before(doc, run, j, k) ==
  IF IsSpecific(doc, j, run) <=> IsSpecific(doc, k, run) THEN j < k ELSE IsSpecific(doc, k, run)
Rank(doc, run, k) == Cardinality({j \in DOMAIN doc.par : Before(doc, run, j, k)}) + 1
Order(doc, run) ==
  [p \in DOMAIN doc.par |-> CHOOSE k \in DOMAIN doc.par : Rank(doc, run, k) = p]
WasSorted(doc, run) ==
  \A k \in 1..Len(doc.par) - NoOfSpecific(doc, run) : ~IsSpecific(doc, k, run)

(* The number that parameter k gets; what is no parameter stays.           *)
NewNoKept(doc, run, k) == k   \* mutant
NewNo(doc, run, k) == IF k \in DOMAIN doc.par THEN Rank(doc, run, k) ELSE k

(* A run specific parameter named in THEORY or FUNCTIONS becomes a map:    *)
(* one which is this parameter in every block, else the first one that is  *)
(* free in the first block, else a new one.                                *)
Mapped(blocks, k) ==
  {l \in DOMAIN blocks[1].map : \A b \in DOMAIN blocks : blocks[b].map[l] = k}
FreeMap(blocks) ==
  Min({l \in DOMAIN blocks[1].map : blocks[1].map[l] = 0} \cup {Len(blocks[1].map) + 1})
MapFor(blocks, k) ==
  IF Mapped(blocks, k) # {} THEN Min(Mapped(blocks, k)) ELSE FreeMap(blocks)

(* PMsrRunBlock::SetMap: the vector grows if it has to.                    *)
SetMap(map, k, l) ==
  [i \in 1..Max({l, Len(map)}) |->
     IF i = l THEN k ELSE IF i \in DOMAIN map THEN map[i] ELSE 0]

WithMap(blocks, k) ==
  IF Mapped(blocks, k) # {} THEN blocks
  ELSE [b \in DOMAIN blocks |->
          [blocks[b] EXCEPT !.map = SetMap(@, k, FreeMap(blocks))]]

(* One token after the other, with the maps found so far.                  *)
Substituted(doc, run, acc, token) ==
  IF token.kind = "par" /\ IsSpecific(doc, token.no, run)
  THEN [blocks |-> WithMap(acc.blocks, token.no),
        out |-> Append(acc.out, MapNo(MapFor(acc.blocks, token.no)))]
  ELSE [acc EXCEPT !.out = Append(@,
          IF token.kind = "par" THEN Par(NewNo(doc, run, token.no)) ELSE token)]

Tokens(doc) == doc.theory \o doc.functions
SubstitutedAll(doc, run) ==
  FoldLeft(LAMBDA acc, token : Substituted(doc, run, acc, token),
           [blocks |-> doc.blocks, out |-> <<>>], Tokens(doc))

Renumbered(doc, run, block) ==
  [block EXCEPT !.item = [x \in Items |-> NewNo(doc, run, @[x])],
                !.map = [l \in DOMAIN @ |-> NewNo(doc, run, @[l])]]

(* The phases of the FOURIER block: not theirs, but the number looked at   *)
(* last, the last map of the last block, is looked up and added.           *)
Phases(doc, run, last) ==
  IF doc.phase # <<>> /\ ~WasSorted(doc, run) /\ last \in DOMAIN doc.par
  THEN Append(doc.phase, NewNo(doc, run, last)) ELSE doc.phase

(* The template with its parameters sorted and no run specific parameter   *)
(* outside of the RUN blocks.                                              *)
Sorted(doc, run) ==
  LET all == SubstitutedAll(doc, run)
      n == Len(doc.theory)
  IN [par |-> [i \in DOMAIN doc.par |-> doc.par[Order(doc, run)[i]]],
      theory |-> SubSeq(all.out, 1, n),
      functions |-> SubSeq(all.out, n + 1, Len(all.out)),
      blocks |-> [b \in DOMAIN doc.blocks |-> Renumbered(doc, run, all.blocks[b])],
      phase |-> Phases(doc, run, Last(Last(all.blocks).map)),
      rrf |-> NewNo(doc, run, doc.rrf),
      valid |-> FALSE]

(* PrepareNewSortedInputFile, from the sorted template: the names of the   *)
(* parameters lose their run number.                                       *)
SortedInput(sorted, temp, run, digits) ==
  LET named == [sorted EXCEPT !.par = [i \in DOMAIN @ |-> [@[i] EXCEPT !.run = 0]]]
  IN WithData(NotConverged(named), temp, run, digits)

-----------------------------------------------------------------------------
(* All runs together. *)

(* "A template run file number does not match": in each RUN block.         *)
Matches(doc, run) == \A b \in DOMAIN doc.blocks : doc.blocks[b].data = run

(* at(tempPar-1) of a vector that is shorter: the program ends.  Only norm *)
(* is asked whether it is a function.                                      *)
Throws(doc) == \E b \in DOMAIN doc.blocks : \E x \in Items \ {"norm"} :
                 doc.blocks[b].item[x] >= FunOffset

(* The run number in a name, run after run: each one is replaced in what   *)
(* the one before has become.                                              *)
NameOf(name, temp, list, digits) ==
  [a \in 1..Len(list) |->
     FoldLeft(LAMBDA x, i : Replaced(x, IF i = 1 THEN temp ELSE list[i - 1], list[i], digits),
              name, [i \in 1..a |-> i])]

(* The value of a run specific parameter: that of the fit of its run alone *)
(* (ones[a], None if there is none), else that of the run before.  For the *)
(* first run nothing is read if it is the template itself.                 *)
ValueOf(sorted, k, temp, list, ones, a) ==
  FoldLeft(LAMBDA val, i : IF ones[i] = None \/ (i = 1 /\ list[1] = temp)
                           THEN val ELSE ones[i].par[k].val,
           sorted.par[k].val, [i \in 1..a |-> i])

(* Numbers of run specific parameters grow by their number with each run.  *)
ShiftedBy(a, num, first, v) ==
  IF v \in first + 1..first + num THEN v + (a - 1) * num ELSE v

GlobalFile(sorted, temp, list, ones, digits) ==
  LET n == Len(sorted.par)
      spec == NoOfSpecific(sorted, temp)
      glob == n - spec
      nb == Len(sorted.blocks)
      SpecPar(a, k) ==
        [name |-> sorted.par[glob + k].name,
         run |-> NameOf(temp, temp, list, digits)[a],
         val |-> ValueOf(sorted, glob + k, temp, list, ones, a)]
      Block(a, b) ==
        [data |-> NameOf(sorted.blocks[b].data, temp, list, digits)[a],
         item |-> [x \in Items |-> ShiftedBy(a, spec, glob, sorted.blocks[b].item[x])],
         map |-> [l \in DOMAIN sorted.blocks[b].map |->
                    ShiftedBy(a, spec, glob, sorted.blocks[b].map[l])]]
  IN [sorted EXCEPT
        !.par = [p \in 1..glob + Len(list) * spec |->
                   IF p <= glob THEN @[p]
                   ELSE SpecPar(((p - glob - 1) \div spec) + 1, ((p - glob - 1) % spec) + 1)],
        !.blocks = FlattenSeq([a \in DOMAIN list |-> [b \in 1..nb |-> Block(a, b)]])]

-----------------------------------------------------------------------------
(* What a global file has to mean. *)

(* What a file refers to is there, as CheckMaps and musrfit want it.  And a *)
(* map that is free in the first RUN block is so in all of them.           *)
UsedMaps(blocks) ==
  {l \in DOMAIN blocks[1].map : \E b \in DOMAIN blocks : blocks[b].map[l] # 0}
FreeInAll(blocks) ==
  \A l \in DOMAIN blocks[1].map, b \in DOMAIN blocks :
    blocks[1].map[l] = 0 => blocks[b].map[l] = 0
Parameters(doc) ==
  [name : {doc.par[k].name : k \in DOMAIN doc.par}, run : Int,
   val : {doc.par[k].val : k \in DOMAIN doc.par}]
References(n, blocks) ==
  {Par(k) : k \in 1..n} \cup {MapNo(l) : l \in UsedMaps(blocks)} \cup [kind : {"fun"}, no : Nat]
Complete(doc) ==
  LET n == Len(doc.par)
      maps == DOMAIN doc.blocks[1].map
  IN /\ doc.par \in Seq(Parameters(doc))
     /\ doc.blocks # <<>>
     /\ doc.blocks \in Seq([data : Nat, item : [Items -> Int \ (n + 1..FunOffset - 1)], map : Seq(0..n)])
     /\ \A b \in DOMAIN doc.blocks : DOMAIN doc.blocks[b].map = maps
     /\ doc.theory \in Seq(References(n, doc.blocks)) /\ doc.functions \in Seq(References(n, doc.blocks))
     /\ doc.rrf \in 0..n

(* The parameter a token stands for in a RUN block.                        *)
Referred(doc, block, token) ==
  LET no == IF token.kind = "map" THEN block.map[token.no] ELSE token.no
  IN IF token.kind # "fun" /\ no \in DOMAIN doc.par THEN doc.par[no] ELSE None
ItemOf(doc, block, x) == Referred(doc, block, Par(block.item[x]))

(* The same parameter, of another run if it is specific to one.            *)
SameFor(p, q, temp, run) ==
  IF p = None THEN q = None
  ELSE q # None /\ q.name = p.name /\ q.run = IF p.run = temp THEN run ELSE p.run

(* What is run specific in the theory and the functions, and every line of *)
(* the RUN blocks, is for each run the parameter of that run which it was  *)
(* in the template for the template's run; the rest stays what it is.      *)
MeansTheSame(doc, global, temp, list) ==
  /\ SameFor(Referred(doc, None, Par(doc.rrf)), Referred(global, None, Par(global.rrf)),
             temp, list[1])
  /\ \A a \in DOMAIN list, b \in DOMAIN doc.blocks :
       LET block == global.blocks[(a - 1) * Len(doc.blocks) + b]
           tokens == Tokens(doc)
       IN /\ block.data = list[a]
          /\ \A x \in Items : SameFor(ItemOf(doc, doc.blocks[b], x),
                                      ItemOf(global, block, x), temp, list[a])
          /\ \A k \in DOMAIN tokens :
               SameFor(Referred(doc, doc.blocks[b], tokens[k]),
                       Referred(global, block, Tokens(global)[k]), temp, list[a])
=============================================================================
