----------------------------- MODULE MCMsrFile -----------------------------
(***************************************************************************)
(* msr-files of two parameters and two runs, in the forms that are read or *)
(* written differently.                                                    *)
(***************************************************************************)
EXTENDS MsrFile

Blanks(l) == [l EXCEPT !.indent = TRUE]

Param(no, cols, bounds, step, pos) ==
  Line("param", [no |-> no, cols |-> cols, bounds |-> bounds, val |-> 0, step |-> step, pos |-> pos])

(* Before a fit, after MINOS, with boundaries, with 'none none', each next  *)
(* to a constant; six columns are refused.                                 *)
Constant(no) == Param(no, 4, FALSE, Absent, Absent)

Params ==
  { <<Param(1, 4, FALSE, 0, Absent), Constant(2)>>,
    <<Constant(1), Param(2, 5, FALSE, 0, 0)>>,
    <<Param(1, 7, TRUE, 0, Absent), Word("comment"), Constant(2)>>,
    <<Constant(1), Param(2, 7, TRUE, 0, 0)>>,
    <<Param(1, 7, FALSE, 0, 0), Constant(2)>>,
    <<Param(1, 4, FALSE, 0, Absent), Param(2, 6, TRUE, 0, Absent)>> }

Time == Line("fit", NoRange)
Bins(n0, n1) == Line("fit", [bins |-> TRUE, n0 |-> n0, n1 |-> n1])
T0 == Line("t0", [n |-> 1])
Run(name) == Line("RUN", [name |-> name])

TwoRuns == <<Run("a"), Time, Run("b"), T0, Time>>

Runs ==
  { TwoRuns,
    <<Run("a"), Blanks(T0), Bins(5, 3), Run("b"), Word("other"), Time, T0>>,
    <<Run("a"), T0, Time, Blanks(Run("b")), T0, Time>>,
    <<Run("a"), T0, Bins(Absent, 2)>> }

Stat == Word("STATISTIC")
Result == Line("result", [chisq |-> TRUE, of |-> 0])
Theory == <<Word("THEORY"), Word("other")>>

(* The end of the file: no STATISTIC block, one as musrfit writes it, with *)
(* what a user may leave in it, none in the first column, not the last one. *)
Ends ==
  { Theory,
    Theory \o <<Word("comment"), Stat, Result>>,
    Theory \o <<Stat, Word("failed"), Word("comment"), Word("blank")>>,
    Theory \o <<Stat>>,
    Theory \o <<Blanks(Stat), Result>>,
    <<Stat, Result>> \o Theory }

File(p, r, e) == <<Word("title"), Word("FITPARAMETER")>> \o p \o r \o e

(* Every form of parameters, and every form of runs with every end; runs   *)
(* without a t0, too, with the second tag in the first column or not.       *)
MCFiles ==
  {File(p, TwoRuns, Theory) : p \in Params}
  \cup {File(<<Param(1, 5, FALSE, 0, 0)>>, r, e) : r \in Runs, e \in Ends}
  \cup {File(<<Param(1, 5, FALSE, 0, 0)>>, <<Run("a"), Time, r, Time>>, Theory) :
           r \in {Run("b"), Blanks(Run("b"))}}
=============================================================================
