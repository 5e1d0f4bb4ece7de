----------------------------- MODULE MCMsr2Data -----------------------------
EXTENDS Msr2Data

Runs == {9998, 9999, 10000, 13, 12, 14, 23, 22}
MCNames == {"msr", "one", "global"} \X Runs

Named(name, run, specific) ==
  [name |-> name, run |-> IF specific THEN run ELSE 0,
   val |-> [of |-> Msr(run), s |-> 0]]
NoItems == [x \in Items |-> -1]

(* A file for a single run: two parameters. *)
Plain(run, valid) ==
  [par |-> <<Named("a", run, FALSE), Named("b", run, FALSE)>>,
   theory |-> <<Par(1), Par(2)>>, functions |-> <<>>,
   blocks |-> <<[data |-> run, item |-> NoItems, map |-> <<0, 0>>]>>,
   phase |-> <<>>, rrf |-> 0, valid |-> valid]

Directory(given) == [n \in MCNames |-> IF n \in DOMAIN given THEN given[n] ELSE None]
One1(name, doc) == [n \in {name} |-> doc]

SingleDirs ==
  {Directory(One1(Msr(9999), Plain(9999, TRUE))),
   Directory(One1(Msr(9998), Plain(9998, TRUE))),
   Directory([n \in {Msr(9998), Msr(10000)} |-> Plain(n[2], TRUE)]),
   Directory([n \in {Msr(9998), Msr(9999)} |-> IF n[2] = 9998 THEN Broken ELSE Plain(9999, TRUE)])}

(* Templates of global files. *)
Kinds == {<<FALSE, TRUE, TRUE>>, <<TRUE, FALSE, TRUE>>, <<TRUE, TRUE, FALSE>>,
          <<TRUE, FALSE, FALSE>>, <<FALSE, FALSE, FALSE>>}
Template3(run, kind, theory, functions, maps, norm, alpha, phase) ==
  [par |-> [k \in 1..3 |-> Named(k, run, kind[k])],
   theory |-> theory, functions |-> functions,
   blocks |-> [b \in 1..2 |->
     [data |-> run, item |-> [NoItems EXCEPT !["norm"] = norm[b], !["alpha"] = alpha],
      map |-> maps[b]]],
   phase |-> phase, rrf |-> 3, valid |-> TRUE]

Maps == {<< <<0, 0>>, <<0, 0>> >>, << <<3, 0>>, <<2, 0>> >>, << <<1, 3>>, <<2, 3>> >>,
         << <<2, 0>>, <<2, 0>> >>, << <<1, 0>>, <<2, 3>> >>}
UsesMaps(maps, tokens) ==
  \A k \in DOMAIN tokens : tokens[k].kind = "map" =>
    \E b \in 1..2 : maps[b][tokens[k].no] # 0

Token == {Par(1), Par(2), Par(3), MapNo(1)}
Templates ==
  {Template3(13, c[1], <<c[2], c[3]>>, <<c[4]>>, c[5], c[6], c[7], c[8]) :
     c \in {d \in Kinds \X Token \X {Par(1), Par(3)} \X {Par(2), Par(3), MapNo(2)} \X Maps
              \X {<<1, 2>>, <<3, FunOffset + 1>>} \X {-1, 2} \X {<<>>, <<1>>} :
              UsesMaps(d[5], <<d[2], d[3], d[4]>>)}}
  \cup {Template3(13, <<TRUE, FALSE, TRUE>>, <<Par(1)>>, <<Par(2)>>, << <<0, 0>>, <<0, 0>> >>,
                  <<1, 1>>, FunOffset + 1, <<>>)}
  \cup {[Template3(13, <<TRUE, FALSE, TRUE>>, <<Par(1)>>, <<Par(2)>>, << <<0, 0>>, <<0, 0>> >>,
                    <<1, 1>>, -1, <<>>) EXCEPT !.blocks[2].data = 12]}
FitTemplates ==
  {Template3(23, kind, <<Par(1), MapNo(1)>>, <<Par(3)>>, << <<2, 0>>, <<3, 0>> >>, <<1, 2>>, -1, <<>>) :
     kind \in {<<TRUE, FALSE, TRUE>>, <<FALSE, FALSE, TRUE>>, <<FALSE, FALSE, FALSE>>}}
WithTemplates(set) == {Directory(One1(Msr(t.blocks[1].data), t)) : t \in set}

OldRow == [kind |-> "row", s |-> 0, pos |-> 1, run |-> 9998, ind |-> 0, pars |-> <<>>]
OldHeader == [kind |-> "header", auto |-> TRUE]
Dbs == {None, <<Blank>>, <<OldHeader, OldRow>>}

MCInitialDirs ==
  ((SingleDirs \cup WithTemplates(FitTemplates)) \X Dbs) \cup (WithTemplates(Templates) \X {None})

Command(list, temp, chain, onlyInput, global, out, runlist, head, new) ==
  [list |-> list, temp |-> temp, chain |-> chain, onlyInput |-> onlyInput, global |-> global,
   out |-> out, runlist |-> runlist, header |-> head, new |-> new]

Up == <<9998, 9999, 10000>>
Down == <<9999, 9998>>
MCOptions ==
  {Command(Up, 9998, TRUE, FALSE, "no", TRUE, TRUE, "auto", FALSE),
   Command(Up, 9999, FALSE, FALSE, "no", TRUE, FALSE, "auto", TRUE),
   Command(Down, 9999, TRUE, FALSE, "no", TRUE, FALSE, "noheader", FALSE),
   Command(Down, 9998, TRUE, TRUE, "no", FALSE, FALSE, "auto", FALSE),
   Command(Down, -1, FALSE, FALSE, "no", TRUE, FALSE, "header", FALSE),
   Command(Up, 0, TRUE, FALSE, "no", TRUE, TRUE, "auto", FALSE),
   Command(<<12, 14>>, 13, TRUE, TRUE, "global", FALSE, FALSE, "auto", FALSE),
   Command(<<13, 12>>, 13, TRUE, TRUE, "global", FALSE, FALSE, "auto", FALSE),
   Command(<<23, 22>>, 23, TRUE, FALSE, "global+", TRUE, TRUE, "auto", FALSE),
   Command(<<22, 23>>, 23, TRUE, FALSE, "global+!", TRUE, FALSE, "auto", FALSE),
   Command(<<22, 23>>, -1, FALSE, FALSE, "global", TRUE, FALSE, "auto", TRUE),
   Command(<<22, 10000>>, 23, TRUE, FALSE, "global", TRUE, FALSE, "auto", FALSE)}
=============================================================================
