----------------------------- MODULE MCRunBins -----------------------------
(***************************************************************************)
(* Runs of one or two detectors (per side), with and without an addrun,    *)
(* histograms of 40 bins, t0's around bin 20 (and one in bin 5).           *)
(***************************************************************************)
EXTENDS RunBins

Header(kind, r, d) ==
  CASE kind = "all" -> 19 + r + d
    [] kind = "none" -> 0
    [] kind = "second" -> IF d % 2 = 0 THEN 20 + r ELSE 0

Setup(single, detectors, addRuns, kind, packing, isis, known, period) ==
  [single |-> single, detectors |-> detectors, addRuns |-> addRuns,
   header |-> [r \in 0..addRuns |-> [d \in 1..detectors |-> Header(kind, r, d)]],
   peak |-> [r \in 0..addRuns |-> [d \in 1..detectors |-> 17 + 2*r + 3*d]],
   packing |-> packing, isis |-> isis, bkgKnown |-> known, period |-> period]

MCSetups ==
  {Setup(single, IF single THEN n[1] ELSE 2*n[1], n[2], kind, 1, FALSE, FALSE, 0) :
     single \in BOOLEAN, n \in {<<1, 2>>, <<2, 1>>}, kind \in {"all", "none", "second"}}
  \cup {Setup(single, 2, 1, "all", 1, TRUE, FALSE, 0) : single \in BOOLEAN}
  \cup {Setup(single, 2, 0, "all", 3, FALSE, known, period) :
          single, known \in BOOLEAN, period \in {0, 4}}

Opt(word, choices) == {<<>>} \cup {<<Line(word, n)>> : n \in choices}

T0s(s) == [d \in 1..s.detectors |-> 18 + d]
AddT0s(s) == FlattenSeq([k \in 1..s.addRuns |-> <<Line("addt0", [d \in 1..s.detectors |-> 20 + 2*k - d])>>])

TwoOrFour(s, n, m) == IF s.single THEN n ELSE n \o m

Datas(s) ==
  {TwoOrFour(s, <<23, 35>>, <<24, 36>>), TwoOrFour(s, <<35, 24>>, <<22, 38>>),
   TwoOrFour(s, <<40, 45>>, <<25, 50>>), <<22, 36>>}

Fits == {<<Line("fit", <<2, 9>>)>>, <<Line("fit", <<-1, 50>>)>>,
         <<Line("fit fgb", <<5, 3>>)>>, <<Line("fit fgb", <<None, 2>>)>>,
         <<Line("fit fgb", <<4, None>>)>>, <<Line("fit fgb", <<4, 0>>)>>}

GlobalFit(s) == IF s.single THEN Line("fit fgb", <<2, 1>>) ELSE Line("fit", <<1, 8>>)

RunLines(s) ==
  {t0 \o data \o fit : t0 \in Opt("t0", {T0s(s)}), data \in Opt("data", Datas(s)), fit \in Fits}
  \cup {<<Line("t0", T0s(s))>> \o AddT0s(s) \o fit : fit \in {<<>>, <<Line("fit", <<2, 9>>)>>}}
  \cup {AddT0s(s) \o <<Line("fit", <<2, 9>>), Line("data", <<24, 36>>)>>,
        <<Line("fit", <<2, 9>>)>> \o AddT0s(s),
        <<Line("t0", T0s(s)), Line("fit", <<2, 9>>)>> \o AddT0s(s),
        <<Line("background", TwoOrFour(s, <<4, 14>>, <<16, 5>>)), Line("fit", <<2, 9>>)>>,
        <<Line("background", <<8, 8>>)>>}

GlobalLines(s) ==
  {<<GlobalFit(s)>>,
   <<Line("t0", T0s(s)), GlobalFit(s)>>,
   <<Line("t0", <<19>>), GlobalFit(s)>>,
   <<Line("data", <<24, 38, 25>>), GlobalFit(s)>>,
   <<Line("data", <<24, 38, 0, 30>>), GlobalFit(s)>>,
   <<Line("t0", [d \in 1..s.detectors |-> 5]), Line("data", TwoOrFour(s, <<24, 38>>, <<26, 37>>)), GlobalFit(s)>>}

MCOffsets == {None, 0, 4}

MCUserFiles ==
  [s \in Setups |-> [run : RunLines(s), global : GlobalLines(s)]]
=============================================================================
