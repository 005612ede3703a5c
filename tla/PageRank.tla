------------------------------ MODULE PageRank ------------------------------
(***************************************************************************)
(* do_pageRank (prank.h) with the functions that call it for the knowledge *)
(* base (Kb::pageRank_ppv) and for the subgraph of a context               *)
(* (DisambGraph::pageRank_ppv): the iteration that writes two vectors in   *)
(* turn, stops by a number of iterations or by the residual, and hands     *)
(* back the first vector.                                                  *)
(*                                                                         *)
(* Ranks are integers, multiples of 1 / Unit.  Unit is a multiple of all   *)
(* denominators that come up in the bounded number of iterations           *)
(* (UnitAssumption), so that no division rounds: what the float arithmetic *)
(* of the program adds to the result is left out.                          *)
(***************************************************************************)
EXTENDS Integers, FiniteSets, Functions

CONSTANTS Vertices,   \* of the graph
          Graphs,     \* functions from pairs of vertices to weights, 0 for no edge
          Ppvs,       \* personalisation vectors, in multiples of 1 / PpvUnit
          PpvUnit,
          Unit,
          Denominator, \* a multiple of those that come up in one iteration
          DampNum, DampDen, \* glVars::prank::damping
          IterOptions,      \* values of --prank_iter
          ThrOptions,       \* values of --prank_threshold, in multiples of 1 / Unit
          Defaults,         \* num_iterations and threshold of globalVars.cc
          MaxInt,           \* numeric_limits<int>::max()
          Calls             \* bound: calls with one vector

ASSUME PageRankAssumption ==
  /\ IsFiniteSet(Vertices) /\ Vertices # {}
  /\ Graphs \subseteq [Vertices \X Vertices -> Nat]
  /\ Ppvs \subseteq [Vertices -> 0 .. PpvUnit]
  /\ \A p \in Ppvs : SumFunction(p) <= PpvUnit
  /\ PpvUnit \in Nat \ {0} /\ Unit \in Nat \ {0} /\ MaxInt \in Nat \ {0} /\ Calls \in Nat \ {0}
  /\ DampNum \in 1 .. DampDen /\ DampDen \in Nat
  /\ IterOptions \subseteq 0 .. MaxInt /\ ThrOptions \subseteq Nat
  /\ Defaults.iter \in 1 .. MaxInt /\ Defaults.thr \in 0 .. Unit

\* The powers of a number.
Power(b) == LET f[k \in Nat] == IF k = 0 THEN 1 ELSE b * f[k - 1] IN f

\* What the edges out of a vertex may add up to, with weights and without.
OutWeight(g, v) == SumFunction([u \in Vertices |-> g[v, u]])
OutWeights      == {OutWeight(g, v) : g \in Graphs, v \in Vertices}
OutSums         == OutWeights \cup 0 .. Cardinality(Vertices)

\* A vertex may have one over the number of vertices at first; every iteration divides by
\* the damping, by the weights out of a vertex or by the unit of the personalisation.
ASSUME UnitAssumption ==
  /\ Denominator \in Nat \ {0}
  /\ Denominator % (DampDen * PpvUnit) = 0
  /\ \A n \in OutSums \ {0} : Denominator % (DampDen * n) = 0
  /\ \A n \in 1 .. Cardinality(Vertices) : Unit % (n * Power(Denominator)[MaxInt]) = 0

\* The largest int is more iterations than a threshold needs that is to end the loop alone.
ASSUME ThresholdAssumption ==
  \A t \in ThrOptions \ {0} :
    2 * Unit * Power(DampNum)[MaxInt - 1] < t * Power(DampDen)[MaxInt - 1]

\* An option that is not on the command line.
Absent == -1

VARIABLES
  graph,
  weighted, \* glVars::prank::use_weight
  optIter, optThr, \* --prank_iter and --prank_threshold
  conv,     \* num_iterations and threshold
  pc,       \* "options", "idle", "loop", "copy" or "failed"
  calls,    \* calls so far
  ofKb,     \* the call is that of the knowledge base, not that of a subgraph
  ppv,
  rankMap1, rankMap2, \* the caller's vector, and the other one
  toMap2,   \* to_map_2
  left,     \* iterations
  residual

setVars  == <<graph, weighted, optIter, optThr, conv>>
callVars == <<calls, ofKb, ppv>>
prVars == <<setVars, pc, callVars, rankMap1, rankMap2, toMap2, left, residual>>

Zeros == [v \in Vertices |-> 0]

PrInit ==
  /\ graph \in Graphs
  /\ weighted \in BOOLEAN
  /\ optIter \in IterOptions \cup {Absent}
  /\ optThr \in ThrOptions \cup {Absent}
  /\ conv = Defaults
  /\ pc = "options"
  /\ calls = 0
  /\ ofKb = TRUE
  /\ ppv = Zeros
  /\ rankMap1 = Zeros /\ rankMap2 = Zeros
  /\ toMap2 = TRUE
  /\ left = 0
  /\ residual = 0

-----------------------------------------------------------------------------
(* The graph.                                                              *)

IsEdge(u, v) == graph[u, v] # 0
Weight(u, v) == IF weighted THEN graph[u, v] ELSE IF IsEdge(u, v) THEN 1 ELSE 0

\* Mutant: the coefficients count edges.
OutEdges(v) == Cardinality({u \in Vertices : IsEdge(v, u)})

\* init_out_coefs: one over the sum of the weights of the edges out of a vertex, 0 for a
\* dangling and -1 for an isolated one.
Out(v)      == SumFunction([u \in Vertices |-> Weight(v, u)])
Dangling(v) == (\A u \in Vertices : ~ IsEdge(v, u)) /\ \E u \in Vertices : IsEdge(u, v)
Isolated(v) == \A u \in Vertices : ~ IsEdge(v, u) /\ ~ IsEdge(u, v)
Connected   == {v \in Vertices : ~ Isolated(v)}

\* DisambG is undirected.
Undirected == \A u, v \in Vertices : graph[u, v] = graph[v, u]

-----------------------------------------------------------------------------
(* The options (ukb_wsd.cc) and the start of a call.                       *)

\* set_pr_convergence: a threshold above one is taken for zero; a switch that is not on
\* the command line is zero.
Given(o) == IF o = Absent THEN 0 ELSE o
Checked  == IF Given(optThr) > Unit THEN 0 ELSE Given(optThr)

\* Mutant: the default stays for the switch that is not set.
SetConvergenceKeeps ==
  /\ pc = "options"
  /\ conv' = [iter |-> IF Given(optIter) # 0 THEN optIter ELSE Defaults.iter,
              thr  |-> IF Checked # 0 THEN Checked ELSE Defaults.thr]
  /\ pc' = "idle"
  /\ UNCHANGED <<graph, weighted, optIter, optThr, callVars, rankMap1, rankMap2, toMap2, left, residual>>

SetConvergence ==
  /\ pc = "options"
  /\ IF optIter = Absent /\ optThr = Absent
       THEN pc' = "idle" /\ UNCHANGED conv
     ELSE IF Given(optIter) = 0 /\ Checked = 0
       THEN pc' = "failed" /\ UNCHANGED conv
     ELSE /\ pc' = "idle"
          /\ conv' = [iter |-> Given(optIter), thr |-> Checked]
  /\ UNCHANGED <<graph, weighted, optIter, optThr, callVars, rankMap1, rankMap2, toMap2, left, residual>>

InitialRanks(n) == [v \in Vertices |-> Unit \div n]

\* do_pageRank up to its loop, over n vertices.
Start(n, p) ==
  /\ pc = "idle"
  /\ calls < Calls
  /\ calls' = calls + 1
  /\ ppv' = p
  /\ rankMap2' = Zeros
  /\ toMap2' = TRUE
  /\ residual' = 0
  /\ left' = IF conv.iter = 0 THEN MaxInt ELSE conv.iter
  /\ IF n = 0 THEN rankMap1' = Zeros /\ pc' = "idle"
              ELSE rankMap1' = InitialRanks(n) /\ pc' = "loop"
  /\ UNCHANGED setVars

\* Kb::pageRank_ppv counts all vertices.
KbPpv == \E p \in Ppvs : Start(Cardinality(Vertices), p) /\ ofKb' = TRUE

\* static_prank, which keeps its own vector for later calls.
KbStatic ==
  /\ Start(Cardinality(Vertices), [v \in Vertices |-> PpvUnit \div Cardinality(Vertices)])
  /\ ofKb' = TRUE

\* DisambGraph::pageRank_ppv counts those that are not isolated.
DgraphPpv ==
  /\ Undirected
  /\ \E p \in Ppvs : Start(Cardinality(Connected), p)
  /\ ofKb' = FALSE

\* dgraph_static: the quotient of two integers.
DgraphStatic ==
  /\ Undirected
  /\ Start(Cardinality(Connected), [v \in Vertices |-> PpvUnit * (1 \div Cardinality(Vertices))])
  /\ ofKb' = FALSE

-----------------------------------------------------------------------------
(* The iteration.                                                          *)

Damp(x) == (DampNum * x) \div DampDen

\* Mutant: what comes over the edges is not damped.
RankUndamped(from, v) ==
  SumFunction([u \in Vertices |->
    IF IsEdge(u, v) THEN (from[u] * Weight(u, v)) \div Out(u) ELSE 0])
  + ((Unit - Damp(Unit)) * ppv[v]) \div PpvUnit

\* update_pRank, for a vertex that is not isolated.
Rank(from, v) ==
  Damp(SumFunction([u \in Vertices |->
    IF IsEdge(u, v) THEN (from[u] * Weight(u, v)) \div Out(u) ELSE 0]))
  + (((IF Dangling(v) THEN Damp(from[v]) ELSE 0) + Unit - Damp(Unit)) * ppv[v]) \div PpvUnit

Update(from, to) == [v \in Vertices |-> IF Isolated(v) THEN to[v] ELSE Rank(from, v)]

Abs(x) == IF x < 0 THEN - x ELSE x
Distance(f, g) == SumFunction([v \in Connected |-> Abs(f[v] - g[v])])

\* Whether the loop goes on.
GoesOn == left' > 0 /\ ~ residual' < conv.thr

Iterate ==
  /\ pc = "loop"
  /\ left' = left - 1
  /\ LET from == IF toMap2 THEN rankMap1 ELSE rankMap2
         new  == Update(from, IF toMap2 THEN rankMap2 ELSE rankMap1)
     IN /\ IF toMap2 THEN rankMap2' = new /\ UNCHANGED rankMap1
                     ELSE rankMap1' = new /\ UNCHANGED rankMap2
        /\ residual' = Distance(new, from)
  /\ toMap2' = ~ toMap2
  /\ pc' = IF GoesOn THEN "loop" ELSE "copy"
  /\ UNCHANGED <<setVars, callVars>>

\* Mutant: the test is the wrong way round.
CopyInverted ==
  /\ pc = "copy"
  /\ rankMap1' = IF toMap2 THEN rankMap2 ELSE rankMap1
  /\ pc' = "idle"
  /\ UNCHANGED <<setVars, callVars, rankMap2, toMap2, left, residual>>

\* The result is in the vector that was written last.
Copy ==
  /\ pc = "copy"
  /\ rankMap1' = IF toMap2 THEN rankMap1 ELSE rankMap2
  /\ pc' = "idle"
  /\ UNCHANGED <<setVars, callVars, rankMap2, toMap2, left, residual>>

PrNext ==
  \/ SetConvergence
  \/ KbPpv \/ KbStatic \/ DgraphPpv \/ DgraphStatic
  \/ Iterate \/ Copy

PrSpec == PrInit /\ [][PrNext]_prVars

-----------------------------------------------------------------------------
(* Properties.                                                             *)

Limit == IF conv.iter = 0 THEN MaxInt ELSE conv.iter
Made  == Limit - left

\* The vector that was written last, and whether a call has just returned.
Latest   == IF toMap2 THEN rankMap1 ELSE rankMap2
Returned == pc = "idle" /\ calls > 0 /\ (ofKb \/ Connected # {})

\* The bound Unit is large enough: no division rounds.
Exact ==
  pc = "loop" =>
    \A u \in Connected :
      /\ Out(u) # 0 => Latest[u] % (Out(u) * DampDen) = 0
      /\ (Damp(Latest[u]) * ppv[u]) % PpvUnit = 0

\* The power method as it is written down: r' = d P r + (1 - d) v.
Textbook == LET n == IF ofKb THEN Cardinality(Vertices) ELSE Cardinality(Connected) IN
  LET f[k \in Nat] ==
    IF k = 0 THEN [v \in Connected |-> Unit \div n]
    ELSE LET r == f[k - 1] IN
      [v \in Connected |->
        SumFunction([u \in {w \in Connected : IsEdge(w, v)} |->
                      (DampNum * r[u] * Weight(u, v)) \div (DampDen * Out(u))])
        + (Unit * (DampDen - DampNum) * ppv[v]) \div (DampDen * PpvUnit)]
  IN f

NoDangling == \A v \in Vertices : ~ Dangling(v)

\* A call returns the vector of its last iteration, whichever of the two that was written
\* to, and whatever the call before left in them: that of the power method, without
\* dangling vertices.
IsPowerMethod ==
  Returned /\ NoDangling => \A v \in Connected : rankMap1[v] = Textbook[Made][v]

\* The vertices that are not isolated never have more than all of the rank; without
\* isolated and dangling ones, and with a personalisation vector that is normalised,
\* they always have all of it, and none is lost by rounding.
MassKept ==
  /\ Exact
  /\ pc \in {"loop", "copy"} =>
    LET mass == SumFunction([v \in Connected |-> Latest[v]]) IN
    /\ mass <= Unit
    /\ (Connected = Vertices /\ NoDangling /\ SumFunction(ppv) = PpvUnit) => mass = Unit

\* "iterate until L1 is below threshold or max. number of iterations is reached", "if
\* only one switch is set the other switch is set to zero (so it has no effect)" (README).
StopPolicy ==
  (Returned /\ NoDangling) =>
    LET only(o) == o # Absent
        iter == IF only(optIter) THEN optIter ELSE IF only(optThr) THEN 0 ELSE Defaults.iter
        thr  == IF only(optThr) THEN Checked ELSE IF only(optIter) THEN 0 ELSE Defaults.thr
        Below(k) == Distance(Textbook[k], Textbook[k - 1]) < thr
    IN /\ iter # 0 => Made <= iter
       /\ Made = iter \/ Below(Made)
       /\ \A k \in 1 .. Made - 1 : ~ Below(k)

\* The residual shrinks by the damping factor from one iteration to the next, so that a
\* threshold alone ends the loop, long before the counter does.
Contracts ==
  [][pc = "loop" /\ Made > 0 => residual' * DampDen <= residual * DampNum]_prVars

=============================================================================
