--------------------------------- MODULE Walk ---------------------------------
(***************************************************************************)
(* Contexts from random walks (walkandprint.cc, ukb_walkandprint.cc): the  *)
(* samplers of start vertices, the walkers that use them, one context of a *)
(* walk, and the draws of its next vertex and of the word that it prints.  *)
(*                                                                         *)
(* A draw takes any outcome that the random number can lead to: with       *)
(* weights w[1], .., w[n] and a number in [0, total), outcome k owns what  *)
(* lies between the sums before and with w[k], and the last one the rest.  *)
(* Totals are kept by vertex; they are those of a graph that never changes.*)
(* Edges weigh one: ukb_walkandprint has no option for their weights.      *)
(***************************************************************************)
EXTENDS WDict

CONSTANTS Rows,        \* function from concepts to the targets of their edges, in order
          RankVectors, \* static ranks, functions from concepts to parts of a rank of one,
          RankOne,     \* of which there are so many; ranks may add up to less or more
          WalkOptions, \* mode, n, buckets, gamma, length, emit, indeg, multi, endless
          LangOf,      \* function from headwords to languages, or None
          None,
          MaxSteps     \* bound: vertices of a context

N == Len(Names)

ASSUME WalkAssumption ==
  /\ DOMAIN Rows = Concepts /\ N > 0
  /\ \A c \in Concepts : Rows[c] \in Seq(Concepts) /\ IsInjective(Rows[c])
  /\ \A s \in Setups : s.opt.prog = "walk" =>
       s.opt.smooth \in Nat /\ \A l \in ToSet(s.files.text) : l.cs \in Seq([c : DOMAIN Pos, w : Nat])
  /\ \A o \in WalkOptions : o.buckets \in Nat /\ o.gamma > 0 /\ o.length \in 1 .. MaxSteps
  /\ \A r \in RankVectors : r \in [Concepts -> Nat]
  /\ RankOne \in Nat

VARIABLES
  wo,        \* the options, None before the walk
  ranks,     \* what the sampler is made from
  order,     \* m_idx of the sampler
  intervals, \* of order: left and right, exclusive, and their share of the draws
  i, g,      \* m_i and m_g
  at, steps, \* the vertex of the walk, its number in the context
  token,     \* what was printed at the vertex
  starts     \* history: walks from each vertex, up to one more than gamma

walkVars == <<wo, ranks, order, intervals, i, g, at, steps, token, starts>>
vars     == <<stage, dictVars, walkVars>>

Init ==
  /\ DictInit
  /\ wo = None /\ ranks = None /\ order = <<>> /\ intervals = <<>>
  /\ i = 0 /\ g = 0
  /\ at = None /\ steps = 0 /\ token = None
  /\ starts = [c \in Concepts |-> 0]

-----------------------------------------------------------------------------
(* Draws.                                                                  *)

SumTo(w, k) == FoldLeft(LAMBDA a, x : a + x, 0, SubSeq(w, 1, k))

\* What outcome k owns of [0, total).
Share(w, total, k) ==
  LET low(x) == Min({x, total}) IN
  (IF k = Len(w) THEN total ELSE low(SumTo(w, k))) - low(SumTo(w, k - 1))

Outcomes(w, total) == {k \in DOMAIN w : Share(w, total, k) > 0}

\* select_next_vertex: --indeg prefers vertices with many edges into them.
InDegree(v) == Cardinality({c \in Concepts : v \in ToSet(Rows[c])})
EdgeWeights(v) == [k \in DOMAIN Rows[v] |-> IF wo.indeg THEN InDegree(Rows[v][k]) ELSE 1]

\* Mutant: the first edge counts for all with --indeg too.
EdgeTotalFirst(v) ==
  IF Rows[v] = <<>> THEN 0 ELSE Len(Rows[v]) * EdgeWeights(v)[1]

\* Without --indeg it is the weight of the first edge, once for every edge.
EdgeTotal(v) ==
  IF wo.indeg THEN SumTo(EdgeWeights(v), Len(Rows[v])) ELSE Len(Rows[v])

\* Words by falling weight; get_prob is the part of a weight in the sum of all.
WordSeqs(words) ==
  {s \in SetToSeqs(words) : \A j, k \in DOMAIN s : j < k => s[j].w >= s[k].w}
WordWeights(s) == [k \in DOMAIN s |-> s[k].w]
Sum(s) == SumTo(WordWeights(s), Len(s))

\* emit_word_vertex_mono draws from the number of words, when weights are off, but adds up
\* probabilities.
WordTotal(s) == IF opt.weight THEN Sum(s) ELSE Len(s) * Sum(s)

\* subvec_language: the words of one language, if every word has one.
Selections(words) ==
  LET langs == {LangOf[x.word] : x \in words} IN
  IF ~ wo.multi \/ None \in langs THEN {words}
  ELSE {{x \in words : LangOf[x.word] = l} : l \in langs}

\* The sequences that emit_word_vertex draws a word from, with their totals.
WordDraws(v) ==
  UNION {{<<s, IF wo.multi THEN Sum(s) ELSE WordTotal(s)>> : s \in WordSeqs(words)} :
         words \in Selections(WordsOf(v))}

-----------------------------------------------------------------------------
(* Samplers.                                                               *)

Whole(r) == MapThenSumSet(LAMBDA c : r[c], Concepts)

\* The loop of vsampling_t::init, in which an interval is too heavy with more than one over
\* the number of buckets.  The vertex that makes it so begins the next one, for which it
\* does not count.
InitStep(r, one, B, idx, acc, k) ==
  LET sum == acc.accum + r[idx[k]] IN
  IF Len(acc.iv) = B THEN acc
  ELSE IF sum * B > one
    THEN [iv |-> Append(acc.iv, [left |-> acc.left, right |-> k - 1, share |-> 1]),
          left |-> k - 1, accum |-> 0]
    ELSE [acc EXCEPT !.accum = sum]

Loop(r, one, B, idx) ==
  FoldLeft(LAMBDA acc, k : InitStep(r, one, B, idx, acc, k),
           [iv |-> <<>>, left |-> 0, accum |-> 0], [k \in 1 .. N |-> k]).iv

\* Mutant: the last interval ends where it ended.
BucketsShort(r, one, B, idx) == Loop(r, one, B, idx)

Buckets(r, one, B, idx) ==
  LET iv == Loop(r, one, B, idx) IN [iv EXCEPT ![Len(iv)].right = N]

\* Any order by falling rank.
ByRank(r) ==
  {s \in SetToSeqs(Concepts) : \A j, k \in 1 .. N : j < k => r[s[j]] >= r[s[k]]}

\* Strong components, larger ones first.
Reached(v) ==
  LET f[k \in 0 .. N] ==
        IF k = 0 THEN {v}
        ELSE LET nearer == f[k - 1] IN
             nearer \cup UNION {ToSet(Rows[u]) : u \in nearer}
  IN f[N]
Component(v) == {u \in Reached(v) : v \in Reached(u)}
Components == {Component(v) : v \in Concepts}

ComponentOrders ==
  {s \in SetToSeqs(Components) :
     \A j, k \in DOMAIN s : j < k => Cardinality(s[j]) >= Cardinality(s[k])}

ComponentIntervals(cs) ==
  LET upTo(k) == SumTo([j \in DOMAIN cs |-> Cardinality(cs[j])], k)
  IN [k \in DOMAIN cs |->
        [left |-> upTo(k - 1), right |-> upTo(k), share |-> Cardinality(cs[k])]]

\* Priors are divided by their sum.
WholeRank(mode, r) == IF mode = "prior" THEN Whole(r) ELSE RankOne

WithBuckets(r) ==
  LET one == WholeRank(wo'.mode, r) IN
  /\ ranks' = r
  /\ order' \in ByRank(r)
  /\ IF Loop(r, one, wo'.buckets, order') = <<>>
       THEN stage' = "undefined" /\ intervals' = <<>> \* back() of an empty vector
       ELSE stage' = "pick" /\ intervals' = Buckets(r, one, wo'.buckets, order')

WithoutIntervals ==
  stage' = "pick" /\ ranks' = None /\ order' = Names /\ intervals' = <<>>

\* main: the walker with its sampler.
StartWalks ==
  /\ stage = "ready" /\ opt.prog = "walk"
  /\ wo' \in WalkOptions
  /\ \/ /\ wo'.mode = "static" /\ wo'.buckets > 0
        /\ \E r \in RankVectors : WithBuckets(r)
     \/ /\ wo'.mode = "prior" /\ wo'.buckets > 0
        /\ WithBuckets([c \in Concepts |-> Prior(c)])
     \/ /\ wo'.mode = "components" /\ Cardinality(Components) > 1
        /\ \E cs \in ComponentOrders :
             /\ order' = FlattenSeq([k \in DOMAIN cs |-> SetToSeq(cs[k])])
             /\ intervals' = ComponentIntervals(cs)
        /\ stage' = "pick" /\ ranks' = None
     \/ /\ \/ wo'.mode \in {"deepwalk", "seed"}
           \/ wo'.mode \in {"static", "prior"} /\ wo'.buckets = 0
           \/ wo'.mode = "components" /\ Cardinality(Components) = 1
        /\ WithoutIntervals
  /\ UNCHANGED <<dictVars, i, g, at, steps, token, starts>>

-----------------------------------------------------------------------------
(* Walkers.                                                                *)

Deep == wo.mode = "deepwalk"

Begin(v) ==
  /\ at' = v /\ steps' = 0 /\ token' = None
  /\ stage' = "toss"
  /\ starts' = IF Deep THEN [starts EXCEPT ![v] = Min({@, wo.gamma}) + 1] ELSE starts
  /\ UNCHANGED <<dictVars, wo, ranks, order, intervals, i, g>>

\* Seconds of the entries of the seed word.
SeedItems   == Entries(wo.seed, "#")
SeedWeights == [k \in DOMAIN SeedItems |-> IF opt.weight THEN SeedItems[k].w ELSE 1]
SeedTotal   == SumTo(SeedWeights, Len(SeedItems))

Finished ==
  \/ Deep /\ g >= wo.gamma
  \/ ~ Deep /\ wo.n # 0 /\ i >= wo.n
  \/ wo.mode = "seed" /\ SeedTotal = 0

NextContext ==
  /\ stage = "pick" /\ ~ Finished
  /\ \/ Deep /\ Begin(Names[i + 1])
     \/ /\ wo.mode = "seed"
        /\ \E k \in Outcomes(SeedWeights, SeedTotal) : Begin(SeedItems[k].c)
     \/ /\ wo.mode \notin {"deepwalk", "seed"} /\ intervals = <<>>
        /\ \E v \in Concepts : Begin(v)
     \/ \E b \in DOMAIN intervals, k \in 1 .. N :
          /\ intervals[b].left < k /\ k <= intervals[b].right
          /\ Begin(order[k])

\* The assertion that an interval has vertices.
SampleAborts ==
  /\ stage = "pick" /\ ~ Finished
  /\ \E b \in DOMAIN intervals : intervals[b].left = intervals[b].right
  /\ stage' = "aborted"
  /\ UNCHANGED <<dictVars, walkVars>>

Finish ==
  /\ stage = "pick" /\ Finished
  /\ stage' = "done"
  /\ UNCHANGED <<dictVars, walkVars>>

-----------------------------------------------------------------------------
(* One context.                                                            *)

\* emit_word_vertex: the name of the vertex or one of its words; a vertex without words
\* prints nothing when a word is due.
Emit ==
  /\ stage = "toss"
  /\ IF Deep THEN steps < wo.length ELSE steps < MaxSteps
  /\ \/ wo.emit # "words" /\ token' = at
     \/ /\ wo.emit # "names" /\ WordsOf(at) # {}
        /\ \E d \in WordDraws(at) : \E k \in Outcomes(WordWeights(d[1]), d[2]) : token' = d[1][k].word
     \/ wo.emit # "names" /\ WordsOf(at) = {} /\ token' = None
  /\ steps' = steps + 1
  /\ stage' = "move"
  /\ UNCHANGED <<dictVars, wo, ranks, order, intervals, i, g, at, starts>>

Move ==
  /\ stage = "move"
  /\ \E k \in Outcomes(EdgeWeights(at), EdgeTotal(at)) : at' = Rows[at][k]
  /\ stage' = "toss"
  /\ UNCHANGED <<dictVars, wo, ranks, order, intervals, i, g, steps, token, starts>>

\* Mutant: the last vertex of a round is left out.
CountShort ==
  IF Deep THEN IF i + 1 >= N - 1 THEN i' = 0 /\ g' = g + 1 ELSE i' = i + 1 /\ g' = g
  ELSE i' = (IF wo.n = 0 THEN 0 ELSE i + 1) /\ g' = g

\* The number of contexts, or of rounds over all vertices; the code's floats agree with
\* numbers below 2^24.
CountUp ==
  IF Deep THEN IF i + 1 >= N THEN i' = 0 /\ g' = g + 1 ELSE i' = i + 1 /\ g' = g
  ELSE i' = (IF wo.n = 0 THEN 0 ELSE i + 1) /\ g' = g

\* A dangling vertex, the length of a deep walk, or the toss against the damping factor,
\* which a factor of one never loses.
EndContext ==
  /\ \/ stage = "move" /\ EdgeTotal(at) = 0
     \/ stage = "toss" /\ Deep /\ steps = wo.length
     \/ stage = "toss" /\ ~ Deep /\ ~ wo.endless
  /\ CountUp
  /\ stage' = "pick"
  /\ at' = None /\ steps' = 0 /\ token' = None
  /\ UNCHANGED <<dictVars, wo, ranks, order, intervals, starts>>

WalkStep ==
  StartWalks \/ NextContext \/ SampleAborts \/ Finish \/ Emit \/ Move \/ EndContext

Next == (DictNext /\ UNCHANGED walkVars) \/ WalkStep

Spec == Init /\ [][Next]_vars /\ WF_vars(WalkStep)

-----------------------------------------------------------------------------
(* Properties.                                                             *)

\* The intervals of a sampler divide all vertices among them, the last one takes what is
\* left; those of the strong components are the components, drawn by their sizes.
\* "assert(m > 0)" of a draw fails only if one vertex has more than one over the number of
\* buckets, and back() of the intervals is undefined exactly when all ranks together have
\* no more than that: always for one bucket over priors, and for static ranks, which need
\* not add up to one, with more buckets too.
SamplerDivides ==
  /\ stage = "pick" /\ intervals # <<>> =>
       LET n == Len(intervals) IN
       /\ ToSet(order) = Concepts /\ Len(order) = N
       /\ intervals[1].left = 0 /\ intervals[n].right = N
       /\ \A k \in 1 .. n - 1 : intervals[k].right = intervals[k + 1].left
       /\ wo.mode = "components" =>
            {<<ToSet(SubSeq(order, iv.left + 1, iv.right)), iv.share>> : iv \in ToSet(intervals)}
            = {<<C, Cardinality(C)>> : C \in Components}
  /\ stage = "aborted" => \E c \in Concepts : ranks[c] * wo.buckets > WholeRank(wo.mode, ranks)
  /\ ranks # None => (stage = "undefined" <=> Whole(ranks) * wo.buckets <= WholeRank(wo.mode, ranks))

\* What a walk prints at a vertex is its name, or a word that a line of the dictionary
\* links to it and that has not been dropped.
TokensOwn ==
  stage = "move" /\ token # None =>
    \/ token = at /\ wo.emit # "words"
    \/ wo.emit # "names" /\ \E m \in Meant(files.text, token) : m.c = at

\* Edges, and words if weights are used or the dictionary has several languages, are drawn
\* in proportion to their weights; without weights the last word has the wrong share.
DrawsByWeight ==
  /\ TokensOwn
  /\ stage = "toss" =>
       LET proportional(x, total) ==
             \A k \in DOMAIN x : Share(x, total, k) * SumTo(x, Len(x)) = x[k] * total
       IN /\ proportional(EdgeWeights(at), EdgeTotal(at))
          /\ opt.weight \/ wo.multi =>
               \A d \in WordDraws(at) : proportional(WordWeights(d[1]), d[2])

\* DeepWalk ends, and has then begun gamma walks at every vertex.
DeepWalkEnds ==
  (stage = "pick" /\ wo.mode = "deepwalk") ~>
    (stage = "done" /\ \A c \in Concepts : starts[c] = wo.gamma)

=============================================================================
