----------------------------- MODULE DisambGraph -----------------------------
(***************************************************************************)
(* The subgraph of a context (disambGraph.cc): build_dgraph_bfs with a     *)
(* breadth first search from every sense and the shortest paths to those   *)
(* of later words, build_dgraph_dfs with a depth first search that ends at *)
(* a depth (dfsa.h), and build_dgraph_dfs_nocosenses, which drops the      *)
(* edges between senses of one word.                                       *)
(***************************************************************************)
EXTENDS KbSearch

CONSTANTS Contexts, \* sequences of words, which are sequences of vertices
          Depths,   \* values of --dgraph_maxdepth
          Unit      \* weights are multiples of 1 / Unit

ASSUME DisambGraphAssumption ==
  /\ Contexts \subseteq Seq(Seq(Vertices))
  /\ \A c \in Contexts : \A i \in DOMAIN c : IsInjective(c[i])
  /\ Depths \subseteq Nat \ {0}
  /\ Unit \in Nat /\ \A n \in 1 .. Cardinality(Vertices) : Unit % n = 0

VARIABLES
  words, method, maxDepth,
  word, sense, \* position of the loops of build_dgraph_bfs
  sources,     \* vertices from which build_dgraph_dfs has yet to search
  stack,       \* of the depth first search: a vertex and its edges to be examined
  depth,       \* m_d of the adaptor, which all searches share
  found,       \* m_E, the edges of paths to senses
  dg           \* the DisambGraph: V and the weights of its undirected edges

dgVars  == <<words, method, maxDepth, word, sense, sources, stack, depth, found, dg>>
allVars == <<phase, kbVars, dgVars>>

Senses == UNION {ToSet(words[i]) : i \in DOMAIN words}

DgInit ==
  /\ KbInit
  /\ phase \in {"prompt", "context"}
  /\ IF phase = "context" THEN words \in Contexts /\ method \in {"bfs", "dfs", "nocosenses"}
                       ELSE words = <<>> /\ method = "bfs"
  /\ IF method = "bfs" THEN maxDepth = 1 ELSE maxDepth \in Depths
  /\ word = 1 /\ sense = 1
  /\ sources = SetToSeq(Senses)
  /\ stack = <<>> /\ depth = 0 /\ found = {}
  /\ dg = [V |-> {}, w |-> <<>>]

-----------------------------------------------------------------------------
(* add_dgraph_vertex, add_dgraph_edge.                                     *)

AddEdges(d, es, x) ==
  [V |-> d.V \cup UNION es,
   w |-> [e \in DOMAIN d.w \cup es |->
            (IF e \in DOMAIN d.w THEN d.w[e] ELSE 0) + (IF e \in es THEN x ELSE 0)]]

-----------------------------------------------------------------------------
(* Shortest paths between the senses of different words.                   *)

\* Mutant: the senses of the word itself are among the targets.
LaterAndOwn == FlattenSeq(SubSeq(words, word, Len(words)))

Later == FlattenSeq(SubSeq(words, word + 1, Len(words)))

NextSource ==
  /\ phase = "context" /\ method = "bfs"
  /\ word <= Len(words) /\ sense <= Len(words[word])
  /\ LET src == words[word][sense] IN
       /\ Begin(src)
       /\ cmd' = [op |-> "dgraph", src |-> src, asked |-> ToSet(Later), targets |-> Later,
                  limit |-> 0]
       /\ dg' = [dg EXCEPT !.V = @ \cup {src}]
  /\ UNCHANGED <<graph, sub, at, out>>
  /\ UNCHANGED <<words, method, maxDepth, word, sense, sources, stack, depth, found>>

NextWord ==
  /\ phase = "context" /\ method = "bfs"
  /\ word <= Len(words) /\ sense > Len(words[word])
  /\ word' = word + 1 /\ sense' = 1
  /\ UNCHANGED <<phase, kbVars, words, method, maxDepth, sources, stack, depth, found, dg>>

\* The path to a vertex by the parents, from its end.
Up(t) == LET f[k \in 0 .. Cardinality(Vertices)] == IF k = 0 THEN t ELSE parent[f[k - 1]] IN f
Steps(t) == Min({k \in 0 .. Cardinality(Vertices) : parent[Up(t)[k]] = Up(t)[k]})

\* fill_graph with a path. Its weight is one over the number of its vertices, for each edge.
FillPath ==
  /\ Searched /\ cmd.op = "dgraph" /\ cmd.targets # <<>>
  /\ LET up == Up(Head(cmd.targets))
         n  == Steps(Head(cmd.targets))
     IN dg' = IF up[n] # cmd.src THEN dg
              ELSE AddEdges(dg, {{up[k], up[k + 1]} : k \in 0 .. n - 1}, Unit \div (n + 1))
  /\ cmd' = [cmd EXCEPT !.targets = Tail(@)]
  /\ UNCHANGED <<phase, graph, searchVars, sub, at, out>>
  /\ UNCHANGED <<words, method, maxDepth, word, sense, sources, stack, depth, found>>

NextSense ==
  /\ Searched /\ cmd.op = "dgraph" /\ cmd.targets = <<>>
  /\ sense' = sense + 1
  /\ phase' = "context"
  /\ UNCHANGED <<kbVars, words, method, maxDepth, word, sources, stack, depth, found, dg>>

BuiltBfs ==
  /\ phase = "context" /\ method = "bfs" /\ word > Len(words)
  /\ phase' = "built"
  /\ UNCHANGED <<kbVars, dgVars>>

-----------------------------------------------------------------------------
(* Depth first search with a depth.                                        *)

\* Mutant: one edge too many.
OutEdgesDeep(v, d) == IF d > maxDepth THEN <<>> ELSE graph[v]

\* out_edges of the adaptor: none when m_d has reached the limit.
OutEdges(v, d) == IF d >= maxDepth THEN <<>> ELSE graph[v]

StartDfs ==
  /\ phase = "context" /\ method # "bfs" /\ sources # <<>>
  /\ LET src == Head(sources) IN
       /\ stack' = <<[u |-> src, rest |-> OutEdges(src, depth)]>>
       /\ seen' = {src}
  /\ sources' = Tail(sources)
  /\ found' = IF method = "dfs" THEN {} ELSE found
  /\ phase' = "dfs"
  /\ UNCHANGED <<graph, cmd, queue, rest, parent, sub, at, out>>
  /\ UNCHANGED <<words, method, maxDepth, word, sense, depth, dg>>

Top == Last(stack)
PathSoFar == {<<stack[i].u, stack[i + 1].u>> : i \in 1 .. Len(stack) - 1}

\* tree_edge and discover_vertex: a sense adds the path so far.
DfsTreeEdge ==
  /\ phase = "dfs" /\ stack # <<>> /\ Top.rest # <<>>
  /\ LET v == Head(Top.rest) IN
       /\ v \notin seen
       /\ seen' = seen \cup {v}
       /\ depth' = depth + 1
       /\ found' = IF v \in Senses THEN found \cup PathSoFar \cup {<<Top.u, v>>} ELSE found
       /\ stack' = Append([stack EXCEPT ![Len(stack)].rest = Tail(@)],
                          [u |-> v, rest |-> OutEdges(v, depth + 1)])
  /\ UNCHANGED <<phase, graph, cmd, queue, rest, parent, sub, at, out>>
  /\ UNCHANGED <<words, method, maxDepth, word, sense, sources, dg>>

DfsOtherEdge ==
  /\ phase = "dfs" /\ stack # <<>> /\ Top.rest # <<>>
  /\ Head(Top.rest) \in seen
  /\ stack' = [stack EXCEPT ![Len(stack)].rest = Tail(@)]
  /\ UNCHANGED <<phase, kbVars, words, method, maxDepth, word, sense, sources, depth, found, dg>>

\* finish_vertex: the depth goes back except at the source.
DfsFinish ==
  /\ phase = "dfs" /\ stack # <<>> /\ Top.rest = <<>>
  /\ stack' = Front(stack)
  /\ depth' = IF Len(stack) = 1 THEN depth ELSE depth - 1
  /\ UNCHANGED <<phase, kbVars, words, method, maxDepth, word, sense, sources, found, dg>>

\* fill_graph with a set of edges, which become undirected: an edge found in both
\* directions weighs two.
FillEdges(d, E) ==
  LET pairs(f) == {{e[1], e[2]} : e \in f}
      forth == {e \in E : e[1] # e[2]}
      twice == {e \in forth : <<e[2], e[1]>> \in forth}
  IN AddEdges(AddEdges(d, pairs(forth), Unit), pairs(twice), Unit)

DfsDone ==
  /\ phase = "dfs" /\ stack = <<>>
  /\ dg' = IF method = "dfs" THEN FillEdges(dg, found) ELSE dg
  /\ phase' = "context"
  /\ UNCHANGED <<kbVars, words, method, maxDepth, word, sense, sources, stack, depth, found>>

\* Two senses of one word.
CoSenses(u, v) == \E i \in DOMAIN words : {u, v} \subseteq ToSet(words[i])

BuiltDfs ==
  /\ phase = "context" /\ method # "bfs" /\ sources = <<>>
  /\ dg' = IF method = "dfs" THEN dg
           ELSE FillEdges(dg, {e \in found : ~ CoSenses(e[1], e[2])})
  /\ phase' = "built"
  /\ UNCHANGED <<kbVars, words, method, maxDepth, word, sense, sources, stack, depth, found>>

DgStep ==
  \/ NextSource \/ NextWord \/ FillPath \/ NextSense \/ BuiltBfs
  \/ StartDfs \/ DfsTreeEdge \/ DfsOtherEdge \/ DfsFinish \/ DfsDone \/ BuiltDfs

DgNext == DgStep \/ (KbNext /\ UNCHANGED dgVars)

Fairness == WF_allVars(DgStep) /\ WF_allVars(Step /\ UNCHANGED dgVars)

DgSpec == DgInit /\ [][DgNext]_allVars /\ Fairness

-----------------------------------------------------------------------------
(* Properties.                                                             *)

\* The vertices that are connected with one in the subgraph.
Joined(v) ==
  LET f[k \in 0 .. Cardinality(Vertices)] ==
        IF k = 0 THEN {v}
        ELSE LET nearer == f[k - 1] IN
             nearer \cup UNION {e \in DOMAIN dg.w : e \cap nearer # {}}
  IN f

\* The senses of a word before another and of that one.
SensePairs ==
  UNION {ToSet(words[p[1]]) \X ToSet(words[p[2]]) :
           p \in {q \in (DOMAIN words) \X (DOMAIN words) : q[1] < q[2]}}

\* Every path between senses counts, with a weight that is shared out along it.
BfsWeights ==
  LET ends == {q \in (DOMAIN words) \X Vertices \X (DOMAIN words) \X Vertices :
                 /\ q[1] < q[3] /\ q[2] \in ToSet(words[q[1]]) /\ q[4] \in ToSet(words[q[3]])
                 /\ Reaches(q[2], q[4])}
  IN MapThenSumSet(LAMBDA e : dg.w[e], DOMAIN dg.w) =
     MapThenSumSet(LAMBDA q : LET n == Dist(q[2], q[4]) IN n * (Unit \div (n + 1)), ends)

\* The breadth first subgraph has every sense, joins two senses of different words as
\* closely as the knowledge base does from the earlier to the later word, has no edge
\* that is not on such a path, and weighs what these paths weigh together.
BfsJoinsSenses ==
  phase = "built" /\ method = "bfs" =>
    /\ Senses \subseteq dg.V
    /\ \A p \in SensePairs :
         Reaches(p[1], p[2]) => p[2] \in Joined(p[1])[Dist(p[1], p[2])]
    /\ \A e \in DOMAIN dg.w : \E p \in SensePairs, u, v \in e :
         /\ Edge(u, v) /\ Reaches(p[1], u) /\ Reaches(v, p[2])
         /\ Dist(p[1], u) + 1 + Dist(v, p[2]) = Dist(p[1], p[2])
    /\ BfsWeights

\* The one depth that all searches share is that of the path, and back at zero for the
\* next source.
DepthIsThatOfPath ==
  depth = IF phase = "dfs" /\ stack # <<>> THEN Len(stack) - 1 ELSE 0

\* Every edge is on a way from one sense to another one of at most maxDepth edges.
WithinDepth ==
  \A e \in DOMAIN dg.w : \E s, t \in Senses, u, v \in e :
    /\ s # t /\ Edge(u, v) /\ Reaches(s, u) /\ Reaches(v, t)
    /\ Dist(s, u) + 1 + Dist(v, t) <= maxDepth

\* The depth first subgraphs keep to the depth; none of their vertices is there for one
\* sense only, also after the edges between senses of one word have been dropped, which
\* is what Ranking assumes of them; and a depth that no path can exceed hides no sense
\* that another one reaches.
DfsJoinsSenses ==
  /\ DepthIsThatOfPath
  /\ phase = "built" /\ method # "bfs" =>
       /\ WithinDepth
       /\ \A v \in dg.V : Cardinality(Joined(v)[Cardinality(Vertices)] \cap Senses) >= 2
       /\ method = "nocosenses" =>
            \A e \in DOMAIN dg.w : \A u, v \in e : u # v => ~ CoSenses(u, v)
       /\ (method = "dfs" /\ maxDepth >= Cardinality(Vertices)) =>
            \A s, t \in Senses : s # t /\ Reaches(s, t) => {s, t} \subseteq dg.V

\* A query about a path ends, if there is a path, and every construction of a subgraph
\* does.
QueriesEnd ==
  /\ (phase = "search" /\ cmd.op = "show" /\ Reaches(cmd.src, cmd.targets[1])) ~> phase = "prompt"
  /\ (phase = "search" /\ cmd.op \in {"paths", "subgraph"}) ~> phase = "exit"
  /\ phase = "context" ~> phase = "built"

=============================================================================
