------------------------------ MODULE KbSearch -------------------------------
(***************************************************************************)
(* The searches of the knowledge base and the commands of compile_kb that  *)
(* ask for them: Kb::bfs with the parents it leaves, Kb::get_subgraph with *)
(* its visitor that stops at a number of vertices, Kb::get_shortest_paths, *)
(* and the interactive queries.                                            *)
(*                                                                         *)
(* The breadth first search of Boost is part of the model, edge by edge,   *)
(* since the visitors depend on the order of its events.  A graph is its   *)
(* rows: for every vertex the sequence of the targets of its edges.        *)
(***************************************************************************)
EXTENDS Integers, Sequences, SequencesExt, FiniteSets, FiniteSetsExt

CONSTANTS Vertices,
          Graphs,   \* functions from vertices to sequences of vertices
          Limits,   \* numbers of vertices of a subgraph; 100 in the program
          Asked,    \* sets of names that sPath is called with
          Unknown   \* a name that is not in the knowledge base

ASSUME KbSearchAssumption ==
  /\ IsFiniteSet(Vertices) /\ Unknown \notin Vertices
  /\ Graphs \subseteq [Vertices -> Seq(Vertices)]
  /\ Limits \subseteq Nat
  /\ Asked \subseteq SUBSET (Vertices \cup {Unknown})

VARIABLES
  graph,
  phase,      \* "prompt", "search", "exit"; others belong to DisambGraph
  cmd,     \* what is asked: op, src, asked, limit; targets are those of asked to come
  queue,   \* of the breadth first search; its head is being examined
  rest,    \* edges of the head that are still to be examined
  seen,    \* vertices that are not white
  parent,
  sub,     \* subg: V and E, found: m_t of the visitor
  at,      \* the vertex that a walk along the parents has reached
  out      \* what is printed: sequences of vertices

searchVars == <<queue, rest, seen, parent>>
kbVars == <<graph, cmd, searchVars, sub, at, out>>

Edge(u, v) == \E i \in DOMAIN graph[u] : graph[u][i] = v

NoCommand == [op |-> "none", src |-> Unknown, asked |-> {}, targets |-> <<>>, limit |-> 0]
NoSub     == [V |-> <<>>, E |-> [v \in Vertices |-> <<>>], found |-> 0]

KbInit ==
  /\ graph \in Graphs
  /\ cmd = NoCommand
  /\ queue = <<>> /\ rest = <<>> /\ seen = {}
  /\ parent = [v \in Vertices |-> v]
  /\ sub = NoSub
  /\ at = Unknown
  /\ out = <<>>

-----------------------------------------------------------------------------
(* breadth_first_search.                                                   *)

\* Mutant: parents of the search before stay.
BeginStale(src) ==
  /\ queue' = <<src>>
  /\ rest' = graph[src]
  /\ seen' = {src}
  /\ parent' = parent
  /\ phase' = "search"

\* kb_bfs_init makes every vertex its own parent.
Begin(src) ==
  /\ queue' = <<src>>
  /\ rest' = graph[src]
  /\ seen' = {src}
  /\ parent' = [v \in Vertices |-> v]
  /\ phase' = "search"

Examining == phase = "search" /\ queue # <<>> /\ rest # <<>>

\* kb_bfs_pred, for the first edge that reaches a vertex.
Discover(u, v) ==
  /\ v \notin seen
  /\ seen' = seen \cup {v}
  /\ parent' = [parent EXCEPT ![v] = u]
  /\ queue' = Append(queue, v)

ExamineEdge ==
  /\ Examining /\ cmd.op # "subgraph"
  /\ LET v == Head(rest) IN
       \/ Discover(Head(queue), v)
       \/ v \in seen /\ UNCHANGED <<seen, parent, queue>>
  /\ rest' = Tail(rest)
  /\ UNCHANGED <<graph, phase, cmd, sub, at, out>>

NextVertex ==
  /\ phase = "search" /\ queue # <<>> /\ rest = <<>>
  /\ queue' = Tail(queue)
  /\ rest' = IF Len(queue) > 1 THEN graph[queue[2]] ELSE <<>>
  /\ UNCHANGED <<graph, phase, cmd, seen, parent, sub, at, out>>

Searched == phase = "search" /\ queue = <<>>

-----------------------------------------------------------------------------
(* bfs_subg_visitor.                                                       *)

Stored(v) == v \in ToSet(sub.V)

\* Mutant: the opposite edge is not looked for.
AddTreeEdgeOneWay(s, u, v) ==
  [s EXCEPT !.V = Append(@, v), !.E[u] = Append(@, v), !.found = @ + 1]

\* add_v and add_e of a tree edge, with the opposite edge if the graph has it.
AddTreeEdge(s, u, v) ==
  [s EXCEPT !.V = Append(@, v), !.E[u] = Append(@, v), !.found = @ + 1,
            !.E[v] = IF Edge(v, u) THEN Append(@, u) ELSE @]

TreeEdge ==
  /\ Examining /\ cmd.op = "subgraph"
  /\ sub.found < cmd.limit
  /\ LET u == Head(queue)
         v == Head(rest)
     IN Discover(u, v) /\ sub' = AddTreeEdge(sub, u, v)
  /\ rest' = Tail(rest)
  /\ UNCHANGED <<graph, phase, cmd, at, out>>

\* discover_vertex throws when the limit is reached; no more edges are examined.
Terminate ==
  /\ Examining /\ cmd.op = "subgraph"
  /\ sub.found = cmd.limit /\ Head(rest) \notin seen
  /\ queue' = <<>> /\ rest' = <<>>
  /\ UNCHANGED <<graph, phase, cmd, seen, parent, sub, at, out>>

NonTreeEdge ==
  /\ Examining /\ cmd.op = "subgraph"
  /\ LET u == Head(queue)
         v == Head(rest)
     IN /\ v \in seen
        /\ sub' = IF Stored(v) THEN [sub EXCEPT !.E[u] = Append(@, v)] ELSE sub
  /\ rest' = Tail(rest)
  /\ UNCHANGED <<graph, phase, cmd, queue, seen, parent, at, out>>

-----------------------------------------------------------------------------
(* The commands.                                                           *)

\* An interactive program asks again, the others end.
Answered == phase' = IF cmd'.op \in {"show", "neighbours", "inverse"} THEN "prompt" ELSE "exit"

Ask(op, src, targets, limit) ==
  /\ phase = "prompt"
  /\ cmd' = [op |-> op, src |-> src, asked |-> ToSet(targets), targets |-> targets,
             limit |-> limit]
  /\ UNCHANGED graph

Queried == Vertices \cup {Unknown}

\* query, show_neighbours: the rows forward, or backward with "i:".
ShowNeighbours ==
  \E u \in Queried, op \in {"query", "neighbours", "inverse"} :
    /\ Ask(op, u, <<>>, 0)
    /\ out' = IF u = Unknown THEN <<>>
              ELSE IF op = "inverse"
                THEN <<SetToSeq({v \in Vertices : Edge(v, u)})>>
                ELSE <<graph[u]>>
    /\ Answered
    /\ UNCHANGED <<searchVars, sub, at>>

\* show_bfs_path: "p:" with two concepts.
ShowPath ==
  \E u, v \in Queried :
    /\ Ask("show", u, <<v>>, 0)
    /\ out' = <<>>
    /\ IF Unknown \in {u, v} THEN Answered /\ UNCHANGED searchVars ELSE Begin(u)
    /\ UNCHANGED <<sub, at>>

\* sPath: the targets are a set of names, in their order.
SPaths ==
  \E u \in Queried, S \in Asked :
    /\ Ask("paths", u, SetToSeq(S), 0)
    /\ out' = <<>>
    /\ IF u = Unknown THEN Answered /\ UNCHANGED searchVars ELSE Begin(u)
    /\ UNCHANGED <<sub, at>>

SubG ==
  \E u \in Queried, n \in Limits :
    /\ Ask("subgraph", u, <<>>, n)
    /\ out' = <<>>
    /\ IF u = Unknown \/ n = 0
         THEN Answered /\ sub' = NoSub /\ UNCHANGED searchVars
         ELSE Begin(u) /\ sub' = [NoSub EXCEPT !.V = <<u>>, !.found = 1]
    /\ UNCHANGED at

\* "q" or the end of the input.
Quit == phase = "prompt" /\ phase' = "exit" /\ UNCHANGED kbVars

-----------------------------------------------------------------------------
(* The answers.                                                            *)

SubGDone ==
  /\ Searched /\ cmd.op = "subgraph"
  /\ phase' = "exit"
  /\ UNCHANGED kbVars

\* Mutant: the parent of a target is not looked at.
NextTargetAny ==
  /\ Searched /\ cmd.op \in {"show", "paths"} /\ at = Unknown
  /\ IF cmd.targets = <<>> THEN phase' = "exit" /\ UNCHANGED <<cmd, at, out>>
     ELSE LET v == Head(cmd.targets) IN
       IF v = Unknown
         THEN cmd' = [cmd EXCEPT !.targets = Tail(@)] /\ UNCHANGED <<phase, at, out>>
         ELSE at' = v /\ out' = Append(out, <<v>>) /\ UNCHANGED <<phase, cmd>>
  /\ UNCHANGED <<graph, searchVars, sub>>

\* get_shortest_paths, for one target: unknown ones, the source and vertices that are not
\* connected with it are left out.
NextTarget ==
  /\ Searched /\ cmd.op \in {"show", "paths"} /\ at = Unknown
  /\ IF cmd.targets = <<>> THEN phase' = "exit" /\ UNCHANGED <<cmd, at, out>>
     ELSE LET v == Head(cmd.targets) IN
       IF cmd.op = "paths" /\ (v = Unknown \/ parent[v] = v)
         THEN cmd' = [cmd EXCEPT !.targets = Tail(@)] /\ UNCHANGED <<phase, at, out>>
         ELSE at' = v /\ out' = Append(out, <<v>>) /\ UNCHANGED <<phase, cmd>>
  /\ UNCHANGED <<graph, searchVars, sub>>

\* Both loops follow the parents until they meet the source; that of show_bfs_path begins
\* with any vertex that is there, and never ends at one that is its own parent.
WalkUp ==
  /\ Searched /\ at # Unknown /\ at # cmd.src
  /\ at' = parent[at]
  /\ out' = IF at' = at THEN out ELSE [out EXCEPT ![Len(out)] = <<at'>> \o @]
  /\ UNCHANGED <<graph, phase, cmd, searchVars, sub>>

PathDone ==
  /\ Searched /\ at # Unknown /\ at = cmd.src
  /\ at' = Unknown
  /\ cmd' = [cmd EXCEPT !.targets = Tail(@)]
  /\ IF cmd.op = "show"
       THEN /\ phase' = "prompt"
            /\ queue' = <<>> /\ rest' = <<>> /\ seen' = {} /\ parent' = [v \in Vertices |-> v]
       ELSE UNCHANGED <<phase, searchVars>>
  /\ UNCHANGED <<graph, sub, out>>

Step ==
  \/ ExamineEdge \/ NextVertex
  \/ TreeEdge \/ Terminate \/ NonTreeEdge
  \/ SubGDone \/ NextTarget \/ WalkUp \/ PathDone

KbNext == ShowNeighbours \/ ShowPath \/ SPaths \/ SubG \/ Quit \/ Step

-----------------------------------------------------------------------------
(* Reference definitions.                                                  *)

\* The vertices that can be reached over at most k edges.
Within(src) ==
  LET f[k \in 0 .. Cardinality(Vertices)] ==
        IF k = 0 THEN {src}
        ELSE LET nearer == f[k - 1] IN nearer \cup UNION {ToSet(graph[u]) : u \in nearer}
  IN f

Reaches(u, v) == v \in Within(u)[Cardinality(Vertices)]
Dist(u, v)    == LET f == Within(u) IN Min({k \in DOMAIN f : v \in f[k]})

-----------------------------------------------------------------------------
(* Properties.                                                             *)

\* A search that is over has left parents by which every vertex is one edge farther from
\* the source than its parent; "if (parents[v] == v) and (v != u), then u and v are not
\* connected" (kbGraph.cc), and the other way round.
ParentsAreShortest ==
  Searched /\ cmd.op # "subgraph" =>
    \A v \in Vertices \ {cmd.src} :
      /\ parent[v] = v <=> ~ Reaches(cmd.src, v)
      /\ parent[v] # v => /\ Edge(parent[v], v)
                          /\ Dist(cmd.src, v) = Dist(cmd.src, parent[v]) + 1

\* And every path that is printed leads along edges and is a shortest one; when sPaths ends,
\* it has printed exactly one for each vertex that it was asked for and the source reaches,
\* and none for other names: not for unknown ones, the source or what is not connected.
PathsAreShortest ==
  /\ ParentsAreShortest
  /\ (Searched /\ at = cmd.src) \/ (phase = "exit" /\ cmd.op = "paths") =>
       \A i \in DOMAIN out :
         /\ out[i][1] = cmd.src
         /\ Len(out[i]) = Dist(cmd.src, Last(out[i])) + 1
         /\ \A j \in 1 .. Len(out[i]) - 1 : Edge(out[i][j], out[i][j + 1])
  /\ phase = "exit" /\ cmd.op = "paths" =>
       /\ {Last(out[i]) : i \in DOMAIN out} =
            IF cmd.src = Unknown THEN {}
            ELSE {v \in cmd.asked \ {Unknown, cmd.src} : Reaches(cmd.src, v)}
       /\ \A i, j \in DOMAIN out : Last(out[i]) = Last(out[j]) => i = j

\* A subgraph has the vertices nearest to its first one, up to the limit, whenever the
\* visitor throws. Every edge it lists is one of the graph; it lists the edge by which each
\* vertex was found, and the opposite one if there is one; other edges are only promised
\* where the search is not cut short. How often an edge is listed is left open: add_e of a
\* tree edge and of the edge back (kbGraph.cc) may list one twice.
SubgraphIsNearest ==
  phase = "exit" /\ cmd.op = "subgraph" /\ sub.V # <<>> =>
    LET inside == ToSet(sub.V)
        near   == Within(cmd.src)[Cardinality(Vertices)]
    IN /\ Cardinality(inside) = Len(sub.V)
       /\ Len(sub.V) = Min({cmd.limit, Cardinality(near)})
       /\ \A v \in inside, x \in near \ inside : Dist(cmd.src, v) <= Dist(cmd.src, x)
       /\ \A u \in inside : ToSet(sub.E[u]) \subseteq {v \in inside : Edge(u, v)}
       /\ \A v \in inside \ {cmd.src} : v \in ToSet(sub.E[parent[v]])
       /\ \A v \in inside \ {cmd.src} : Edge(v, parent[v]) => parent[v] \in ToSet(sub.E[v])
       /\ inside = near =>
            \A u, v \in inside : Edge(u, v) => v \in ToSet(sub.E[u])

=============================================================================
