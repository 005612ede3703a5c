----------------------------- MODULE MCPageRank -----------------------------
(* Graphs of three vertices for PageRank. *)
EXTENDS PageRank, TLC

MCVertices == {"a", "b", "c"}
MCUnit     == 6 * 12 * 12 * 12 * 12 * 12 * 12

\* No loops at a vertex; weights of which no two add up to more than three.
Weights(g, v) == SumFunction([u \in MCVertices |-> g[v, u]])

MCGraphs ==
  LET Pairs == {p \in MCVertices \X MCVertices : p[1] # p[2]}
      Extend(f) == [p \in MCVertices \X MCVertices |-> IF p \in Pairs THEN f[p] ELSE 0]
      All == {Extend(f) : f \in [Pairs -> {0, 1}]}
      Heavy == {[g EXCEPT !["a", "b"] = 2, !["b", "a"] = 2 * g["b", "a"]] : g \in All}
  IN All \cup {g \in Heavy : \A v \in MCVertices : Weights(g, v) <= 3}

\* One vertex, two vertices.
MCPpvs == {("a" :> 6 @@ "b" :> 0 @@ "c" :> 0), ("a" :> 0 @@ "b" :> 3 @@ "c" :> 3)}

MCDefaults == [iter |-> 3, thr |-> MCUnit \div 4]
MCThrs == {0, MCUnit \div 2, 2 * MCUnit}

=============================================================================
