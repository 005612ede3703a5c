----------------------------- MODULE MCKbStore ------------------------------
(* Relations, command lines and old graphs for KbStore. *)
EXTENDS KbStore, TLC

CONSTANT MaxLines \* bound: lines of a file

Plain == [comment |-> FALSE, bad |-> FALSE, u |-> "a", v |-> "b", t |-> None, s |-> None,
          w |-> 0, d |-> None]

MCLines ==
  {Plain,
   [Plain EXCEPT !.u = "b", !.v = "a", !.d = "1", !.w = 2, !.t = "hyper"],
   [Plain EXCEPT !.d = "1", !.t = "mero", !.s = "wn"],
   [Plain EXCEPT !.v = "c", !.t = "gloss", !.s = "wn"],
   [Plain EXCEPT !.v = "c", !.d = "bad", !.w = 2],
   [Plain EXCEPT !.v = "a", !.s = "wn"],
   [Plain EXCEPT !.v = None],
   [Plain EXCEPT !.bad = TRUE],
   [Plain EXCEPT !.comment = TRUE]}

MCNames == {"a", "b", "c", "hyper", "mero", "gloss", "wn"}

MCTexts == UNION {[1 .. n -> MCLines] : n \in 0 .. MaxLines}

MCOptions == [directed : BOOLEAN, types : BOOLEAN, swallow : BOOLEAN, filter : BOOLEAN, sources : {{"wn"}}]

\* Vertices 1 and 3 are a word and a concept of one name in some of them.
Edge(u, v, w, types) == [u |-> u, v |-> v, w |-> w, types |-> types]
MCOldGraphs ==
  {[first |-> f, later |-> l, name |-> <<"a", "b", third>>, sources |-> {},
    rtypes |-> IF f = "16" THEN <<"hyper", "mero">> ELSE <<>>,
    edges |-> IF f = "16" THEN <<Edge(1, 2, 1, {0}), Edge(3, 2, 2, {1}), Edge(1, 3, 1, {0, 1})>>
                          ELSE <<Edge(1, 2, 1, {}), Edge(2, 3, 1, {})>>] :
     f \in {"v1", "16", "csr"}, l \in {"v1", "16", "csr"}, third \in {"a", "c"}}

=============================================================================
