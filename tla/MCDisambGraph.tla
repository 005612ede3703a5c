--------------------------- MODULE MCDisambGraph ----------------------------
(* Graphs and contexts for DisambGraph. *)
EXTENDS DisambGraph, TLC

MCVertices == {"a", "b", "c", "d"}

\* All graphs of three vertices without loops; "d" has no edges.
Rows(v) == {SetToSeq(s) : s \in SUBSET ({"a", "b", "c"} \ {v})}
Small == {("a" :> f.a @@ "b" :> f.b @@ "c" :> f.c @@ "d" :> <<>>) :
            f \in [a : Rows("a"), b : Rows("b"), c : Rows("c")]}

Graph(a, b, c, d) == ("a" :> a @@ "b" :> b @@ "c" :> c @@ "d" :> d)

\* Four vertices: a chain with a short cut, a diamond, a circle, an undirected chain, an
\* undirected star, and a loop.
Large ==
  {Graph(<<"b", "c">>, <<"c">>, <<"d">>, <<>>),
   Graph(<<"b", "c">>, <<"d">>, <<"d">>, <<"a">>),
   Graph(<<"b">>, <<"c">>, <<"d">>, <<"a">>),
   Graph(<<"b">>, <<"a", "c">>, <<"b", "d">>, <<"c">>),
   Graph(<<"b", "c", "d">>, <<"a">>, <<"a">>, <<"a">>),
   Graph(<<"a", "b">>, <<"b", "d">>, <<>>, <<"c", "a">>)}

MCGraphs == Small \cup Large

MCAsked == {{"b"}, {"a", "c", Unknown}, {"b", "c", "d"}}

MCContexts ==
  {<<>>, <<<<"a", "b">>>>, <<<<"a">>, <<"d">>>>, <<<<"a", "b">>, <<"b", "c">>>>,
   <<<<"a", "d">>, <<"c">>>>, <<<<"a">>, <<"c", "d">>, <<"b">>>>}

=============================================================================
