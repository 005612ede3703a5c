------------------------------- MODULE MCWalk --------------------------------
(* Dictionaries, graphs and options for Walk. *)
EXTENDS Walk, TLC

E(c, w) == [c |-> c, w |-> w]
L(h, cs) == [word |-> h, cs |-> cs]

MCNames == <<"a-n", "b-v", "c-n">>
MCPosOrder == <<"#", "n", "v">>
MCPos == "a-n" :> "n" @@ "b-v" :> "v" @@ "c-n" :> "n" @@ "x-n" :> "n"

\* "x-n" is not in the knowledge base, weights of zero are dropped unless they are smoothed.
MCLines ==
  {L("h", <<E("c-n", 2), E("b-v", 0), E("a-n", 1)>>),
   L("h", <<E("x-n", 1), E("b-v", 4)>>),
   L("h", <<E("x-n", 1)>>),
   L("k", <<E("a-n", 1), E("a-n", 3)>>),
   L("k", <<E("c-n", 0)>>),
   L("z", <<E("x-n", 1)>>),
   L("k", <<>>)}

Short(n) == UNION {[1 .. m -> MCLines] : m \in 0 .. n}

MCAlts == {<<>>, <<L("k", <<E("b-v", 1)>>), L("h", <<E("x-n", 1)>>)>>}
Base == <<L("h", <<E("c-n", 2), E("a-n", 1)>>), L("k", <<E("a-n", 3)>>)>>

MCSetups ==
  [files : [text : Short(2), alt : MCAlts]
           \cup [text : {Append(Base, l) : l \in MCLines}, alt : Short(1)],
   opt : [prog : {"wsd"}, pos : BOOLEAN, strict : BOOLEAN, weight : {TRUE}, smooth : {0, 1}]
         \cup [prog : {"compile"}, pos : BOOLEAN, strict : {FALSE}, weight : {TRUE}, smooth : {1}]]
  \cup
  [files : [text : {Base, <<L("k", <<E("b-v", 1), E("a-n", 2)>>), L("h", <<E("a-n", 0)>>)>>}, alt : {<<>>}],
   opt : [prog : {"walk"}, pos : {FALSE}, strict : {FALSE}, weight : BOOLEAN, smooth : {0, 1}]]

MCLoaders ==
  {[prog |-> "wsd", pos |-> TRUE, strict |-> FALSE, weight |-> TRUE, smooth |-> 0],
   [prog |-> "wsd", pos |-> FALSE, strict |-> TRUE, weight |-> FALSE, smooth |-> 1]}

\* A true headword, and one that no file has.
MCNoise == {"h", "??"}

\* "c-n" has no edges, and those into it are the most.
MCRows == "a-n" :> <<"b-v", "c-n">> @@ "b-v" :> <<"a-n", "c-n">> @@ "c-n" :> <<>>

\* The last two have lost a part, at vertices without edges.
R(a, b, c) == "a-n" :> a @@ "b-v" :> b @@ "c-n" :> c
MCRankVectors == {R(2, 2, 2), R(1, 4, 1), R(3, 2, 1), R(1, 2, 1), R(1, 1, 0)}

Options(mode, n, buckets, gamma, seed) ==
  [mode : {mode}, n : n, buckets : buckets, gamma : gamma, length : {2}, seed : seed,
   emit : {"words", "both"}, indeg : BOOLEAN, multi : {FALSE}, endless : {FALSE}]

MCWalkOptions ==
  Options("deepwalk", {0}, {0}, {1, 2}, {"h"})
  \cup Options("static", {1}, {0, 1, 2, 3}, {1}, {"h"})
  \cup Options("prior", {1}, {2, 3}, {1}, {"h"})
  \cup Options("components", {0, 1}, {0}, {1}, {"h"})
  \cup Options("seed", {1}, {0}, {1}, {"h", "k"})
  \cup {[o EXCEPT !.multi = TRUE, !.emit = "names", !.endless = TRUE] : o \in Options("seed", {1}, {0}, {1}, {"h"})}
  \cup {[o EXCEPT !.multi = TRUE] : o \in Options("components", {1}, {0}, {1}, {"h"})}

MCLangOf == "h" :> "en" @@ "k" :> "eu"

=============================================================================
