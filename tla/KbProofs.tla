------------------------------ MODULE KbProofs -------------------------------
(***************************************************************************)
(* Proofs about the knowledge base: about KbStore, how it is read, written *)
(* and converted, and about KbSearch and DisambGraph, how it is searched   *)
(* and what subgraph a context gets.                                       *)
(*                                                                         *)
(* KbStore, for every set of files, command lines and old graphs, of any   *)
(* size, and any number of bits of a mask: the types, that the relations   *)
(* of a file, the edges of an old graph and those of a dump that is read   *)
(* again are kept, and what a cut image cannot do.  A graph grows by       *)
(* Insert only: one lemma says what that does, and the invariants say of   *)
(* the graph so far and the lines so far what the properties say of the    *)
(* whole.                                                                  *)
(*                                                                         *)
(* The searches, for every finite graph: the breadth first search finds    *)
(* shortest paths, the paths that are printed and the subgraphs that are   *)
(* cut out are what they should be, and the subgraph of a context joins    *)
(* its senses.  Their data are recursive: facts about them are proved by   *)
(* the least number for which they would fail (FoldLemmas).                *)
(***************************************************************************)
EXTENDS KbStore, DisambGraph, FoldLemmas, FiniteSetTheorems, SequenceTheorems, TLAPS

\* The lines that have been read and count, and the types that lines have.
Done       == {i \in Counted : i < line}
TypesOf(D) == {TypeOf(text[i]) : i \in D} \ {None}

\* The lines of D that give an edge, those of them with a type, and the bits of it; the
\* types that an edge has.
About(D, p)   == {i \in D : p \in Gives(i)}
Typed(D, p)   == {i \in About(D, p) : TypeOf(text[i]) # None /\ ~ TooLate(i)}
Bits(rt, i)   == Shifted(TypeIndex(rt, TypeOf(text[i])))
TypesAt(g, p) == IF p \in Pairs(g) THEN g.prop[p].types ELSE {}

\* While relations are read; the names of the types are those of the lines so far, each
\* once.
TextInv ==
  pc = "text" =>
    /\ old = None
    /\ IsGraphOf(pre, pre.rtypes, Done)
    /\ ToSet(pre.rtypes) = TypesOf(Done)
    /\ IsInjective(pre.rtypes)

\* While an old graph is converted; an image is of the new format.
OldInv ==
  /\ pc \in {"disk", "loaded"} => old = None
  /\ pc = "old" =>
       /\ old # None
       /\ \A i \in 1 .. line - 1 :
            LET e == old.edges[i] IN
            Ends(old, e) \in Pairs(pre) /\ e.types \subseteq pre.prop[Ends(old, e)].types
       /\ \A p \in Pairs(pre) : \E i \in 1 .. line - 1 : Ends(old, old.edges[i]) = p

\* A file that compile_kb -t has written, until the next image.
DumpInv ==
  origin # None =>
    /\ pc \in {"text", "built", "failed"}
    /\ \A i \in DOMAIN text :
         /\ ~ text[i].comment /\ ~ text[i].bad /\ text[i].t = None /\ text[i].d = "1"
         /\ text[i].u \in Names /\ text[i].v \in Names
         /\ <<text[i].u, text[i].v>> \in origin
    /\ \A p \in origin : \E i \in DOMAIN text : <<text[i].u, text[i].v>> = p

IInv == /\ TypeOK
        /\ TextInv /\ OldInv /\ DumpInv
        /\ RelationsKept /\ ConversionKeeps /\ CutRefused

-----------------------------------------------------------------------------
(* Graphs.                                                                 *)

\* The empty graph.
LEMMA NoGraphOK == GraphOK(NoGraph) /\ Pairs(NoGraph) = {} /\ NoGraph.rtypes = <<>>
<1>1. NoGraph.prop = <<>> /\ NoGraph.rtypes = <<>> /\ NoGraph.V = {} /\ NoGraph.sources = {}
  BY DEF NoGraph
<1>2. DOMAIN NoGraph.prop = {}
  BY <1>1
<1>3. NoGraph.prop \in [{} -> EdgeProps]
  BY <1>1, <1>2
<1> QED  BY <1>1, <1>2, <1>3, FS_EmptySet DEF GraphOK, Pairs

\* insert_edge adds the ends and one edge, with this weight and these types besides those
\* that it has; the other edges stay as they are.
LEMMA InsertKeeps ==
  ASSUME NEW g, GraphOK(g), NEW u \in Names, NEW v \in Names, NEW w \in Nat,
         NEW mask \in SUBSET (0 .. Width - 1)
  PROVE  LET h == Insert(g, u, v, w, mask) IN
         /\ GraphOK(h)
         /\ Pairs(h) = Pairs(g) \cup {<<u, v>>}
         /\ h.prop[<<u, v>>].w = w /\ mask \subseteq h.prop[<<u, v>>].types
         /\ h.prop[<<u, v>>].types = TypesAt(g, <<u, v>>) \cup mask
         /\ \A p \in Pairs(g) : g.prop[p].types \subseteq h.prop[p].types
         /\ \A p \in Pairs(g) : p # <<u, v>> => h.prop[p] = g.prop[p]
         /\ h.rtypes = g.rtypes /\ h.sources = g.sources
<1> DEFINE h == Insert(g, u, v, w, mask)
           e == [w |-> w, types |-> EdgeProp(g, u, v).types \cup mask]
           D == Pairs(g) \cup {<<u, v>>}
<1>0. DOMAIN g = {"V", "prop", "rtypes", "sources"}
  BY DEF GraphOK, NoGraph
<1>1. /\ DOMAIN h = DOMAIN g
      /\ h.V = g.V \cup {u, v} /\ h.rtypes = g.rtypes /\ h.sources = g.sources
      /\ h.prop = [p \in D |-> IF p = <<u, v>> THEN e ELSE g.prop[p]]
  BY <1>0 DEF Insert
<1>2. EdgeProp(g, u, v).types \in SUBSET (0 .. Width - 1)
  BY DEF EdgeProp, GraphOK, EdgeProps
<1>3. e \in EdgeProps
  BY <1>2 DEF EdgeProps
<1>4. Pairs(h) = D
  BY <1>1 DEF Pairs
<1>5. h.prop \in [D -> EdgeProps]
  BY <1>1, <1>3 DEF GraphOK
<1>6. D \subseteq h.V \X h.V /\ h.V \subseteq Names
  BY <1>1 DEF GraphOK
<1>7. IsFiniteSet(D)
  BY FS_AddElement DEF GraphOK
<1>8. GraphOK(h)
  BY <1>1, <1>4, <1>5, <1>6, <1>7 DEF GraphOK
<1>9. h.prop[<<u, v>>] = e /\ e.w = w /\ e.types = EdgeProp(g, u, v).types \cup mask
  BY <1>1
<1>10. \A p \in Pairs(g) : p # <<u, v>> => h.prop[p] = g.prop[p]
  BY <1>1
<1>11. <<u, v>> \in Pairs(g) => EdgeProp(g, u, v).types = g.prop[<<u, v>>].types
  BY DEF EdgeProp
<1>12. \A p \in Pairs(g) : g.prop[p].types \subseteq h.prop[p].types
  BY <1>9, <1>10, <1>11
<1>13. EdgeProp(g, u, v).types = TypesAt(g, <<u, v>>)
  BY DEF EdgeProp, TypesAt
<1> QED  BY <1>1, <1>4, <1>8, <1>9, <1>10, <1>12, <1>13

\* The same, with a name for the relation between the two graphs.
Inserted(g, h, u, v, w, mask) ==
  /\ GraphOK(h) /\ Pairs(h) = Pairs(g) \cup {<<u, v>>}
  /\ h.prop[<<u, v>>].w = w /\ h.prop[<<u, v>>].types = TypesAt(g, <<u, v>>) \cup mask
  /\ \A p \in Pairs(g) : p # <<u, v>> => h.prop[p] = g.prop[p]
  /\ h.rtypes = g.rtypes

LEMMA InsertRelates ==
  ASSUME NEW g, GraphOK(g), NEW u \in Names, NEW v \in Names, NEW w \in Nat,
         NEW mask \in SUBSET (0 .. Width - 1)
  PROVE  Inserted(g, Insert(g, u, v, w, mask), u, v, w, mask)
<1> DEFINE h == Insert(g, u, v, w, mask)
<1>1. /\ GraphOK(h) /\ Pairs(h) = Pairs(g) \cup {<<u, v>>}
      /\ h.prop[<<u, v>>].w = w /\ h.prop[<<u, v>>].types = TypesAt(g, <<u, v>>) \cup mask
      /\ \A p \in Pairs(g) : p # <<u, v>> => h.prop[p] = g.prop[p]
      /\ h.rtypes = g.rtypes
  BY InsertKeeps
<1> HIDE DEF h
<1>2. Inserted(g, h, u, v, w, mask)
  BY <1>1 DEF Inserted
<1> QED  BY <1>2 DEF h

-----------------------------------------------------------------------------
(* Lines that are read.                                                    *)

\* What a line that counts is like.
LEMMA CountedLine ==
  ASSUME TypeOK, NEW i \in Counted
  PROVE  /\ i \in 1 .. Len(text) /\ text[i] \in Lines
         /\ text[i].u \in Names /\ text[i].v \in Names /\ text[i].u # text[i].v
         /\ Weight(text[i]) \in Nat
         /\ TypeOf(text[i]) \in Names \cup {None}
<1>1. i \in 1 .. Len(text) /\ text[i] \in Lines
  BY ElementOfSeq, LenProperties DEF TypeOK, Counted
<1>2. ~ Fails(text[i]) /\ text[i].u # text[i].v
  BY DEF Counted
<1> QED  BY <1>1, <1>2 DEF Lines, Fails, Weight, TypeOf

\* What IsGraphOf says, with names for its parts.
LEMMA GraphOfParts ==
  ASSUME NEW g, NEW rt, NEW D
  PROVE  IsGraphOf(g, rt, D) <=>
           /\ Pairs(g) = UNION {Gives(i) : i \in D}
           /\ \A p \in Pairs(g) :
                /\ \E i \in About(D, p) : /\ g.prop[p].w = Weight(text[i])
                                        /\ \A j \in About(D, p) : j <= i
                /\ \A i \in Typed(D, p) : \E mask \in Bits(rt, i) : mask \subseteq g.prop[p].types
                /\ g.prop[p].types \subseteq UNION {UNION Bits(rt, i) : i \in Typed(D, p)}
BY DEF IsGraphOf, About, Typed, Bits

\* Line n joins the lines D of a graph g whose types have the names rt, and makes h, whose
\* types have the names new.
Joins(g, h, rt, new, D, n) ==
  /\ D \in SUBSET Counted /\ n \in Counted /\ n \in Nat /\ \A i \in D : i \in Nat /\ i < n
  /\ IsGraphOf(g, rt, D)
  /\ \A i \in D : TypeOf(text[i]) # None => Bits(new, i) = Bits(rt, i)
  /\ Pairs(h) = Pairs(g) \cup Gives(n)
  /\ \E mask \in IF TypeOf(text[n]) = None \/ TooLate(n) THEN {{}} ELSE Bits(new, n) :
       \A p \in Gives(n) : /\ h.prop[p].w = Weight(text[n])
                           /\ h.prop[p].types = TypesAt(g, p) \cup mask
  /\ \A p \in Pairs(g) \ Gives(n) : h.prop[p] = g.prop[p]

\* A line adds the edges that it gives, with its weight, as the last line about them, and
\* with its type besides those that they have.
LEMMA GraphGrows ==
  ASSUME NEW g, NEW h, NEW rt, NEW new, NEW D, NEW n, Joins(g, h, rt, new, D, n)
  PROVE  IsGraphOf(h, new, D \cup {n})
<1> USE DEF Joins
<1> DEFINE E == D \cup {n}
<1> PICK mask \in IF TypeOf(text[n]) = None \/ TooLate(n) THEN {{}} ELSE Bits(new, n) :
      \A p \in Gives(n) : /\ h.prop[p].w = Weight(text[n])
                          /\ h.prop[p].types = TypesAt(g, p) \cup mask
  OBVIOUS
<1>1. /\ Pairs(g) = UNION {Gives(i) : i \in D}
      /\ \A p \in Pairs(g) :
           /\ \E i \in About(D, p) : g.prop[p].w = Weight(text[i]) /\ \A j \in About(D, p) : j <= i
           /\ \A i \in Typed(D, p) : \E m \in Bits(rt, i) : m \subseteq g.prop[p].types
           /\ g.prop[p].types \subseteq UNION {UNION Bits(rt, i) : i \in Typed(D, p)}
  BY GraphOfParts
<1>2. \A i \in D : \A p \in Gives(i) : p \in Pairs(g)
  BY <1>1
<1>0. Pairs(h) = UNION {Gives(i) : i \in E}
  BY <1>1
<1>3. \A p : \A i \in Typed(D, p) : i \in D /\ p \in Gives(i) /\ Bits(new, i) = Bits(rt, i)
  BY DEF Typed, About
<1>4. ASSUME NEW p \in Pairs(h)
      PROVE  /\ \E i \in About(E, p) : h.prop[p].w = Weight(text[i]) /\ \A j \in About(E, p) : j <= i
             /\ \A i \in Typed(E, p) : \E m \in Bits(new, i) : m \subseteq h.prop[p].types
             /\ h.prop[p].types \subseteq UNION {UNION Bits(new, i) : i \in Typed(E, p)}
  <2>1. CASE p \notin Gives(n)
    <3>1. p \in Pairs(g) /\ h.prop[p] = g.prop[p]
      BY <2>1
    <3>2. About(E, p) = About(D, p) /\ Typed(E, p) = Typed(D, p)
      BY <2>1 DEF About, Typed
    <3>3. \E i \in About(E, p) : h.prop[p].w = Weight(text[i]) /\ \A j \in About(E, p) : j <= i
      BY <1>1, <3>1, <3>2
    <3>4. \A i \in Typed(E, p) : \E m \in Bits(new, i) : m \subseteq h.prop[p].types
      BY <1>1, <1>3, <3>1, <3>2
    <3>5. {UNION Bits(new, i) : i \in Typed(D, p)} = {UNION Bits(rt, i) : i \in Typed(D, p)}
      BY <1>3
    <3>6. h.prop[p].types \subseteq UNION {UNION Bits(new, i) : i \in Typed(E, p)}
      BY <1>1, <3>1, <3>2, <3>5
    <3> QED  BY <3>3, <3>4, <3>6
  <2>2. CASE p \in Gives(n)
    <3>1. h.prop[p].w = Weight(text[n]) /\ h.prop[p].types = TypesAt(g, p) \cup mask
      BY <2>2
    <3>2. n \in About(E, p) /\ \A j \in About(E, p) : j \in E
      BY <2>2 DEF About
    <3>3. ASSUME NEW j \in About(E, p) PROVE j <= n
      <4>1. j = n \/ j \in D
        BY <3>2
      <4>2. CASE j \in D
        <5>1. j \in Nat /\ j < n
          BY <4>2
        <5> QED  BY <5>1
      <4> QED  BY <4>1, <4>2
    <3>4. \A i \in Typed(E, p) : \E m \in Bits(new, i) : m \subseteq h.prop[p].types
      <4>1. SUFFICES ASSUME NEW i \in Typed(E, p)
                     PROVE  \E m \in Bits(new, i) : m \subseteq h.prop[p].types
        OBVIOUS
      <4>2. CASE i = n
        <5>1. TypeOf(text[n]) # None /\ ~ TooLate(n)
          BY <4>2 DEF Typed
        <5> QED  BY <3>1, <4>2, <5>1
      <4>3. CASE i # n
        <5>1. i \in Typed(D, p)
          BY <4>3 DEF Typed, About
        <5>2. p \in Pairs(g)
          BY <1>2, <1>3, <5>1
        <5>3. PICK m \in Bits(rt, i) : m \subseteq g.prop[p].types
          BY <1>1, <5>1, <5>2
        <5>4. TypesAt(g, p) = g.prop[p].types
          BY <5>2 DEF TypesAt
        <5> QED  BY <1>3, <3>1, <5>1, <5>3, <5>4
      <4> QED  BY <4>2, <4>3
    <3>5. ASSUME NEW b \in h.prop[p].types
          PROVE  \E i \in Typed(E, p) : b \in UNION Bits(new, i)
      <4>1. CASE b \in mask
        <5>1. TypeOf(text[n]) # None /\ ~ TooLate(n)
          BY <4>1
        <5>2. n \in Typed(E, p)
          BY <3>2, <5>1 DEF Typed
        <5> QED  BY <4>1, <5>1, <5>2
      <4>2. CASE b \in TypesAt(g, p)
        <5>1. p \in Pairs(g) /\ b \in g.prop[p].types
          BY <4>2 DEF TypesAt
        <5>2. b \in UNION {UNION Bits(rt, i) : i \in Typed(D, p)}
          BY <1>1, <5>1
        <5>3. PICK i \in Typed(D, p) : b \in UNION Bits(rt, i)
          BY <5>2
        <5>4. i \in Typed(E, p)
          BY DEF Typed, About
        <5> QED  BY <1>3, <5>3, <5>4
      <4> QED  BY <3>1, <4>1, <4>2
    <3>6. h.prop[p].types \subseteq UNION {UNION Bits(new, i) : i \in Typed(E, p)}
      BY <3>5
    <3> QED  BY <3>1, <3>2, <3>3, <3>4, <3>6
  <2> QED  BY <2>1, <2>2
<1> HIDE DEF E
<1>5. IsGraphOf(h, new, E)
  BY <1>0, <1>4, GraphOfParts
<1> QED  BY <1>5 DEF E

\* The lines so far, after one more.
LEMMA DoneGrows ==
  ASSUME TypeOK, Reading, NextLine
  PROVE  /\ Counted' = Counted
         /\ Done' = Done \cup (IF line \in Counted THEN {line} ELSE {})
         /\ Done \subseteq Counted /\ \A i \in Done : i \in Nat /\ i < line
         /\ line \in 1 .. Len(text) /\ line \in DOMAIN text
<1>1. line \in 1 .. Len(text) /\ DOMAIN text = 1 .. Len(text) /\ Len(text) \in Nat
  BY LenProperties DEF TypeOK, Reading
<1>2. Counted' = Counted
  BY DEF Counted, NextLine, Fails, Allowed
<1>3. \A i \in Counted : i \in 1 .. Len(text)
  BY <1>1 DEF Counted
<1>4. Done' = {i \in Counted : i < line + 1}
  BY <1>2 DEF Done, NextLine
<1> QED  BY <1>1, <1>2, <1>3, <1>4 DEF Done

\* What is said of a graph and some lines stays true of them with the same file.
LEMMA SameLines ==
  ASSUME text' = text, opt' = opt
  PROVE  /\ Counted' = Counted
         /\ \A i : TypeOf(text[i])' = TypeOf(text[i]) /\ Weight(text[i])' = Weight(text[i])
         /\ \A i : TooLate(i)' = TooLate(i) /\ Gives(i)' = Gives(i)
<1>1. Counted' = Counted
  BY DEF Counted, Fails, Allowed
<1>2. \A i : TypeOf(text[i])' = TypeOf(text[i]) /\ Weight(text[i])' = Weight(text[i])
  BY DEF TypeOf, Weight
<1>3. \A i : TooLate(i)' = TooLate(i)
  BY <1>1 DEF TooLate, TypeOf
<1>4. \A i : Gives(i)' = Gives(i)
  BY <1>3 DEF Gives, Means, Directed
<1> QED  BY <1>1, <1>2, <1>3, <1>4

LEMMA SameMeaning ==
  ASSUME text' = text, opt' = opt, IsGraphOf(pre', pre'.rtypes, Done')
  PROVE  IsGraphOf(pre, pre.rtypes, Done)'
BY SameLines DEF IsGraphOf

LEMMA SameTypes ==
  ASSUME text' = text, opt' = opt
  PROVE  TypesOf(Done)' = TypesOf(Done')
BY DEF TypesOf, TypeOf

-----------------------------------------------------------------------------
(* Relation types.                                                         *)

\* A position within the mask has a bit, whatever the shift makes of it.
LEMMA MaskOK ==
  ASSUME Width \in Nat \ {0}, NEW pos \in Nat \ {0}, NEW mask \in Shifted(pos)
  PROVE  mask \in SUBSET (0 .. Width - 1)
<1>1. pos % Width \in 0 .. Width - 1
  OBVIOUS
<1> QED  BY <1>1 DEF Shifted

\* Where a name is among others.
LEMMA IndexIs ==
  ASSUME NEW rt, IsInjective(rt), NEW i \in DOMAIN rt
  PROVE  TypeIndex(rt, rt[i]) = i
BY DEF TypeIndex, IsInjective

\* stradd knows the name afterwards, every name once and the others where they were.
LEMMA RegisteredOK ==
  ASSUME NEW rt \in Seq(Names), NEW t \in Names
  PROVE  LET new == Registered(rt, t) IN
         /\ new \in Seq(Names)
         /\ ToSet(new) = ToSet(rt) \cup {t}
         /\ IsInjective(rt) => IsInjective(new)
         /\ IsInjective(rt) => \A x \in ToSet(rt) : TypeIndex(new, x) = TypeIndex(rt, x)
         /\ TypeIndex(new, t) \in Nat \ {0}
<1> DEFINE new == Registered(rt, t)
<1>1. CASE Known(rt, t)
  <2>1. new = rt
    BY <1>1 DEF Registered
  <2>2. PICK i \in DOMAIN rt : rt[i] = t
    BY <1>1 DEF Known
  <2>3. TypeIndex(rt, t) \in DOMAIN rt
    BY <2>2 DEF TypeIndex
  <2>4. DOMAIN rt \subseteq Nat \ {0}
    BY LenProperties
  <2> QED  BY <2>1, <2>2, <2>3, <2>4 DEF ToSet
<1>2. CASE ~ Known(rt, t)
  <2>1. new = Append(rt, t)
    BY <1>2 DEF Registered
  <2>2. /\ Append(rt, t) \in Seq(Names) /\ Len(Append(rt, t)) = Len(rt) + 1
        /\ \A i \in 1 .. Len(rt) : Append(rt, t)[i] = rt[i]
        /\ Append(rt, t)[Len(rt) + 1] = t
    BY AppendProperties
  <2>3. DOMAIN Append(rt, t) = 1 .. Len(rt) + 1 /\ DOMAIN rt = 1 .. Len(rt) /\ Len(rt) \in Nat
    BY <2>2, LenProperties
  <2>4. ToSet(Append(rt, t)) = ToSet(rt) \cup {t}
    BY <2>2, <2>3 DEF ToSet
  <2>5. IsInjective(rt) => IsInjective(Append(rt, t))
    BY <1>2, <2>2, <2>3 DEF IsInjective, Known
  <2>6. TypeIndex(Append(rt, t), t) \in DOMAIN Append(rt, t)
    BY <2>2, <2>3 DEF TypeIndex
  <2>7. ASSUME IsInjective(rt), NEW x \in ToSet(rt)
        PROVE  TypeIndex(Append(rt, t), x) = TypeIndex(rt, x)
    <3>1. PICK i \in DOMAIN rt : rt[i] = x
      BY DEF ToSet
    <3>2. TypeIndex(rt, x) = i
      BY <2>7, <3>1, IndexIs
    <3>3. i \in DOMAIN Append(rt, t) /\ Append(rt, t)[i] = x
      BY <2>2, <2>3, <3>1
    <3>4. TypeIndex(Append(rt, t), x) = i
      BY <2>5, <2>7, <3>3, IndexIs
    <3> QED  BY <3>2, <3>4
  <2> QED  BY <2>1, <2>2, <2>3, <2>4, <2>5, <2>6, <2>7
<1> QED  BY <1>1, <1>2

\* stradd throws for the lines that are too late.
LEMMA TooManyIsTooLate ==
  ASSUME TypeOK, line \in Counted, Width \in Nat \ {0},
         ToSet(pre.rtypes) = TypesOf(Done), IsInjective(pre.rtypes)
  PROVE  TooLate(line) <=>
           TypeOf(text[line]) # None /\ TooMany(pre.rtypes, TypeOf(text[line]))
<1> DEFINE t  == TypeOf(text[line])
           rt == pre.rtypes
<1>1. rt \in Seq(Names)
  BY DEF TypeOK, GraphOK
<1>2. DOMAIN rt = 1 .. Len(rt) /\ Len(rt) \in Nat /\ rt \in [1 .. Len(rt) -> Names]
  BY <1>1, LenProperties
<1>3. rt \in Bijection(1 .. Len(rt), ToSet(rt))
  <2>1. rt \in [1 .. Len(rt) -> ToSet(rt)]
    BY <1>2 DEF ToSet
  <2>2. \A x \in ToSet(rt) : \E i \in 1 .. Len(rt) : rt[i] = x
    BY <1>2 DEF ToSet
  <2>3. rt \in Surjection(1 .. Len(rt), ToSet(rt))
    BY <2>1, <2>2 DEF Surjection
  <2>4. \A i, j \in 1 .. Len(rt) : rt[i] = rt[j] => i = j
    BY <1>2 DEF IsInjective
  <2>5. rt \in Injection(1 .. Len(rt), ToSet(rt))
    BY <2>1, <2>4 DEF Injection
  <2> QED  BY <2>3, <2>5 DEF Bijection
<1>4. Cardinality(ToSet(rt)) = Len(rt)
  <2>1. IsFiniteSet(1 .. Len(rt)) /\ Cardinality(1 .. Len(rt)) = Len(rt)
    BY <1>2, FS_Interval
  <2>2. Cardinality(1 .. Len(rt)) = Cardinality(ToSet(rt))
    <3> DEFINE S == 1 .. Len(rt)
               T == ToSet(rt)
    <3>1. IsFiniteSet(S) /\ rt \in Bijection(S, T)
      BY <1>3, <2>1
    <3> HIDE DEF S, T, rt
    <3>2. ExistsBijection(S, T)
      BY <3>1 DEF ExistsBijection
    <3>3. Cardinality(S) = Cardinality(T)
      BY <3>1, <3>2, FS_Bijection
    <3> QED  BY <3>3 DEF S, T
  <2> QED  BY <2>1, <2>2
<1>5. Known(rt, t) <=> t \in ToSet(rt)
  BY DEF Known, ToSet
<1>6. {TypeOf(text[j]) : j \in {j \in Counted : j < line}} \ {None} = ToSet(rt)
  BY DEF TypesOf, Done
<1>7. TooLate(line) <=> t \notin ToSet(rt) \cup {None} /\ Cardinality(ToSet(rt)) >= Width
  BY <1>6 DEF TooLate
<1>8. TooMany(rt, t) <=> t \notin ToSet(rt) /\ Len(rt) + 1 > Width
  BY <1>5 DEF TooMany
<1> HIDE DEF t, rt
<1>9. Len(rt) + 1 > Width <=> Len(rt) >= Width
  BY <1>2
<1>10. TooLate(line) <=> t # None /\ TooMany(rt, t)
  BY <1>4, <1>7, <1>8, <1>9
<1> QED  BY <1>10 DEF t, rt

-----------------------------------------------------------------------------
(* The steps that read a relation.                                         *)

\* A relation that is taken counts.
LEMMA TakenCounts ==
  ASSUME TypeOK, Taken
  PROVE  line \in Counted
<1>1. line \in DOMAIN text
  BY LenProperties DEF TypeOK, Taken, Passed, Reading
<1> QED  BY <1>1 DEF Counted, Taken, Passed

\* The sources of a relation are noted.
LEMMA SourceOK ==
  ASSUME GraphOK(kb), NEW l \in Lines, AddSource(l)
  PROVE  GraphOK(kb')
<1>1. CASE l.s = None
  BY <1>1 DEF AddSource
<1>2. CASE l.s # None
  <2>1. kb' = [kb EXCEPT !.sources = @ \cup {l.s}] /\ l.s \in Names
    BY <1>2 DEF AddSource, Lines
  <2>2. DOMAIN kb = {"V", "prop", "rtypes", "sources"}
    BY DEF GraphOK, NoGraph
  <2>3. /\ DOMAIN kb' = DOMAIN kb /\ kb'.V = kb.V /\ kb'.prop = kb.prop
        /\ kb'.rtypes = kb.rtypes /\ kb'.sources = kb.sources \cup {l.s}
    BY <2>1, <2>2
  <2> QED  BY <2>1, <2>3 DEF GraphOK, Pairs
<1> QED  BY <1>1, <1>2

\* The names of the types of a graph are changed.
LEMMA RenamedTypes ==
  ASSUME NEW g, GraphOK(g), NEW rt \in Seq(Names)
  PROVE  LET h == [g EXCEPT !.rtypes = rt] IN
         GraphOK(h) /\ h.rtypes = rt /\ h.prop = g.prop /\ Pairs(h) = Pairs(g)
<1>1. DOMAIN g = {"V", "prop", "rtypes", "sources"}
  BY DEF GraphOK, NoGraph
<1> DEFINE h == [g EXCEPT !.rtypes = rt]
<1>2. /\ DOMAIN h = DOMAIN g /\ h.V = g.V /\ h.prop = g.prop
      /\ h.rtypes = rt /\ h.sources = g.sources
  BY <1>1
<1> QED  BY <1>2 DEF GraphOK, Pairs

\* Relate adds the edges that the line means, with its weight and its type, and no others.
LEMMA RelateAdds ==
  ASSUME TypeOK, Width \in Nat \ {0}, Relate
  PROVE  /\ GraphOK(pre') /\ GraphOK(kb')
         /\ Pairs(pre') = Pairs(pre) \cup Means(text[line])
         /\ \A p \in Means(text[line]) : pre'.prop[p].w = Weight(text[line])
         /\ \A p \in Pairs(pre) \ Means(text[line]) : pre'.prop[p] = pre.prop[p]
         /\ \E mask \in IF TypeOf(text[line]) = None THEN {{}} ELSE Bits(pre'.rtypes, line) :
              \A p \in Means(text[line]) : pre'.prop[p].types = TypesAt(pre, p) \cup mask
         /\ ToSet(pre'.rtypes) = ToSet(pre.rtypes) \cup ({TypeOf(text[line])} \ {None})
         /\ IsInjective(pre.rtypes) =>
              /\ IsInjective(pre'.rtypes)
              /\ \A x \in ToSet(pre.rtypes) : TypeIndex(pre'.rtypes, x) = TypeIndex(pre.rtypes, x)
<1> DEFINE l  == text[line]
           t  == TypeOf(l)
           rt == IF t = None THEN pre.rtypes ELSE Registered(pre.rtypes, t)
<1>1. line \in Counted
  BY TakenCounts DEF Relate
<1>2. /\ l \in Lines /\ l.u \in Names /\ l.v \in Names /\ l.u # l.v
      /\ Weight(l) \in Nat /\ t \in Names \cup {None}
  BY <1>1, CountedLine
<1>3. PICK mask \in IF t = None THEN {{}} ELSE Shifted(TypeIndex(rt, t)) :
        LET there == Insert(pre, l.u, l.v, Weight(l), mask) IN
        pre' = [(IF Directed(l) THEN there ELSE Insert(there, l.v, l.u, Weight(l), mask))
                  EXCEPT !.rtypes = rt]
  BY DEF Relate
<1>4. GraphOK(pre) /\ GraphOK(kb) /\ pre.rtypes \in Seq(Names)
  BY DEF TypeOK, GraphOK
<1>5. /\ rt \in Seq(Names)
      /\ ToSet(rt) = ToSet(pre.rtypes) \cup ({t} \ {None})
      /\ IsInjective(pre.rtypes) =>
           IsInjective(rt) /\ \A x \in ToSet(pre.rtypes) : TypeIndex(rt, x) = TypeIndex(pre.rtypes, x)
      /\ t # None => TypeIndex(rt, t) \in Nat \ {0}
  <2>1. CASE t = None
    BY <1>4, <2>1
  <2>2. CASE t # None
    <3>1. rt = Registered(pre.rtypes, t) /\ t \in Names
      BY <1>2, <2>2
    <3> HIDE DEF rt, t
    <3>2. /\ Registered(pre.rtypes, t) \in Seq(Names)
          /\ ToSet(Registered(pre.rtypes, t)) = ToSet(pre.rtypes) \cup {t}
          /\ IsInjective(pre.rtypes) => IsInjective(Registered(pre.rtypes, t))
          /\ IsInjective(pre.rtypes) =>
               \A x \in ToSet(pre.rtypes) : TypeIndex(Registered(pre.rtypes, t), x) = TypeIndex(pre.rtypes, x)
          /\ TypeIndex(Registered(pre.rtypes, t), t) \in Nat \ {0}
      BY <1>4, <3>1, RegisteredOK
    <3> QED  BY <2>2, <3>1, <3>2
  <2> QED  BY <2>1, <2>2
<1>6. mask \in SUBSET (0 .. Width - 1)
  <2>1. CASE t = None
    BY <1>3, <2>1
  <2>2. CASE t # None
    BY <1>3, <1>5, <2>2, MaskOK
  <2> QED  BY <2>1, <2>2
<1> DEFINE there == Insert(pre, l.u, l.v, Weight(l), mask)
           back  == Insert(there, l.v, l.u, Weight(l), mask)
           new   == IF Directed(l) THEN there ELSE back
<1>7. /\ GraphOK(there)
      /\ Pairs(there) = Pairs(pre) \cup {<<l.u, l.v>>}
      /\ there.prop[<<l.u, l.v>>].w = Weight(l)
      /\ there.prop[<<l.u, l.v>>].types = TypesAt(pre, <<l.u, l.v>>) \cup mask
      /\ \A p \in Pairs(pre) : p # <<l.u, l.v>> => there.prop[p] = pre.prop[p]
  <2> HIDE DEF l, t, rt
  <2>1. Inserted(pre, there, l.u, l.v, Weight(l), mask)
    BY <1>2, <1>4, <1>6, InsertRelates
  <2> HIDE DEF there
  <2>2. QED
    BY <2>1 DEF Inserted
<1> HIDE DEF there
<1>8. /\ GraphOK(back)
      /\ Pairs(back) = Pairs(there) \cup {<<l.v, l.u>>}
      /\ back.prop[<<l.v, l.u>>].w = Weight(l)
      /\ back.prop[<<l.v, l.u>>].types = TypesAt(there, <<l.v, l.u>>) \cup mask
      /\ \A p \in Pairs(there) : p # <<l.v, l.u>> => back.prop[p] = there.prop[p]
  <2> HIDE DEF l, t, rt
  <2>1. Inserted(there, back, l.v, l.u, Weight(l), mask)
    BY <1>2, <1>6, <1>7, InsertRelates
  <2> HIDE DEF back
  <2>2. QED
    BY <2>1 DEF Inserted
<1> HIDE DEF back
<1>9. /\ GraphOK(new)
      /\ Pairs(new) = Pairs(pre) \cup Means(l)
      /\ \A p \in Means(l) : new.prop[p].w = Weight(l) /\ new.prop[p].types = TypesAt(pre, p) \cup mask
      /\ \A p \in Pairs(pre) \ Means(l) : new.prop[p] = pre.prop[p]
  <2>1. CASE Directed(l)
    <3>1. Means(l) = {<<l.u, l.v>>}
      BY <2>1 DEF Means
    <3> QED  BY <1>7, <2>1, <3>1
  <2>2. CASE ~ Directed(l)
    <3>1. Means(l) = {<<l.u, l.v>>, <<l.v, l.u>>} /\ <<l.u, l.v>> # <<l.v, l.u>>
      BY <1>2, <2>2 DEF Means
    <3>2. TypesAt(there, <<l.v, l.u>>) = TypesAt(pre, <<l.v, l.u>>)
      BY <1>7, <3>1 DEF TypesAt
    <3> QED  BY <1>7, <1>8, <2>2, <3>1, <3>2
  <2> QED  BY <2>1, <2>2
<1>10. pre' = [new EXCEPT !.rtypes = rt]
  BY <1>3 DEF there, back
<1> HIDE DEF new, rt
<1>11. GraphOK(pre') /\ pre'.rtypes = rt /\ pre'.prop = new.prop /\ Pairs(pre') = Pairs(new)
  BY <1>5, <1>9, <1>10, RenamedTypes
<1>12. GraphOK(kb')
  BY <1>2, <1>4, SourceOK DEF Relate
<1>13. mask \in IF t = None THEN {{}} ELSE Bits(pre'.rtypes, line)
  BY <1>3, <1>11 DEF Bits
<1> QED  BY <1>5, <1>9, <1>11, <1>12, <1>13

\* Overflow adds the edge that the line names, with its weight and without its type.
LEMMA OverflowAdds ==
  ASSUME TypeOK, Width \in Nat \ {0}, Overflow
  PROVE  /\ GraphOK(pre') /\ GraphOK(kb')
         /\ LET p == <<text[line].u, text[line].v>> IN
              /\ Pairs(pre') = Pairs(pre) \cup {p}
              /\ pre'.prop[p].w = Weight(text[line]) /\ pre'.prop[p].types = TypesAt(pre, p)
              /\ \A q \in Pairs(pre) \ {p} : pre'.prop[q] = pre.prop[q]
         /\ ToSet(pre'.rtypes) = ToSet(pre.rtypes) \cup ({TypeOf(text[line])} \ {None})
         /\ IsInjective(pre.rtypes) =>
              /\ IsInjective(pre'.rtypes)
              /\ \A x \in ToSet(pre.rtypes) : TypeIndex(pre'.rtypes, x) = TypeIndex(pre.rtypes, x)
<1> DEFINE l == text[line]
           t == TypeOf(l)
           new == Insert(pre, l.u, l.v, Weight(l), {})
<1>1. line \in Counted
  BY TakenCounts DEF Overflow
<1>2. /\ l \in Lines /\ l.u \in Names /\ l.v \in Names
      /\ Weight(l) \in Nat /\ t \in Names /\ t # None
  BY <1>1, CountedLine DEF Overflow
<1>3. GraphOK(pre) /\ GraphOK(kb) /\ pre.rtypes \in Seq(Names)
  BY DEF TypeOK, GraphOK
<1>4. /\ GraphOK(new) /\ Pairs(new) = Pairs(pre) \cup {<<l.u, l.v>>}
      /\ new.prop[<<l.u, l.v>>].w = Weight(l)
      /\ new.prop[<<l.u, l.v>>].types = TypesAt(pre, <<l.u, l.v>>)
      /\ \A p \in Pairs(pre) : p # <<l.u, l.v>> => new.prop[p] = pre.prop[p]
      /\ new.rtypes = pre.rtypes
  <2>1. {} \in SUBSET (0 .. Width - 1)
    OBVIOUS
  <2> HIDE DEF l, t
  <2>2. Inserted(pre, new, l.u, l.v, Weight(l), {})
    BY <1>2, <1>3, <2>1, InsertRelates
  <2>3. TypesAt(pre, <<l.u, l.v>>) \cup {} = TypesAt(pre, <<l.u, l.v>>)
    OBVIOUS
  <2> HIDE DEF new
  <2> QED  BY <2>2, <2>3 DEF Inserted
<1>5. ~ Known(pre.rtypes, t)
  BY DEF Overflow, TooMany
<1>6. Registered(pre.rtypes, t) = Append(pre.rtypes, t)
  BY <1>5 DEF Registered
<1>7. DOMAIN new = {"V", "prop", "rtypes", "sources"}
  BY <1>4 DEF GraphOK, NoGraph
<1> HIDE DEF new
<1>8. pre' = [new EXCEPT !.rtypes = Append(pre.rtypes, t)]
  <2>1. pre' = [new EXCEPT !.rtypes = Append(new.rtypes, t)]
    BY DEF Overflow, new
  <2> QED  BY <1>4, <2>1
<1> HIDE DEF t
<1>9. /\ Append(pre.rtypes, t) \in Seq(Names)
      /\ ToSet(Append(pre.rtypes, t)) = ToSet(pre.rtypes) \cup {t}
      /\ IsInjective(pre.rtypes) =>
           /\ IsInjective(Append(pre.rtypes, t))
           /\ \A x \in ToSet(pre.rtypes) : TypeIndex(Append(pre.rtypes, t), x) = TypeIndex(pre.rtypes, x)
  <2>1. /\ Registered(pre.rtypes, t) \in Seq(Names)
        /\ ToSet(Registered(pre.rtypes, t)) = ToSet(pre.rtypes) \cup {t}
        /\ IsInjective(pre.rtypes) => IsInjective(Registered(pre.rtypes, t))
        /\ IsInjective(pre.rtypes) =>
             \A x \in ToSet(pre.rtypes) : TypeIndex(Registered(pre.rtypes, t), x) = TypeIndex(pre.rtypes, x)
    BY <1>2, <1>3, RegisteredOK
  <2> QED  BY <1>6, <2>1
<1>10. /\ GraphOK(pre') /\ pre'.rtypes = Append(pre.rtypes, t)
       /\ Pairs(pre') = Pairs(new) /\ pre'.prop = new.prop
  BY <1>4, <1>8, <1>9, RenamedTypes
<1>11. GraphOK(kb')
  BY <1>2, <1>3, SourceOK DEF Overflow
<1> QED  BY <1>2, <1>4, <1>9, <1>10, <1>11 DEF t

-----------------------------------------------------------------------------
(* The dump.                                                               *)

\* A dump has lines for its edges and none for others, without a type and directed.
LEMMA DumpOK ==
  ASSUME GraphOK(kb), None \notin Names
  PROVE  /\ Dump(kb) \in Seq(Lines)
         /\ \A i \in DOMAIN Dump(kb) :
              LET l == Dump(kb)[i] IN
              /\ ~ l.comment /\ ~ l.bad /\ l.t = None /\ l.d = "1"
              /\ l.u \in Names /\ l.v \in Names
              /\ <<l.u, l.v>> \in Pairs(kb)
         /\ \A p \in Pairs(kb) :
              \E i \in DOMAIN Dump(kb) : <<Dump(kb)[i].u, Dump(kb)[i].v>> = p
<1> DEFINE named(p) == TypeNames(kb.rtypes, kb.prop[p].types)
           first(p) == IF named(p) = {} THEN {None} ELSE named(p)
           L == UNION {{Dumped(p[1], p[2], s) : s \in first(p)} : p \in Pairs(kb)}
           A == Pairs(kb) \X (ToSet(kb.rtypes) \cup {None})
           f == [q \in A |-> Dumped(q[1][1], q[1][2], q[2])]
           R == {f[q] : q \in A}
<1>1. Dump(kb) = SetToSeq(L)
  BY DEF Dump
<1>2. ToSet(kb.rtypes) \subseteq Names /\ IsFiniteSet(ToSet(kb.rtypes))
  <2>1. kb.rtypes \in [1 .. Len(kb.rtypes) -> Names] /\ Len(kb.rtypes) \in Nat
        /\ DOMAIN kb.rtypes = 1 .. Len(kb.rtypes)
    BY LenProperties DEF GraphOK
  <2>2. kb.rtypes \in Surjection(1 .. Len(kb.rtypes), ToSet(kb.rtypes))
    BY <2>1 DEF Surjection, ToSet
  <2>3. IsFiniteSet(1 .. Len(kb.rtypes))
    BY <2>1, FS_Interval
  <2> QED  BY <2>1, <2>2, <2>3, FS_Surjection DEF ToSet
<1>3. \A p \in Pairs(kb) : named(p) \subseteq ToSet(kb.rtypes)
  <2>1. \A p \in Pairs(kb) : kb.prop[p].types \subseteq Nat
    BY DEF GraphOK, EdgeProps
  <2>2. Len(kb.rtypes) \in Nat /\ DOMAIN kb.rtypes = 1 .. Len(kb.rtypes)
    BY LenProperties DEF GraphOK
  <2> QED  BY <2>1, <2>2 DEF TypeNames, ToSet
<1>4. IsFiniteSet(A)
  <2>1. IsFiniteSet(ToSet(kb.rtypes) \cup {None})
    BY <1>2, FS_AddElement
  <2> QED  BY <2>1, FS_Product DEF GraphOK
<1>5. IsFiniteSet(R)
  <2>1. f \in Surjection(A, R)
    BY DEF Surjection
  <2> QED  BY <1>4, <2>1, FS_Surjection
<1>6. L \subseteq R
  <2>1. SUFFICES ASSUME NEW x \in L
                 PROVE  x \in R
    OBVIOUS
  <2>2. PICK p \in Pairs(kb) : \E s \in first(p) : x = Dumped(p[1], p[2], s)
    OBVIOUS
  <2>3. PICK s \in first(p) : x = Dumped(p[1], p[2], s)
    BY <2>2
  <2>4. <<p, s>> \in A
    BY <1>3
  <2>5. f[<<p, s>>] = Dumped(p[1], p[2], s)
    BY <2>4
  <2> QED  BY <2>3, <2>4, <2>5
<1>7. IsFiniteSet(L)
  BY <1>5, <1>6, FS_Subset
<1>8. \A p \in Pairs(kb) : p = <<p[1], p[2]>> /\ p[1] \in Names /\ p[2] \in Names
  BY DEF GraphOK
<1>9. \A x \in L :
        /\ x \in Lines
        /\ ~ x.comment /\ ~ x.bad /\ x.t = None /\ x.d = "1"
        /\ x.u \in Names /\ x.v \in Names
        /\ <<x.u, x.v>> \in Pairs(kb)
  <2>1. SUFFICES ASSUME NEW p \in Pairs(kb), NEW s \in first(p)
                 PROVE  LET x == Dumped(p[1], p[2], s) IN
                        /\ x \in Lines
                        /\ ~ x.comment /\ ~ x.bad /\ x.t = None /\ x.d = "1"
                        /\ x.u \in Names /\ x.v \in Names
                        /\ <<x.u, x.v>> \in Pairs(kb)
    OBVIOUS
  <2>2. s \in Names \cup {None}
    BY <1>2, <1>3, <2>1
  <2> QED  BY <1>8, <2>2 DEF Dumped, Lines
<1>10. \A p \in Pairs(kb) : \E x \in L : <<x.u, x.v>> = p
  <2>1. SUFFICES ASSUME NEW p \in Pairs(kb)
                 PROVE  \E x \in L : <<x.u, x.v>> = p
    OBVIOUS
  <2>2. PICK s : s \in first(p)
    OBVIOUS
  <2>3. Dumped(p[1], p[2], s) \in L
    BY <2>2
  <2>4. Dumped(p[1], p[2], s).u = p[1] /\ Dumped(p[1], p[2], s).v = p[2]
    BY DEF Dumped
  <2> QED  BY <1>8, <2>3, <2>4
<1> HIDE DEF L
<1>11. /\ Dump(kb) \in Seq(L)
       /\ \A x \in L : \E i \in DOMAIN Dump(kb) : Dump(kb)[i] = x
  BY <1>1, <1>7, SetAsSeq
<1>12. \A i \in DOMAIN Dump(kb) : Dump(kb)[i] \in L
  BY <1>11, ElementOfSeq, LenProperties
<1>13. Dump(kb) \in Seq(Lines)
  <2>1. L \subseteq Lines
    BY <1>9
  <2> QED  BY <1>11, <2>1, SeqMonotonic
<1> QED  BY <1>9, <1>10, <1>11, <1>12, <1>13

-----------------------------------------------------------------------------
(* Type correctness.                                                       *)

\* The parts of an image.
LEMMA PartsOK ==
  /\ Len(Parts) = 14 /\ DOMAIN Parts = 1 .. 14
  /\ Complete \in [at : 1 .. Len(Parts) + 1, sized : BOOLEAN]
BY DEF Parts, Complete

\* An edge of an old graph, by its names.
LEMMA OldEdge ==
  ASSUME NEW o \in OldGraphs, NEW i \in 1 .. Len(o.edges)
  PROVE  LET e == o.edges[i] IN
         /\ o.name[e.u] \in Names /\ o.name[e.v] \in Names /\ e.u # e.v
         /\ e.w \in Nat /\ e.types \subseteq 0 .. Len(o.rtypes) - 1
         /\ e.types \in SUBSET (0 .. Width - 1)
         /\ Len(o.edges) \in Nat /\ DOMAIN o.edges = 1 .. Len(o.edges)
<1> DEFINE E == [u : DOMAIN o.name, v : DOMAIN o.name, w : Nat, types : SUBSET (0 .. Len(o.rtypes) - 1)]
<1>1. OldFormat(o)
  BY KbStoreAssumption
<1>2. o.edges \in Seq(E) /\ o.rtypes \in Seq(Names) /\ Len(o.rtypes) <= Width
  BY <1>1 DEF OldFormat
<1>3. o.edges[i] \in E
  BY <1>2, ElementOfSeq
<1>4. Len(o.edges) \in Nat /\ DOMAIN o.edges = 1 .. Len(o.edges) /\ Len(o.rtypes) \in Nat
  BY <1>2, LenProperties
<1>5. o.edges[i].u # o.edges[i].v
  BY <1>1, <1>4 DEF OldFormat
<1>6. o.name[o.edges[i].u] \in Names /\ o.name[o.edges[i].v] \in Names
  BY <1>1, <1>3 DEF OldFormat
<1>7. o.edges[i].types \subseteq 0 .. Len(o.rtypes) - 1 /\ o.edges[i].w \in Nat
  BY <1>3
<1>8. 0 .. Len(o.rtypes) - 1 \subseteq 0 .. Width - 1
  BY <1>2, <1>4, KbStoreAssumption
<1> QED  BY <1>4, <1>5, <1>6, <1>7, <1>8

LEMMA TypesInit == Init => TypeOK
<1> SUFFICES ASSUME Init PROVE TypeOK
  OBVIOUS
<1>2. GraphOK(pre) /\ GraphOK(kb)
  BY NoGraphOK DEF Init
<1>3. cut \in [at : 1 .. Len(Parts) + 1, sized : BOOLEAN] /\ intact \subseteq ToSet(Parts)
  BY PartsOK DEF Init
<1>4. text \in Seq(Lines) /\ old \in OldGraphs \cup {None} /\ pc \in {"text", "old"} /\ opt \in Options
  BY KbStoreAssumption, EmptySeq DEF Init
<1>5. line \in 1 .. (IF old = None THEN Len(text) ELSE Len(old.edges)) + 1
  <2>1. CASE old = None
    <3>1. Len(text) \in Nat
      BY <1>4, LenProperties
    <3> QED  BY <2>1, <3>1 DEF Init
  <2>2. CASE old # None
    <3>1. OldFormat(old)
      BY <1>4, <2>2, KbStoreAssumption
    <3>2. Len(old.edges) \in Nat
      BY <3>1, LenProperties DEF OldFormat
    <3> QED  BY <2>2, <3>2 DEF Init
  <2> QED  BY <2>1, <2>2
<1> QED  BY <1>2, <1>3, <1>4, <1>5 DEF TypeOK

\* The next line, of a file.
LEMMA NextLineOK ==
  ASSUME TypeOK, TextInv, Reading, NextLine
  PROVE  /\ line' \in 1 .. (IF old' = None THEN Len(text') ELSE Len(old'.edges)) + 1
         /\ text' \in Seq(Lines) /\ opt' \in Options /\ old' \in OldGraphs \cup {None}
         /\ intact' \subseteq ToSet(Parts)
         /\ cut' \in [at : 1 .. Len(Parts) + 1, sized : BOOLEAN]
<1>1. old = None
  BY DEF TextInv, Reading
<1>2. Len(text) \in Nat
  BY LenProperties DEF TypeOK
<1> QED  BY <1>1, <1>2 DEF TypeOK, Reading, NextLine

LEMMA TypesKept ==
  ASSUME TypeOK, TextInv, OldInv, [Next]_vars
  PROVE  TypeOK'
<1> USE KbStoreAssumption
<1>0. GraphOK(pre) /\ GraphOK(kb) /\ GraphOK(NoGraph)
  BY NoGraphOK DEF TypeOK
<1>1. CASE Skip
  BY <1>0, <1>1, NextLineOK DEF Skip, TypeOK
<1>2. CASE Relate
  <2>1. GraphOK(pre') /\ GraphOK(kb')
    BY <1>2, RelateAdds
  <2>2. Reading /\ NextLine /\ pc' = pc
    BY <1>2 DEF Relate, Taken, Passed
  <2> QED  BY <2>1, <2>2, NextLineOK DEF TypeOK
<1>3. CASE Malformed
  BY <1>0, <1>3, NextLineOK DEF Malformed, Passed, Caught, TypeOK
<1>4. CASE Overflow
  <2>1. GraphOK(pre') /\ GraphOK(kb')
    BY <1>4, OverflowAdds
  <2>2. Reading /\ NextLine /\ Caught
    BY <1>4 DEF Overflow, Taken, Passed
  <2> QED  BY <2>1, <2>2, NextLineOK DEF TypeOK, Caught
<1>5. CASE EndOfText
  <2>1. DOMAIN kb = {"V", "prop", "rtypes", "sources"}
    BY <1>0 DEF GraphOK, NoGraph
  <2>2. /\ DOMAIN kb' = DOMAIN kb /\ kb'.V = pre.V /\ kb'.prop = pre.prop
        /\ kb'.rtypes = kb.rtypes /\ kb'.sources = kb.sources
    BY <1>5, <2>1 DEF EndOfText
  <2>3. GraphOK(kb')
    BY <1>0, <2>2 DEF GraphOK, Pairs
  <2> QED  BY <1>0, <1>5, <2>3 DEF EndOfText, TypeOK
<1>6. CASE ConvertEdge
  <2> DEFINE e == old.edges[line]
  <2>1. old \in OldGraphs /\ line \in 1 .. Len(old.edges)
    BY <1>6 DEF ConvertEdge, OldInv, TypeOK
  <2>2. /\ old.name[e.u] \in Names /\ old.name[e.v] \in Names
        /\ e.w \in Nat /\ e.types \in SUBSET (0 .. Width - 1) /\ Len(old.edges) \in Nat
    BY <2>1, OldEdge
  <2>3. pre' = Insert(pre, old.name[e.u], old.name[e.v], e.w, e.types)
    BY <1>6 DEF ConvertEdge
  <2>4. GraphOK(pre')
    BY <1>0, <2>2, <2>3, InsertKeeps
  <2>5. line' \in 1 .. Len(old.edges) + 1 /\ old # None
    BY <1>6, <2>1, <2>2 DEF ConvertEdge
  <2> QED  BY <1>0, <1>6, <2>4, <2>5 DEF ConvertEdge, TypeOK
<1>7. CASE Converted
  <2>1. OldFormat(old)
    BY <1>7 DEF Converted, OldInv, TypeOK
  <2>2. DOMAIN pre = {"V", "prop", "rtypes", "sources"}
    BY <1>0 DEF GraphOK, NoGraph
  <2>3. /\ DOMAIN kb' = DOMAIN pre /\ kb'.V = pre.V /\ kb'.prop = pre.prop
        /\ kb'.rtypes = old.rtypes /\ kb'.sources = old.sources
    BY <1>7, <2>2 DEF Converted
  <2>4. GraphOK(kb')
    BY <1>0, <2>1, <2>3 DEF GraphOK, Pairs, OldFormat
  <2> QED  BY <1>0, <1>7, <2>4 DEF Converted, TypeOK
<1>8. CASE ConvertFails
  BY <1>0, <1>8 DEF ConvertFails, TypeOK
<1>9. CASE Write
  <2>1. text' = <<>> /\ text' \in Seq(Lines) /\ Len(text') = 0
    BY <1>9, EmptySeq DEF Write
  <2>2. line' \in 1 .. (IF old' = None THEN Len(text') ELSE Len(old'.edges)) + 1
    BY <1>9, <2>1 DEF Write
  <2>3. cut' \in [at : 1 .. Len(Parts) + 1, sized : BOOLEAN]
    BY <1>9, PartsOK DEF Write
  <2> QED  BY <1>0, <1>9, <2>1, <2>2, <2>3 DEF Write, TypeOK
<1>10. CASE Load
  BY <1>0, <1>10 DEF Load, TypeOK
<1>11. CASE LoadThrows \/ LoadAborts
  BY <1>0, <1>11 DEF LoadThrows, LoadAborts, TypeOK
<1>12. CASE DumpText
  <2>1. text' \in Seq(Lines)
    BY <1>0, <1>12, DumpOK DEF DumpText
  <2>2. Len(text') \in Nat
    BY <2>1, LenProperties
  <2>3. line' \in 1 .. Len(text') + 1
    BY <1>12, <2>2 DEF DumpText
  <2>4. old' = None
    BY <1>12 DEF DumpText, OldInv
  <2> QED  BY <1>0, <1>12, <2>1, <2>3, <2>4 DEF DumpText, TypeOK
<1>13. CASE UNCHANGED vars
  BY <1>0, <1>13 DEF vars, TypeOK, GraphOK, Pairs
<1> QED
  BY <1>1, <1>2, <1>3, <1>4, <1>5, <1>6, <1>7, <1>8, <1>9, <1>10, <1>11, <1>12, <1>13 DEF Next

-----------------------------------------------------------------------------
(* Relations are kept.                                                     *)

LEMMA InvInit == Init => TextInv /\ OldInv /\ DumpInv
<1> SUFFICES ASSUME Init PROVE TextInv /\ OldInv /\ DumpInv
  OBVIOUS
<1> USE KbStoreAssumption
<1>1. TypeOK /\ line = 1 /\ pre = NoGraph
  BY TypesInit DEF Init
<1>2. Done = {}
  <2>1. \A i \in Counted : i \in Nat \ {0}
    BY <1>1, CountedLine
  <2> QED  BY <1>1, <2>1 DEF Done
<1>3. IsGraphOf(pre, pre.rtypes, Done) /\ TypesOf(Done) = {}
  BY <1>1, <1>2, NoGraphOK DEF IsGraphOf, TypesOf
<1>4. ToSet(pre.rtypes) = {} /\ IsInjective(pre.rtypes)
  BY <1>1, NoGraphOK DEF ToSet, IsInjective
<1>5. TextInv
  BY <1>3, <1>4 DEF TextInv, Init
<1>6. OldInv
  BY <1>1, NoGraphOK DEF OldInv, Init
<1> QED  BY <1>5, <1>6 DEF DumpInv, Init

\* A line that does not count adds nothing.
LEMMA TextSkips ==
  ASSUME TypeOK, TextInv, Reading, NextLine, line \notin Counted, pre' = pre
  PROVE  TextInv'
<1>1. Done' = Done
  BY DoneGrows
<1>2. text' = text /\ opt' = opt /\ old' = old /\ pc = "text"
  BY DEF NextLine, Reading
<1>3. IsGraphOf(pre, pre.rtypes, Done)'
  BY <1>1, <1>2, SameMeaning DEF TextInv
<1>4. TypesOf(Done)' = TypesOf(Done)
  BY <1>1, <1>2, SameTypes
<1> QED  BY <1>2, <1>3, <1>4 DEF TextInv

\* The graph so far is that of the lines that were read, and the next line joins them.
LEMMA LineGrows ==
  ASSUME line \in Counted, line \in Nat,
         Done \subseteq Counted, \A i \in Done : i \in Nat /\ i < line,
         IsGraphOf(pre, pre.rtypes, Done),
         \A i \in Done : TypeOf(text[i]) # None => Bits(pre'.rtypes, i) = Bits(pre.rtypes, i),
         NEW mask,
         mask \in IF TypeOf(text[line]) = None \/ TooLate(line) THEN {{}} ELSE Bits(pre'.rtypes, line),
         Pairs(pre') = Pairs(pre) \cup Gives(line),
         \A p \in Gives(line) : /\ pre'.prop[p].w = Weight(text[line])
                                /\ pre'.prop[p].types = TypesAt(pre, p) \cup mask,
         \A p \in Pairs(pre) \ Gives(line) : pre'.prop[p] = pre.prop[p]
  PROVE  IsGraphOf(pre', pre'.rtypes, Done \cup {line})
<1>1. Joins(pre, pre', pre.rtypes, pre'.rtypes, Done, line)
  BY DEF Joins
<1> QED  BY <1>1, GraphGrows

LEMMA TextKept ==
  ASSUME TypeOK, TextInv, OldInv, [Next]_vars
  PROVE  TextInv'
<1> USE KbStoreAssumption
<1>1. CASE Skip
  <2>1. line \notin Counted
    BY <1>1 DEF Skip, Counted, Taken, Passed
  <2> QED  BY <1>1, <2>1, TextSkips DEF Skip
<1>2. CASE Malformed
  <2>1. line \notin Counted
    BY <1>2 DEF Malformed, Counted
  <2> QED  BY <1>2, <2>1, TextSkips DEF Malformed, Passed
<1>3. CASE Relate \/ Overflow
  <2>1. Reading /\ NextLine /\ line \in Counted
    BY <1>3, TakenCounts DEF Relate, Overflow, Taken, Passed
  <2>2. /\ text' = text /\ opt' = opt /\ old' = old /\ pc = "text"
        /\ Done' = Done \cup {line} /\ Done \subseteq Counted
        /\ \A i \in Done : i \in Nat /\ i < line
        /\ line \in Nat
    BY <2>1, DoneGrows DEF NextLine, Reading
  <2>3. /\ IsGraphOf(pre, pre.rtypes, Done)
        /\ ToSet(pre.rtypes) = TypesOf(Done) /\ IsInjective(pre.rtypes)
    BY <2>2 DEF TextInv
  <2>4. /\ ToSet(pre'.rtypes) = ToSet(pre.rtypes) \cup ({TypeOf(text[line])} \ {None})
        /\ IsInjective(pre'.rtypes)
        /\ \A x \in ToSet(pre.rtypes) : TypeIndex(pre'.rtypes, x) = TypeIndex(pre.rtypes, x)
    BY <1>3, <2>3, RelateAdds, OverflowAdds
  <2>5. \A i \in Done : TypeOf(text[i]) # None => Bits(pre'.rtypes, i) = Bits(pre.rtypes, i)
    BY <2>3, <2>4 DEF Bits, TypesOf
  <2>6. TooLate(line) <=> TypeOf(text[line]) # None /\ TooMany(pre.rtypes, TypeOf(text[line]))
    BY <2>1, <2>3, TooManyIsTooLate
  <2>7. IsGraphOf(pre', pre'.rtypes, Done')
    <3>1. CASE Relate
      <4>1. ~ TooLate(line) /\ Gives(line) = Means(text[line])
        BY <2>6, <3>1 DEF Relate, Gives
      <4>2. /\ Pairs(pre') = Pairs(pre) \cup Means(text[line])
            /\ \A p \in Means(text[line]) : pre'.prop[p].w = Weight(text[line])
            /\ \A p \in Pairs(pre) \ Means(text[line]) : pre'.prop[p] = pre.prop[p]
        BY <3>1, RelateAdds
      <4>3. PICK mask \in IF TypeOf(text[line]) = None THEN {{}} ELSE Bits(pre'.rtypes, line) :
              \A p \in Means(text[line]) : pre'.prop[p].types = TypesAt(pre, p) \cup mask
        BY <3>1, RelateAdds
      <4>4. mask \in IF TypeOf(text[line]) = None \/ TooLate(line) THEN {{}} ELSE Bits(pre'.rtypes, line)
        BY <4>1, <4>3
      <4>5. /\ Pairs(pre') = Pairs(pre) \cup Gives(line)
            /\ \A p \in Gives(line) : /\ pre'.prop[p].w = Weight(text[line])
                                    /\ pre'.prop[p].types = TypesAt(pre, p) \cup mask
            /\ \A p \in Pairs(pre) \ Gives(line) : pre'.prop[p] = pre.prop[p]
        BY <4>1, <4>2, <4>3
      <4>6. IsGraphOf(pre', pre'.rtypes, Done \cup {line})
        BY <2>1, <2>2, <2>3, <2>5, <4>4, <4>5, LineGrows
      <4> QED  BY <2>2, <4>6
    <3>2. CASE Overflow
      <4> DEFINE p == <<text[line].u, text[line].v>>
      <4>1. TooLate(line) /\ Gives(line) = {p}
        BY <2>6, <3>2 DEF Overflow, Gives
      <4>2. /\ Pairs(pre') = Pairs(pre) \cup {p}
            /\ pre'.prop[p].w = Weight(text[line]) /\ pre'.prop[p].types = TypesAt(pre, p)
            /\ \A q \in Pairs(pre) \ {p} : pre'.prop[q] = pre.prop[q]
        BY <3>2, OverflowAdds
      <4>3. /\ Pairs(pre') = Pairs(pre) \cup Gives(line)
            /\ \A q \in Gives(line) : /\ pre'.prop[q].w = Weight(text[line])
                                    /\ pre'.prop[q].types = TypesAt(pre, q) \cup {}
            /\ \A q \in Pairs(pre) \ Gives(line) : pre'.prop[q] = pre.prop[q]
        BY <4>1, <4>2
      <4>4. {} \in IF TypeOf(text[line]) = None \/ TooLate(line) THEN {{}} ELSE Bits(pre'.rtypes, line)
        BY <4>1
      <4>5. IsGraphOf(pre', pre'.rtypes, Done \cup {line})
        BY <2>1, <2>2, <2>3, <2>5, <4>3, <4>4, LineGrows
      <4> QED  BY <2>2, <4>5
    <3> QED  BY <1>3, <3>1, <3>2
  <2>8. ToSet(pre'.rtypes) = TypesOf(Done')
    BY <2>2, <2>3, <2>4 DEF TypesOf
  <2>9. IsGraphOf(pre, pre.rtypes, Done)'
    BY <2>2, <2>7, SameMeaning
  <2>10. ToSet(pre.rtypes)' = TypesOf(Done)'
    BY <2>2, <2>8, SameTypes
  <2> QED  BY <2>2, <2>4, <2>9, <2>10 DEF TextInv
<1>4. CASE DumpText
  <2>1. TypeOK'
    BY TypesKept
  <2>2. line' = 1 /\ pre' = NoGraph /\ pc' = "text" /\ old' = None
    BY <1>4 DEF DumpText, OldInv
  <2>3. Done' = {}
    <3>1. \A i \in Counted' : i \in 1 .. Len(text')
      BY <2>1, LenProperties DEF Counted, TypeOK
    <3> QED  BY <2>2, <3>1 DEF Done
  <2>4. ToSet(pre'.rtypes) = {} /\ IsInjective(pre'.rtypes)
    BY <2>2, NoGraphOK DEF ToSet, IsInjective
  <2>5. IsGraphOf(pre, pre.rtypes, Done)' /\ TypesOf(Done)' = {}
    BY <2>2, <2>3, NoGraphOK DEF IsGraphOf, TypesOf
  <2> QED  BY <2>2, <2>4, <2>5 DEF TextInv
<1>5. CASE \/ EndOfText \/ ConvertEdge \/ Converted \/ ConvertFails
           \/ Write \/ Load \/ LoadThrows \/ LoadAborts
  <2>1. pc' # "text"
    BY <1>5 DEF EndOfText, ConvertEdge, Converted, ConvertFails, Write, Load, LoadThrows, LoadAborts
  <2> QED  BY <2>1 DEF TextInv
<1>6. CASE UNCHANGED vars
  <2>1. text' = text /\ opt' = opt /\ pre' = pre /\ old' = old /\ line' = line /\ pc' = pc
    BY <1>6 DEF vars
  <2>2. Counted' = Counted
    BY <2>1 DEF Counted, Fails, Allowed
  <2>3. Done' = Done
    BY <2>1, <2>2 DEF Done
  <2>4. TypesOf(Done)' = TypesOf(Done)
    BY <2>1, <2>3, SameTypes
  <2> QED  BY <2>1, <2>3, <2>4, SameMeaning DEF TextInv
<1> QED  BY <1>1, <1>2, <1>3, <1>4, <1>5, <1>6 DEF Next

\* The graph of a file that has been read is that of its lines.
LEMMA RelationsStep ==
  ASSUME TypeOK, TextInv, OldInv, RelationsKept, [Next]_vars
  PROVE  RelationsKept'
<1>1. CASE EndOfText
  <2>1. /\ text' = text /\ opt' = opt /\ old' = old /\ kb'.prop = pre.prop
        /\ pc = "text" /\ line > Len(text)
    <3>1. DOMAIN kb = {"V", "prop", "rtypes", "sources"}
      BY DEF TypeOK, GraphOK, NoGraph
    <3> QED  BY <1>1, <3>1 DEF EndOfText
  <2>2. Done = Counted
    <3>1. Len(text) \in Nat /\ DOMAIN text = 1 .. Len(text) /\ line \in Nat
      BY LenProperties, <2>1 DEF TypeOK, TextInv
    <3> QED  BY <2>1, <3>1 DEF Done, Counted
  <2>3. IsGraphOf(pre, pre.rtypes, Counted)
    BY <2>1, <2>2 DEF TextInv
  <2>4. Pairs(kb') = Pairs(pre) /\ pre' = pre
    BY <1>1, <2>1 DEF EndOfText, Pairs
  <2>5. IsGraphOf(kb, pre.rtypes, Counted)'
    BY <2>1, <2>3, <2>4, SameLines DEF IsGraphOf
  <2> QED  BY <2>5 DEF RelationsKept
<1>2. CASE UNCHANGED vars
  <2>1. text' = text /\ opt' = opt /\ kb' = kb /\ pre' = pre /\ old' = old /\ pc' = pc
    BY <1>2 DEF vars
  <2>2. IsGraphOf(kb, pre.rtypes, Counted) => IsGraphOf(kb, pre.rtypes, Counted)'
    BY <2>1, SameLines DEF IsGraphOf
  <2> QED  BY <2>1, <2>2 DEF RelationsKept, Compiled
<1>3. CASE Converted
  BY <1>3 DEF Converted, OldInv, RelationsKept, Compiled
<1>4. CASE \/ Skip \/ Relate \/ Malformed \/ Overflow \/ ConvertEdge \/ ConvertFails
           \/ Write \/ Load \/ LoadThrows \/ LoadAborts \/ DumpText
  <2>1. pc' # "built"
    BY <1>4 DEF Skip, Relate, Malformed, Overflow, Reading, Taken, Passed, Caught, ConvertEdge,
                ConvertFails, Write, Load, LoadThrows, LoadAborts, DumpText
  <2> QED  BY <2>1 DEF RelationsKept, Compiled
<1> QED  BY <1>1, <1>2, <1>3, <1>4 DEF Next

-----------------------------------------------------------------------------
(* Old graphs are kept.                                                    *)

LEMMA OldKept ==
  ASSUME TypeOK, OldInv, [Next]_vars
  PROVE  OldInv'
<1> USE KbStoreAssumption
<1>1. CASE ConvertEdge
  <2> DEFINE e == old.edges[line]
  <2>1. /\ old \in OldGraphs /\ line \in 1 .. Len(old.edges) /\ old' = old /\ line' = line + 1
        /\ old # None /\ pc = "old"
    BY <1>1 DEF ConvertEdge, OldInv, TypeOK
  <2>2. /\ old.name[e.u] \in Names /\ old.name[e.v] \in Names
        /\ e.w \in Nat /\ e.types \in SUBSET (0 .. Width - 1)
    BY <2>1, OldEdge
  <2>3. pre' = Insert(pre, old.name[e.u], old.name[e.v], e.w, e.types)
    BY <1>1 DEF ConvertEdge
  <2>4. /\ Pairs(pre') = Pairs(pre) \cup {Ends(old, e)}
        /\ e.types \subseteq pre'.prop[Ends(old, e)].types
        /\ \A p \in Pairs(pre) : pre.prop[p].types \subseteq pre'.prop[p].types
    <3> HIDE DEF e
    <3>1. GraphOK(pre)
      BY DEF TypeOK
    <3> DEFINE u == old.name[e.u]
               v == old.name[e.v]
    <3>2. u \in Names /\ v \in Names /\ pre' = Insert(pre, u, v, e.w, e.types)
      BY <2>2, <2>3
    <3> HIDE DEF u, v
    <3>3. /\ GraphOK(pre')
          /\ Pairs(pre') = Pairs(pre) \cup {<<u, v>>}
          /\ pre'.prop[<<u, v>>].w = e.w /\ e.types \subseteq pre'.prop[<<u, v>>].types
          /\ \A p \in Pairs(pre) : pre.prop[p].types \subseteq pre'.prop[p].types
          /\ \A p \in Pairs(pre) : p # <<u, v>> => pre'.prop[p] = pre.prop[p]
          /\ pre'.rtypes = pre.rtypes /\ pre'.sources = pre.sources
      BY <2>2, <3>1, <3>2, InsertKeeps
    <3> QED  BY <3>3 DEF Ends, u, v
  <2>5. \A i \in 1 .. line' - 1 : i = line \/ i \in 1 .. line - 1
    BY <2>1
  <2>6. line \in 1 .. line' - 1 /\ \A i \in 1 .. line - 1 : i \in 1 .. line' - 1
    BY <2>1
  <2>7. \A i \in 1 .. line' - 1 :
           /\ Ends(old, old.edges[i]) \in Pairs(pre')
           /\ old.edges[i].types \subseteq pre'.prop[Ends(old, old.edges[i])].types
    BY <2>1, <2>4, <2>5 DEF OldInv
  <2>8. \A p \in Pairs(pre') : \E i \in 1 .. line' - 1 : Ends(old, old.edges[i]) = p
    BY <2>1, <2>4, <2>6 DEF OldInv
  <2>9. pc' = "old"
    BY <1>1 DEF ConvertEdge
  <2> QED  BY <2>1, <2>7, <2>8, <2>9 DEF OldInv, Pairs, Ends
<1>2. CASE \/ Skip \/ Relate \/ Malformed \/ Overflow \/ EndOfText \/ Converted \/ ConvertFails
           \/ Write \/ Load \/ LoadThrows \/ LoadAborts \/ DumpText
  BY <1>2 DEF Skip, Relate, Malformed, Overflow, EndOfText, Reading, Taken, Passed, Caught,
              Converted, ConvertFails, Write, Load, LoadThrows, LoadAborts, DumpText, OldInv
<1>3. CASE UNCHANGED vars
  BY <1>3 DEF vars, OldInv, Pairs, Ends
<1> QED  BY <1>1, <1>2, <1>3 DEF Next

\* The graph of an old one that has been converted has its edges and types.
LEMMA ConversionStep ==
  ASSUME TypeOK, TextInv, OldInv, ConversionKeeps, [Next]_vars
  PROVE  ConversionKeeps'
<1> USE KbStoreAssumption
<1>1. CASE Converted
  <2>1. old \in OldGraphs /\ old # None /\ old' = old /\ pc = "old" /\ line > Len(old.edges)
    BY <1>1 DEF Converted, OldInv, TypeOK
  <2>2. kb'.prop = pre.prop /\ kb'.rtypes = old.rtypes /\ Pairs(kb') = Pairs(pre)
    <3>1. DOMAIN pre = {"V", "prop", "rtypes", "sources"}
      BY DEF TypeOK, GraphOK, NoGraph
    <3> QED  BY <1>1, <3>1 DEF Converted, Pairs
  <2>3. OldFormat(old) /\ Len(old.edges) \in Nat /\ DOMAIN old.edges = 1 .. Len(old.edges)
    BY <2>1, LenProperties DEF OldFormat
  <2>4. 1 .. line - 1 = DOMAIN old.edges
    BY <2>1, <2>3 DEF TypeOK
  <2>5. ASSUME NEW i \in DOMAIN old.edges
        PROVE  LET e == old.edges[i] IN
               /\ Ends(old, e) \in Pairs(kb')
               /\ \A b \in e.types :
                    old.rtypes[b + 1] \in TypeNames(kb'.rtypes, kb'.prop[Ends(old, e)].types)
    <3> DEFINE e == old.edges[i]
               mask == kb'.prop[Ends(old, e)].types
    <3>1. Ends(old, e) \in Pairs(kb') /\ e.types \subseteq mask
      BY <2>1, <2>2, <2>4 DEF OldInv
    <3>2. e.types \subseteq 0 .. Len(old.rtypes) - 1
      BY <2>1, <2>3, OldEdge
    <3>3. Len(old.rtypes) \in Nat
      BY <2>3, LenProperties DEF OldFormat
    <3> HIDE DEF mask, e
    <3>4. ASSUME NEW b \in e.types
          PROVE  old.rtypes[b + 1] \in TypeNames(old.rtypes, mask)
      <4>1. b \in mask /\ b \in Nat /\ b < Len(old.rtypes) /\ old.rtypes # <<>>
        BY <3>1, <3>2, <3>3, <3>4
      <4> QED  BY <4>1 DEF TypeNames
    <3> QED  BY <2>2, <3>1, <3>4 DEF e, mask
  <2>6. ASSUME NEW p \in Pairs(kb')
        PROVE  \E i \in DOMAIN old.edges :
                 LET e == old.edges[i] IN Ends(old, e) = p /\ (p[1] = p[2] => e.u # e.v)
    <3>1. PICK i \in 1 .. line - 1 : Ends(old, old.edges[i]) = p
      BY <2>1, <2>2, <2>6 DEF OldInv
    <3>2. old.edges[i].u # old.edges[i].v
      BY <2>1, <2>3, <2>4, OldEdge
    <3> QED  BY <2>4, <3>1, <3>2
  <2> QED  BY <2>1, <2>5, <2>6 DEF ConversionKeeps, Ends, Pairs
<1>2. CASE UNCHANGED vars
  BY <1>2 DEF vars, ConversionKeeps, Pairs, Ends
<1>3. CASE EndOfText
  BY <1>3 DEF EndOfText, TextInv, ConversionKeeps
<1>4. CASE \/ Skip \/ Relate \/ Malformed \/ Overflow \/ ConvertEdge \/ ConvertFails
           \/ Write \/ Load \/ LoadThrows \/ LoadAborts \/ DumpText
  <2>1. pc' # "built"
    BY <1>4 DEF Skip, Relate, Malformed, Overflow, Reading, Taken, Passed, Caught, ConvertEdge,
                ConvertFails, Write, Load, LoadThrows, LoadAborts, DumpText
  <2> QED  BY <2>1 DEF ConversionKeeps
<1> QED  BY <1>1, <1>2, <1>3, <1>4 DEF Next

-----------------------------------------------------------------------------
(* Dumps and images.                                                       *)

LEMMA DumpKept ==
  ASSUME TypeOK, DumpInv, [Next]_vars
  PROVE  DumpInv'
<1> USE KbStoreAssumption
<1>1. CASE DumpText
  <2>1. text' = Dump(kb) /\ origin' = Pairs(kb) /\ pc' = "text" /\ GraphOK(kb)
    BY <1>1 DEF DumpText, TypeOK
  <2> QED  BY <2>1, DumpOK DEF DumpInv
<1>2. CASE Write
  BY <1>2 DEF Write, DumpInv
<1>3. CASE Skip \/ Relate \/ Malformed \/ Overflow \/ EndOfText
  <2>1. text' = text /\ origin' = origin /\ pc' \in {"text", "built", "failed"}
    BY <1>3 DEF Skip, Relate, Malformed, Overflow, EndOfText, NextLine, Reading, Taken, Passed, Caught
  <2> QED  BY <2>1 DEF DumpInv
<1>4. CASE ConvertEdge \/ Converted \/ ConvertFails \/ Load \/ LoadThrows \/ LoadAborts
  <2>1. pc \in {"old", "disk"} /\ origin' = origin
    BY <1>4 DEF ConvertEdge, Converted, ConvertFails, Load, LoadThrows, LoadAborts
  <2> QED  BY <2>1 DEF DumpInv
<1>5. CASE UNCHANGED vars
  BY <1>5 DEF vars, DumpInv
<1> QED  BY <1>1, <1>2, <1>3, <1>4, <1>5 DEF Next

\* The order of the parts of an image.
LEMMA PartsInOrder ==
  /\ Position("id1") = 1 /\ Position("sources") = 2 /\ Position("rtypes") = 3
  /\ Position("map") = 4 /\ Position("sizes") = 6 /\ Position("rows") = 8
  /\ Position("columns") = 9
  /\ {"sources", "rtypes", "map", "sizes", "rows", "columns"} \subseteq ToSet(Parts)
<1> DEFINE P == Parts
<1>1. /\ DOMAIN P = 1 .. 14
      /\ P[1] = "id1" /\ P[2] = "sources" /\ P[3] = "rtypes" /\ P[4] = "map"
      /\ P[5] = "id2" /\ P[6] = "sizes" /\ P[7] = "id3" /\ P[8] = "rows"
      /\ P[9] = "columns" /\ P[10] = "backward" /\ P[11] = "names" /\ P[12] = "props"
      /\ P[13] = "id4" /\ P[14] = "notes"
  BY DEF Parts
<1> HIDE DEF P
<1>2. \A i, j \in 1 .. 14 : P[i] = P[j] => i = j
  BY <1>1
<1>3. \A i \in 1 .. 14 : (CHOOSE j \in 1 .. 14 : P[j] = P[i]) = i
  BY <1>2
<1>4. \A i \in 1 .. 14 : Position(P[i]) = i
  BY <1>1, <1>3 DEF Position, P
<1> QED  BY <1>1, <1>4 DEF ToSet, P

\* A loaded graph has passed the assertions.
LEMMA CutStep ==
  ASSUME TypeOK, CutRefused, [Next]_vars
  PROVE  CutRefused'
<1>1. CASE Load
  <2>1. /\ Asserted /\ intact' = {p \in ToSet(Parts) : Read(p)}
        /\ kb' = kb /\ cut' = cut /\ cut.at \in Int
    BY <1>1, PartsOK DEF Load, TypeOK
  <2>2. SUFFICES ASSUME Pairs(kb) # {}
                 PROVE  /\ {"sources", "rtypes", "map", "sizes", "rows"} \subseteq intact'
                        /\ Sized("columns")
    BY <2>1 DEF CutRefused, Pairs, Sized, Whole
  <2>3. Whole("sizes") /\ Sized("columns")
    BY <2>1, <2>2 DEF Asserted
  <2>4. \A p \in {"sources", "rtypes", "map", "sizes", "rows"} : Whole(p)
    BY <2>1, <2>3, PartsInOrder DEF Whole, Sized
  <2> QED  BY <2>1, <2>3, <2>4, PartsInOrder DEF Read
<1>2. CASE UNCHANGED vars
  BY <1>2 DEF vars, CutRefused, Pairs, Sized, Whole
<1>3. CASE \/ Skip \/ Relate \/ Malformed \/ Overflow \/ EndOfText \/ ConvertEdge \/ Converted
           \/ ConvertFails \/ Write \/ LoadThrows \/ LoadAborts \/ DumpText
  <2>1. pc' # "loaded"
    BY <1>3 DEF Skip, Relate, Malformed, Overflow, Reading, Taken, Passed, Caught, EndOfText,
                ConvertEdge, Converted, ConvertFails, Write, LoadThrows, LoadAborts, DumpText
  <2> QED  BY <2>1 DEF CutRefused
<1> QED  BY <1>1, <1>2, <1>3 DEF Next

\* A dump that has been read has no types and, but for loops, counts as a whole.
LEMMA DumpIsKept == IInv => DumpKeepsEdges
<1> SUFFICES ASSUME IInv, Compiled, origin # None, ~ opt.filter
             PROVE  LET plain == {p \in origin : p[1] # p[2]} IN
                    Pairs(kb) = plain \cup IF opt.directed THEN {} ELSE {<<p[2], p[1]>> : p \in plain}
  BY DEF DumpKeepsEdges
<1> USE KbStoreAssumption
<1> DEFINE plain == {p \in origin : p[1] # p[2]}
           meant == UNION {Means(text[i]) : i \in Counted}
<1>1. /\ \A i \in DOMAIN text :
           /\ ~ text[i].comment /\ ~ text[i].bad /\ text[i].t = None /\ text[i].d = "1"
           /\ text[i].u # None /\ text[i].v # None
           /\ <<text[i].u, text[i].v>> \in origin
      /\ \A p \in origin : \E i \in DOMAIN text : <<text[i].u, text[i].v>> = p
  BY DEF IInv, DumpInv
<1>2. Counted = {i \in DOMAIN text : text[i].u # text[i].v}
  BY <1>1 DEF Counted, Fails, Allowed
<1>3. \A i \in Counted : Gives(i) = Means(text[i])
  BY <1>1, <1>2 DEF TypeOf, TooLate, Gives
<1>4. Pairs(kb) = meant
  <2>1. Pairs(kb) = UNION {Gives(i) : i \in Counted}
    BY DEF IInv, RelationsKept, IsGraphOf
  <2> QED  BY <1>3, <2>1
<1>5. \A i \in Counted :
        Means(text[i]) = {<<text[i].u, text[i].v>>}
                         \cup IF opt.directed THEN {} ELSE {<<text[i].v, text[i].u>>}
  BY <1>1, <1>2 DEF Means, Directed
<1>6. \A i \in Counted : <<text[i].u, text[i].v>> \in plain
  BY <1>1, <1>2
<1>7. \A p \in plain : \E i \in Counted :
        <<text[i].u, text[i].v>> = p /\ <<text[i].v, text[i].u>> = <<p[2], p[1]>>
  <2>1. SUFFICES ASSUME NEW p \in plain
                 PROVE  \E i \in Counted :
                          <<text[i].u, text[i].v>> = p /\ <<text[i].v, text[i].u>> = <<p[2], p[1]>>
    OBVIOUS
  <2>2. PICK i \in DOMAIN text : <<text[i].u, text[i].v>> = p
    BY <1>1
  <2>3. p[1] = text[i].u /\ p[2] = text[i].v
    BY <2>2
  <2> QED  BY <1>2, <2>2, <2>3
<1>8. CASE opt.directed
  <2>1. \A i \in Counted : Means(text[i]) = {<<text[i].u, text[i].v>>}
    BY <1>5, <1>8
  <2>2. meant \subseteq plain
    BY <1>6, <2>1
  <2>3. plain \subseteq meant
    BY <1>7, <2>1
  <2> QED  BY <1>4, <1>8, <2>2, <2>3
<1>9. CASE ~ opt.directed
  <2> DEFINE back == {<<p[2], p[1]>> : p \in plain}
  <2>1. ASSUME NEW i \in Counted
        PROVE  <<text[i].v, text[i].u>> \in back
    <3> DEFINE q == <<text[i].u, text[i].v>>
    <3>1. q \in plain /\ <<q[2], q[1]>> = <<text[i].v, text[i].u>>
      BY <1>6
    <3> QED  BY <3>1
  <2>2. meant \subseteq plain \cup back
    BY <1>5, <1>6, <1>9, <2>1
  <2>3. plain \cup back \subseteq meant
    BY <1>5, <1>7, <1>9
  <2> QED  BY <1>4, <1>9, <2>2, <2>3
<1> QED  BY <1>8, <1>9

-----------------------------------------------------------------------------
(* The theorems.                                                           *)

THEOREM Invariance == Spec => []IInv
<1>1. Init => IInv
  BY TypesInit, InvInit DEF IInv, Init, RelationsKept, Compiled, ConversionKeeps, CutRefused
<1>2. IInv /\ [Next]_vars => IInv'
  BY TypesKept, TextKept, OldKept, DumpKept, RelationsStep, ConversionStep, CutStep DEF IInv
<1> QED  BY <1>1, <1>2, PTL DEF Spec

\* Type correctness; the graph names the ends of its edges and its masks have no bit that
\* etype_t does not have.
THEOREM TypeCorrect == Spec => []TypeOK
<1>1. IInv => TypeOK
  BY DEF IInv
<1> QED  BY <1>1, Invariance, PTL

\* Reading a file line by line gives the graph that its relations mean together.
THEOREM FileIsGraph == Spec => []RelationsKept
<1>1. IInv => RelationsKept
  BY DEF IInv
<1> QED  BY <1>1, Invariance, PTL

\* Conversion keeps all edges and the names of their types, and makes no edges.
THEOREM OldIsGraph == Spec => []ConversionKeeps
<1>1. IInv => ConversionKeeps
  BY DEF IInv
<1> QED  BY <1>1, Invariance, PTL

\* An image that ends before its columns is never loaded.
THEOREM ShortImageRefused == Spec => []CutRefused
<1>1. IInv => CutRefused
  BY DEF IInv
<1> QED  BY <1>1, Invariance, PTL

\* What compile_kb -t writes has the same edges when it is read again.
THEOREM DumpIsFaithful == Spec => []DumpKeepsEdges
BY DumpIsKept, Invariance, PTL

-----------------------------------------------------------------------------
(* Vertices within a number of edges.                                      *)

Size == Cardinality(Vertices)

\* Within, of any graph.
Near(G, s) ==
  LET f[k \in 0 .. Size] ==
        IF k = 0 THEN {s}
        ELSE LET nearer == f[k - 1] IN nearer \cup UNION {ToSet(G[u]) : u \in nearer}
  IN f

AllGraphs == [Vertices -> Seq(Vertices)]

\* There is a finite number of vertices.
LEMMA SizeIsNumber == Size \in Nat
BY FS_CardinalityType, KbSearchAssumption DEF Size

\* Edges lead to vertices.
LEMMA RowsAreVertices ==
  ASSUME NEW G \in AllGraphs, NEW u \in Vertices
  PROVE  ToSet(G[u]) \subseteq Vertices
BY ElementOfSeq DEF AllGraphs, ToSet

\* Near is what its equations say.
LEMMA NearUnfolds ==
  ASSUME NEW G \in AllGraphs, NEW s \in Vertices
  PROVE  /\ Near(G, s) \in [0 .. Size -> SUBSET Vertices]
         /\ Near(G, s)[0] = {s}
         /\ \A k \in 1 .. Size : Near(G, s)[k] =
              Near(G, s)[k - 1] \cup UNION {ToSet(G[u]) : u \in Near(G, s)[k - 1]}
<1> DEFINE h == [A \in SUBSET Vertices |-> A \cup UNION {ToSet(G[u]) : u \in A}]
           E(f) == f = [k \in 0 .. Size |->
                     IF k = 0 THEN {s}
                     ELSE f[k - 1] \cup UNION {ToSet(G[u]) : u \in f[k - 1]}]
<1>1. h \in [SUBSET Vertices -> SUBSET Vertices]
  BY RowsAreVertices
<1>2. PICK g \in [0 .. Size -> SUBSET Vertices] : g[0] = {s} /\ \A k \in 1 .. Size : g[k] = h[g[k - 1]]
  <2> DEFINE V == SUBSET Vertices
             b == {s}
  <2>1. b \in V /\ h \in [V -> V]
    BY <1>1
  <2> HIDE DEF h, V, b
  <2>2. \E g \in [0 .. Size -> V] : Repeats(g, b, h, Size)
    BY <2>1, SizeIsNumber, Iterates
  <2>3. QED
    BY <2>2 DEF V, b, Repeats
<1>3. E(g)
  <2>1. \A k \in 1 .. Size : g[k - 1] \in SUBSET Vertices
    BY SizeIsNumber
  <2>2. \A k \in 0 .. Size : g[k] = IF k = 0 THEN {s} ELSE g[k - 1] \cup UNION {ToSet(G[u]) : u \in g[k - 1]}
    <3>1. \A A \in SUBSET Vertices : h[A] = A \cup UNION {ToSet(G[u]) : u \in A}
      OBVIOUS
    <3> HIDE DEF h
    <3>2. QED
      BY <1>2, <2>1, <3>1, SizeIsNumber
  <2>3. QED
    BY <2>2
<1>4. E(Near(G, s))
  <2>1. Near(G, s) = CHOOSE f : E(f)
    BY DEF Near
  <2>2. E(CHOOSE f : E(f))
    <3> HIDE DEF E
    <3> QED BY <1>3
  <2>3. QED
    BY <2>1, <2>2
<1>5. DOMAIN Near(G, s) = 0 .. Size
      /\ \A k \in 0 .. Size : Near(G, s)[k] =
           IF k = 0 THEN {s} ELSE Near(G, s)[k - 1] \cup UNION {ToSet(G[u]) : u \in Near(G, s)[k - 1]}
  <2> HIDE DEF E
  <2> DEFINE N == Near(G, s)
  <2>1. E(N)
    BY <1>4
  <2> HIDE DEF N
  <2>2. N = [k \in 0 .. Size |->
                     IF k = 0 THEN {s}
                     ELSE N[k - 1] \cup UNION {ToSet(G[u]) : u \in N[k - 1]}]
    BY <2>1 DEF E
  <2>3. DOMAIN N = 0 .. Size
      /\ \A k \in 0 .. Size : N[k] =
           IF k = 0 THEN {s} ELSE N[k - 1] \cup UNION {ToSet(G[u]) : u \in N[k - 1]}
    BY <2>2
  <2>4. QED
    BY <2>3 DEF N
<1>6. QED
  <2> DEFINE N == Near(G, s)
  <2>1. DOMAIN N = 0 .. Size
      /\ \A k \in 0 .. Size : N[k] =
           IF k = 0 THEN {s} ELSE N[k - 1] \cup UNION {ToSet(G[u]) : u \in N[k - 1]}
    BY <1>5
  <2>2. N = g
    <3> DEFINE P == {k \in Nat : N[k] = g[k]}
    <3>0. g[0] = {s}
      BY <1>2
    <3>2. \A k \in 1 .. Size : g[k] = g[k - 1] \cup UNION {ToSet(G[u]) : u \in g[k - 1]}
      BY <1>3, SizeIsNumber
    <3> HIDE DEF N
    <3>1. 0 \in P
      <4>1. N[0] = {s}
        BY <2>1, SizeIsNumber
      <4>2. QED
        BY <3>0, <4>1
    <3>3. ASSUME NEW k \in 0 .. Size - 1, k \in P PROVE k + 1 \in P
      <4>1. N[k] = g[k]
        BY <3>3
      <4>2. k + 1 \in 1 .. Size /\ (k + 1) - 1 = k /\ k + 1 # 0 /\ k + 1 \in 0 .. Size
        BY SizeIsNumber
      <4>3. g[k + 1] = g[k] \cup UNION {ToSet(G[u]) : u \in g[k]}
        BY <3>2, <4>2
      <4>4. N[k + 1] = N[k] \cup UNION {ToSet(G[u]) : u \in N[k]}
        BY <2>1, <4>2
      <4>5. N[k + 1] = g[k + 1] /\ k + 1 \in Nat
        BY <4>1, <4>3, <4>4, <4>2
      <4>6. QED
        BY <4>5
    <3>4. 0 .. Size \subseteq P
      <4> HIDE DEF P
      <4> QED BY <3>1, <3>3, SizeIsNumber, CountingUp
    <3>5. \A k \in 0 .. Size : N[k] = g[k]
      BY <3>4
    <3> HIDE DEF P
    <3>6. N = [k \in 0 .. Size |-> N[k]]
      BY <1>4 DEF N
    <3>7. QED
      BY <3>5, <3>6, <2>1
  <2>3. QED
    <3> HIDE DEF N
    <3>1. N \in [0 .. Size -> SUBSET Vertices]
      BY <2>2
    <3>2. N[0] = {s} /\ \A k \in 1 .. Size : N[k] = N[k - 1] \cup UNION {ToSet(G[u]) : u \in N[k - 1]}
      BY <2>1, SizeIsNumber
    <3>3. QED
      BY <3>1, <3>2 DEF N

Reachable(G, s) == Near(G, s)[Size]
Dst(G, s, v)    == Min({k \in DOMAIN Near(G, s) : v \in Near(G, s)[k]})

\* More edges reach no fewer vertices.
LEMMA NearGrows ==
  ASSUME NEW G \in AllGraphs, NEW s \in Vertices,
         NEW j \in 0 .. Size, NEW k \in 0 .. Size, j <= k
  PROVE  Near(G, s)[j] \subseteq Near(G, s)[k]
<1> DEFINE N == Near(G, s)
           P == {i \in Nat : j + i <= Size => N[j] \subseteq N[j + i]}
<1>1. \A i \in 1 .. Size : N[i - 1] \subseteq N[i]
  BY NearUnfolds
<1> HIDE DEF N
<1>2. 0 \in P
  OBVIOUS
<1>3. ASSUME NEW i \in 0 .. (k - j) - 1, i \in P PROVE i + 1 \in P
  <2>1. i + 1 \in Nat /\ j + (i + 1) \in Int
    OBVIOUS
  <2>2. CASE j + (i + 1) <= Size
    <3>1. j + (i + 1) \in 1 .. Size /\ (j + (i + 1)) - 1 = j + i /\ j + i <= Size
      BY <2>2, SizeIsNumber
    <3>2. N[j + i] \subseteq N[j + (i + 1)]
      BY <1>1, <3>1
    <3>3. N[j] \subseteq N[j + i]
      BY <1>3, <3>1
    <3>4. QED
      BY <2>1, <3>2, <3>3
  <2>3. QED
    BY <2>1, <2>2
<1>4. 0 .. (k - j) \subseteq P
  <2>1. k - j \in Nat
    BY SizeIsNumber
  <2> HIDE DEF P
  <2>2. QED
    BY <1>2, <1>3, <2>1, CountingUp
<1>5. N[j] \subseteq N[j + (k - j)]
  <2>1. k - j \in P
    BY <1>4, SizeIsNumber
  <2>2. QED
    BY <2>1, SizeIsNumber
<1>6. QED
  BY <1>5, SizeIsNumber DEF N

\* As many edges as there are vertices reach all that can be reached: if every number of
\* them reached more than the one before, there would be too many vertices.
LEMMA NearCloses ==
  ASSUME NEW G \in AllGraphs, NEW s \in Vertices
  PROVE  \A u \in Reachable(G, s) : ToSet(G[u]) \subseteq Reachable(G, s)
<1> DEFINE N == Near(G, s)
           H(A) == A \cup UNION {ToSet(G[u]) : u \in A}
<1>1. N \in [0 .. Size -> SUBSET Vertices] /\ N[0] = {s}
      /\ \A k \in 1 .. Size : N[k] = H(N[k - 1])
  BY NearUnfolds
<1>2. IsFiniteSet(Vertices) /\ Size \in Nat
  BY SizeIsNumber, KbSearchAssumption
<1> HIDE DEF N, H
<1>3. \A A \in SUBSET Vertices : IsFiniteSet(A) /\ Cardinality(A) \in Nat /\ Cardinality(A) <= Size
  BY <1>2, FS_Subset, FS_CardinalityType DEF Size
<1>4. \E k \in 1 .. Size : N[k] = N[k - 1]
  <2> SUFFICES ASSUME \A k \in 1 .. Size : N[k] # N[k - 1] PROVE FALSE
    OBVIOUS
  <2> DEFINE P == {k \in Nat : k <= Size => Cardinality(N[k]) >= k + 1}
  <2>1. 0 \in P
    <3>1. Cardinality({s}) = 1
      BY FS_Singleton
    <3>2. Cardinality(N[0]) >= 0 + 1
      BY <3>1, <1>1
    <3>3. QED
      BY <3>2
  <2>2. ASSUME NEW k \in 0 .. Size - 1, k \in P PROVE k + 1 \in P
    <3>1. k + 1 \in 1 .. Size /\ (k + 1) - 1 = k /\ k \in 0 .. Size /\ k + 1 \in 0 .. Size
      BY <1>2
    <3>2. N[k] \in SUBSET Vertices /\ N[k + 1] \in SUBSET Vertices
      BY <1>1, <3>1
    <3>3. N[k] \subseteq N[k + 1] /\ N[k + 1] # N[k]
      BY <1>1, <3>1 DEF H
    <3>4. Cardinality(N[k]) <= Cardinality(N[k + 1]) /\ Cardinality(N[k]) # Cardinality(N[k + 1])
      BY <1>3, <3>2, <3>3, FS_Subset
    <3>5. Cardinality(N[k]) \in Nat /\ Cardinality(N[k + 1]) \in Nat
      BY <1>3, <3>2
    <3>6. Cardinality(N[k]) >= k + 1
      BY <2>2, <3>1
    <3>7. Cardinality(N[k + 1]) >= (k + 1) + 1
      BY <3>4, <3>5, <3>6
    <3>8. QED
      BY <3>7
  <2>3. 0 .. Size \subseteq P
    <3> HIDE DEF P
    <3> QED BY <2>1, <2>2, <1>2, CountingUp
  <2>4. Cardinality(N[Size]) >= Size + 1
    BY <2>3, <1>2
  <2>5. N[Size] \in SUBSET Vertices
    BY <1>1, <1>2
  <2>6. QED
    BY <2>4, <2>5, <1>3, <1>2
<1>5. PICK k \in 1 .. Size : N[k] = N[k - 1]
  BY <1>4
<1>6. H(N[k - 1]) = N[k - 1]
  BY <1>1, <1>5
<1> DEFINE Q == {i \in Nat : (k - 1) + i <= Size => N[(k - 1) + i] = N[k - 1]}
<1>7. 0 \in Q
  OBVIOUS
<1>8. ASSUME NEW i \in 0 .. (Size - (k - 1)) - 1, i \in Q PROVE i + 1 \in Q
  <2>1. (k - 1) + (i + 1) \in 1 .. Size /\ ((k - 1) + (i + 1)) - 1 = (k - 1) + i
        /\ (k - 1) + i <= Size /\ i + 1 \in Nat
    BY <1>2
  <2>2. N[(k - 1) + i] = N[k - 1]
    BY <1>8, <2>1
  <2>3. N[(k - 1) + (i + 1)] = H(N[(k - 1) + i])
    BY <1>1, <2>1
  <2>4. N[(k - 1) + (i + 1)] = N[k - 1]
    BY <2>2, <2>3, <1>6
  <2>5. QED
    BY <2>1, <2>4
<1>9. Size - (k - 1) \in Q
  <2>1. Size - (k - 1) \in Nat
    BY <1>2
  <2> HIDE DEF Q
  <2>2. 0 .. (Size - (k - 1)) \subseteq Q
    BY <1>7, <1>8, <2>1, CountingUp
  <2>3. QED
    BY <2>1, <2>2
<1>10. N[Size] = N[k - 1]
  <2>1. (k - 1) + (Size - (k - 1)) = Size
    BY <1>2
  <2>2. QED
    BY <1>9, <2>1, <1>2
<1>11. H(N[Size]) = N[Size]
  BY <1>6, <1>10
<1>12. QED
  BY <1>11 DEF H, N, Reachable

\* The distance is the number of edges from which on a vertex is reached.
LEMMA DstIsLeast ==
  ASSUME NEW G \in AllGraphs, NEW s \in Vertices, NEW v \in Reachable(G, s)
  PROVE  /\ Dst(G, s, v) \in 0 .. Size
         /\ \A k \in 0 .. Size : v \in Near(G, s)[k] <=> Dst(G, s, v) <= k
<1> DEFINE N == Near(G, s)
           S == {k \in DOMAIN N : v \in N[k]}
<1>1. DOMAIN N = 0 .. Size /\ v \in N[Size]
  BY NearUnfolds DEF Reachable
<1>2. \A j, k \in 0 .. Size : j <= k => N[j] \subseteq N[k]
  BY NearGrows
<1> HIDE DEF N
<1>3. S \in SUBSET Nat /\ S # {}
  BY <1>1, SizeIsNumber
<1>4. \E m \in S : \A k \in S : m <= k
  <2> HIDE DEF S
  <2> QED BY <1>3, LeastNumber
<1>5. Min(S) \in S /\ \A k \in S : Min(S) <= k
  <2> HIDE DEF S
  <2> QED BY <1>4 DEF Min
<1>6. Dst(G, s, v) = Min(S)
  BY DEF Dst, N
<1> DEFINE d == Dst(G, s, v)
<1>7. d \in S /\ \A k \in S : d <= k
  BY <1>5, <1>6
<1> HIDE DEF d
<1>8. d \in 0 .. Size /\ \A k \in 0 .. Size : v \in N[k] <=> d <= k
  BY <1>1, <1>2, <1>7
<1>9. QED
  BY <1>8 DEF d, N

\* What distances are: one less at some vertex before, at most one more at those behind;
\* and all that can be reached is in every set that has the source and is closed.
LEMMA Distances ==
  ASSUME NEW G \in AllGraphs, NEW s \in Vertices
  PROVE  /\ Reachable(G, s) \in SUBSET Vertices
         /\ s \in Reachable(G, s)
         /\ \A v \in Reachable(G, s) : Dst(G, s, v) \in 0 .. Size
         /\ \A v \in Reachable(G, s) : Dst(G, s, v) = 0 <=> v = s
         /\ \A u \in Reachable(G, s), v \in Vertices :
              v \in ToSet(G[u]) => v \in Reachable(G, s) /\ Dst(G, s, v) <= Dst(G, s, u) + 1
         /\ \A v \in Reachable(G, s) : v # s =>
              \E u \in Reachable(G, s) : v \in ToSet(G[u]) /\ Dst(G, s, v) = Dst(G, s, u) + 1
<1> DEFINE N == Near(G, s)
           d(v) == Dst(G, s, v)
           R == Reachable(G, s)
<1>1. N \in [0 .. Size -> SUBSET Vertices] /\ N[0] = {s} /\ R = N[Size] /\ Size \in Nat
  BY NearUnfolds, SizeIsNumber DEF Reachable
<1>2. \A k \in 1 .. Size : N[k] = N[k - 1] \cup UNION {ToSet(G[u]) : u \in N[k - 1]}
  BY NearUnfolds
<1>3. \A j, k \in 0 .. Size : j <= k => N[j] \subseteq N[k]
  BY NearGrows
<1>4. \A u \in R : ToSet(G[u]) \subseteq R
  BY NearCloses
<1>5. \A v \in R : d(v) \in 0 .. Size /\ \A k \in 0 .. Size : v \in N[k] <=> d(v) <= k
  BY DstIsLeast
<1> HIDE DEF N, d, R
<1>6. R \in SUBSET Vertices /\ s \in R
  <2>1. 0 \in 0 .. Size /\ Size \in 0 .. Size
    BY <1>1
  <2>2. QED
    BY <1>1, <1>3, <2>1
<1>7. \A v \in R : d(v) = 0 <=> v = s
  <2> TAKE v \in R
  <2>1. v \in N[0] <=> d(v) <= 0
    BY <1>1, <1>5
  <2>2. QED
    BY <2>1, <1>1, <1>5
<1>8. ASSUME NEW u \in R, NEW v \in ToSet(G[u]) PROVE v \in R /\ d(v) <= d(u) + 1
  <2>1. v \in R /\ d(v) \in 0 .. Size /\ d(u) \in 0 .. Size
    BY <1>4, <1>5
  <2>2. CASE d(u) < Size
    <3>1. d(u) + 1 \in 1 .. Size /\ (d(u) + 1) - 1 = d(u) /\ d(u) + 1 \in 0 .. Size
      BY <2>1, <2>2, <1>1
    <3>2. u \in N[d(u)]
      BY <1>5, <2>1
    <3>3. v \in N[d(u) + 1]
      BY <1>2, <3>1, <3>2
    <3>4. QED
      BY <1>5, <2>1, <3>1, <3>3
  <2>3. CASE d(u) = Size
    BY <2>1, <2>3, <1>1
  <2>4. QED
    BY <2>1, <2>2, <2>3, <1>1
<1>9. ASSUME NEW v \in R, v # s PROVE \E u \in R : v \in ToSet(G[u]) /\ d(v) = d(u) + 1
  <2>1. d(v) \in 1 .. Size /\ d(v) - 1 \in 0 .. Size /\ d(v) \in 0 .. Size
    BY <1>5, <1>7, <1>9, <1>1
  <2>2. v \in N[d(v)] /\ v \notin N[d(v) - 1]
    BY <1>5, <2>1
  <2>3. PICK u \in N[d(v) - 1] : v \in ToSet(G[u])
    BY <1>2, <2>1, <2>2
  <2>4. u \in R
    <3>1. Size \in 0 .. Size /\ d(v) - 1 <= Size
      BY <1>1, <2>1
    <3>2. QED
      BY <1>3, <2>1, <3>1, <1>1
  <2>5. d(u) <= d(v) - 1
    BY <1>5, <2>1, <2>4
  <2>6. d(v) <= d(u) + 1
    BY <1>8, <2>3, <2>4
  <2>7. d(u) \in 0 .. Size
    BY <1>5, <2>4
  <2>8. QED
    BY <2>1, <2>3, <2>4, <2>5, <2>6, <2>7
<1>10. QED
  BY <1>5, <1>6, <1>7, <1>8, <1>9 DEF d, R

\* All that can be reached is in every set that has the source and is closed under edges.
LEMMA ReachableIsLeast ==
  ASSUME NEW G \in AllGraphs, NEW s \in Vertices, NEW C,
         s \in C, \A u \in C : ToSet(G[u]) \subseteq C
  PROVE  Reachable(G, s) \subseteq C
<1> DEFINE N == Near(G, s)
           P == {k \in Nat : k <= Size => N[k] \subseteq C}
<1>1. N[0] = {s} /\ \A k \in 1 .. Size : N[k] = N[k - 1] \cup UNION {ToSet(G[u]) : u \in N[k - 1]}
  BY NearUnfolds
<1> HIDE DEF N
<1>2. 0 \in P
  BY <1>1
<1>3. ASSUME NEW k \in 0 .. Size - 1, k \in P PROVE k + 1 \in P
  <2>1. k + 1 \in 1 .. Size /\ (k + 1) - 1 = k /\ k <= Size /\ k + 1 \in Nat
    BY SizeIsNumber
  <2>2. N[k] \subseteq C
    BY <1>3, <2>1
  <2>3. N[k + 1] = N[k] \cup UNION {ToSet(G[u]) : u \in N[k]}
    BY <1>1, <2>1
  <2>4. N[k + 1] \subseteq C
    BY <2>2, <2>3
  <2>5. QED
    BY <2>1, <2>4
<1>4. Size \in P
  <2> HIDE DEF P
  <2> QED BY <1>2, <1>3, SizeIsNumber, CountingUp
<1>5. QED
  BY <1>4, SizeIsNumber DEF Reachable, N

-----------------------------------------------------------------------------
(* The breadth first search, as a relation between the source, the vertices *)
(* seen, their parents, the queue and the rest of the edges of its head.    *)

\* Every vertex that has been seen is one edge farther from the source than its parent.
Tree(G, s, S, par) ==
  /\ S \subseteq Reachable(G, s) /\ s \in S
  /\ par \in [Vertices -> Vertices] /\ par[s] = s
  /\ \A v \in Vertices \ S : par[v] = v
  /\ \A v \in S \ {s} : /\ par[v] \in S /\ v \in ToSet(G[par[v]])
                        /\ Dst(G, s, v) = Dst(G, s, par[v]) + 1

\* The queue goes by distance. Nothing that is seen is farther than one edge from its head,
\* and nothing as near as its head is unseen. Edges that have not been followed leave
\* vertices of the queue.
Waiting(G, s, S, q, r) ==
  /\ q \in Seq(Vertices) /\ q # <<>> /\ r \in Seq(Vertices)
  /\ ToSet(q) \subseteq S /\ ToSet(r) \subseteq ToSet(G[Head(q)])
  /\ ToSet(G[Head(q)]) \subseteq S \cup ToSet(r)
  /\ \A i, j \in 1 .. Len(q) : i <= j => Dst(G, s, q[i]) <= Dst(G, s, q[j])
  /\ \A v \in S : Dst(G, s, v) <= Dst(G, s, Head(q)) + 1
  /\ \A v \in Reachable(G, s) : Dst(G, s, v) <= Dst(G, s, Head(q)) => v \in S
  /\ \A u \in S : u \in ToSet(q) \/ ToSet(G[u]) \subseteq S

Closed(G, S) == \A u \in S : ToSet(G[u]) \subseteq S

\* A search begins with its source.
LEMMA BeginKeeps ==
  ASSUME NEW G \in AllGraphs, NEW s \in Vertices
  PROVE  /\ Tree(G, s, {s}, [v \in Vertices |-> v])
         /\ Waiting(G, s, {s}, <<s>>, G[s])
<1>1. s \in Reachable(G, s) /\ Dst(G, s, s) = 0
  BY Distances
<1>2. \A v \in Reachable(G, s) : Dst(G, s, v) <= 0 => v = s
  BY Distances, SizeIsNumber
<1>3. <<s>> \in Seq(Vertices) /\ <<s>> # <<>> /\ Head(<<s>>) = s /\ Len(<<s>>) = 1 /\ ToSet(<<s>>) = {s}
  BY DEF ToSet
<1>4. G[s] \in Seq(Vertices)
  BY DEF AllGraphs
<1>5. Tree(G, s, {s}, [v \in Vertices |-> v])
  BY <1>1 DEF Tree
<1>6. \A i, j \in 1 .. 1 : i <= j => Dst(G, s, <<s>>[i]) <= Dst(G, s, <<s>>[j])
  BY <1>1
<1>7. QED
  BY <1>1, <1>2, <1>3, <1>4, <1>5, <1>6 DEF Waiting

\* An edge from the head to a vertex that is not seen leads one edge farther.
LEMMA DiscoverKeeps ==
  ASSUME NEW G \in AllGraphs, NEW s \in Vertices, NEW S, NEW par, NEW q, NEW r,
         Tree(G, s, S, par), Waiting(G, s, S, q, r),
         r # <<>>, Head(r) \notin S
  PROVE  /\ Tree(G, s, S \cup {Head(r)}, [par EXCEPT ![Head(r)] = Head(q)])
         /\ Waiting(G, s, S \cup {Head(r)}, Append(q, Head(r)), Tail(r))
         /\ Head(q) \in S /\ Head(r) \in Reachable(G, s)
<1> DEFINE u == Head(q)
           v == Head(r)
           d(x) == Dst(G, s, x)
           R == Reachable(G, s)
           T == S \cup {v}
           p == Append(q, v)
<1>1. /\ u \in Vertices /\ u \in ToSet(q) /\ u \in S /\ u \in R
      /\ v \in Vertices /\ v \in ToSet(r) /\ v \in ToSet(G[u])
      /\ Tail(r) \in Seq(Vertices) /\ ToSet(r) = {v} \cup ToSet(Tail(r))
  BY ElementsOfTail DEF Waiting, Tree
<1>2. R \subseteq Vertices /\ \A x \in R : d(x) \in Nat
  BY Distances, SizeIsNumber
<1>3. v \in R /\ d(v) <= d(u) + 1
  BY Distances, <1>1
<1>4. ~ (d(v) <= d(u))
  BY <1>1, <1>3 DEF Waiting
<1>5. d(v) = d(u) + 1
  BY <1>1, <1>2, <1>3, <1>4
<1>6. p \in Seq(Vertices) /\ p # <<>> /\ Len(p) = Len(q) + 1 /\ ToSet(p) = ToSet(q) \cup {v}
      /\ (\A i \in 1 .. Len(q) : p[i] = q[i]) /\ p[Len(q) + 1] = v
  BY ElementsOfAppend, <1>1 DEF Waiting
<1>7. Len(q) \in Nat /\ Len(q) > 0 /\ (\A i \in 1 .. Len(q) : q[i] \in S) /\ Head(q) = q[1]
  BY ElementsAreMembers, HeadTailProperties DEF Waiting
<1>8. Head(p) = u
  BY <1>6, <1>7, HeadTailProperties
<1>9. Tree(G, s, T, [par EXCEPT ![v] = u])
  <2>1. [par EXCEPT ![v] = u] \in [Vertices -> Vertices] /\ v # s
    BY <1>1 DEF Tree
  <2> HIDE DEF u, v, d, R
  <2>2. QED
    BY <2>1, <1>1, <1>3, <1>5 DEF Tree, d, R
<1>10. \A i, j \in 1 .. Len(p) : i <= j => d(p[i]) <= d(p[j])
  <2> SUFFICES ASSUME NEW i \in 1 .. Len(p), NEW j \in 1 .. Len(p), i <= j PROVE d(p[i]) <= d(p[j])
    OBVIOUS
  <2>1. CASE j <= Len(q)
    <3>1. i \in 1 .. Len(q) /\ j \in 1 .. Len(q) /\ p[i] = q[i] /\ p[j] = q[j]
      BY <2>1, <1>6, <1>7
    <3>2. QED
      BY <3>1 DEF Waiting
  <2>2. CASE j = Len(q) + 1 /\ i <= Len(q)
    <3>1. i \in 1 .. Len(q) /\ p[i] = q[i] /\ q[i] \in S /\ p[j] = v
      BY <2>2, <1>6, <1>7
    <3>2. d(q[i]) <= d(u) + 1
      BY <3>1 DEF Waiting
    <3>3. QED
      BY <3>1, <3>2, <1>5
  <2>3. CASE j = Len(q) + 1 /\ i = Len(q) + 1
    BY <2>3, <1>6, <1>3, <1>2
  <2>4. QED
    BY <2>1, <2>2, <2>3, <1>6, <1>7
<1>11. Waiting(G, s, T, p, Tail(r))
  <2>1. ToSet(p) \subseteq T /\ ToSet(Tail(r)) \subseteq ToSet(G[Head(p)])
        /\ ToSet(G[Head(p)]) \subseteq T \cup ToSet(Tail(r))
    BY <1>1, <1>6, <1>8 DEF Waiting
  <2>2. \A x \in T : d(x) <= d(Head(p)) + 1
    BY <1>5, <1>8, <1>2, <1>3 DEF Waiting
  <2>3. \A x \in R : d(x) <= d(Head(p)) => x \in T
    BY <1>8 DEF Waiting
  <2>4. \A x \in T : x \in ToSet(p) \/ ToSet(G[x]) \subseteq T
    BY <1>6 DEF Waiting
  <2>5. QED
    BY <1>1, <1>6, <1>10, <2>1, <2>2, <2>3, <2>4 DEF Waiting
<1>12. QED
  BY <1>1, <1>3, <1>9, <1>11

\* An edge to a vertex that has been seen changes nothing.
LEMMA SkipKeeps ==
  ASSUME NEW G \in AllGraphs, NEW s \in Vertices, NEW S, NEW q, NEW r,
         Waiting(G, s, S, q, r), r # <<>>, Head(r) \in S
  PROVE  Waiting(G, s, S, q, Tail(r))
<1>1. Tail(r) \in Seq(Vertices) /\ ToSet(r) = {Head(r)} \cup ToSet(Tail(r))
  BY ElementsOfTail DEF Waiting
<1>2. QED
  BY <1>1 DEF Waiting

\* When the edges of the head have been followed, the search goes on with the next vertex,
\* and if there is none all edges have been followed.
LEMMA PopKeeps ==
  ASSUME NEW G \in AllGraphs, NEW s \in Vertices, NEW S, NEW par, NEW q,
         Tree(G, s, S, par), Waiting(G, s, S, q, <<>>)
  PROVE  IF Len(q) > 1 THEN Waiting(G, s, S, Tail(q), G[q[2]]) /\ Tail(q) # <<>>
                       ELSE Closed(G, S) /\ Tail(q) = <<>>
<1> DEFINE u == Head(q)
           d(x) == Dst(G, s, x)
           R == Reachable(G, s)
           t == Tail(q)
<1>1. q \in Seq(Vertices) /\ q # <<>> /\ ToSet(q) \subseteq S /\ u = q[1] /\ Len(q) \in Nat /\ Len(q) > 0
  BY HeadTailProperties, ElementsAreMembers DEF Waiting
<1>2. t \in Seq(Vertices) /\ Len(t) = Len(q) - 1 /\ ToSet(q) = {u} \cup ToSet(t)
      /\ \A i \in 1 .. Len(t) : t[i] = q[i + 1] /\ i + 1 \in 1 .. Len(q)
  BY <1>1, ElementsOfTail
<1>3. ToSet(G[u]) \subseteq S
  BY DEF Waiting, ToSet
<1>4. \A x \in S : x \in ToSet(t) \/ ToSet(G[x]) \subseteq S
  BY <1>2, <1>3 DEF Waiting
<1>5. CASE Len(q) > 1
  <2> DEFINE w == q[2]
  <2>1. t # <<>> /\ Head(t) = w /\ w \in ToSet(t) /\ w \in S /\ w \in Vertices
    <3>1. Len(t) > 0 /\ 1 \in 1 .. Len(t)
      BY <1>5, <1>1, <1>2
    <3>2. t # <<>> /\ t[1] \in ToSet(t) /\ t[1] \in Vertices
      BY <3>1, <1>2, ElementsAreMembers
    <3>3. Head(t) = t[1] /\ t[1] = w
      BY <3>1, <3>2, <1>2, HeadTailProperties
    <3>4. QED
      BY <3>2, <3>3, <1>1, <1>2
  <2>2. R \subseteq Vertices /\ S \subseteq R /\ u \in S /\ \A x \in R : d(x) \in Nat
    BY Distances, SizeIsNumber, <1>1, <1>2 DEF Tree
  <2>3. d(u) <= d(w) /\ d(w) <= d(u) + 1
    <3>1. 1 \in 1 .. Len(q) /\ 2 \in 1 .. Len(q)
      BY <1>5, <1>1
    <3>2. QED
      BY <3>1, <1>1, <2>1 DEF Waiting
  <2>4. G[w] \in Seq(Vertices)
    BY <2>1 DEF AllGraphs
  <2>5. \A i, j \in 1 .. Len(t) : i <= j => d(t[i]) <= d(t[j])
    <3> SUFFICES ASSUME NEW i \in 1 .. Len(t), NEW j \in 1 .. Len(t), i <= j PROVE d(t[i]) <= d(t[j])
      OBVIOUS
    <3>1. t[i] = q[i + 1] /\ t[j] = q[j + 1] /\ i + 1 \in 1 .. Len(q) /\ j + 1 \in 1 .. Len(q) /\ i + 1 <= j + 1
      BY <1>2
    <3>2. QED
      BY <3>1 DEF Waiting
  <2>6. \A x \in ToSet(t) : d(w) <= d(x)
    <3> SUFFICES ASSUME NEW x \in ToSet(t) PROVE d(w) <= d(x)
      OBVIOUS
    <3>1. PICK i \in 1 .. Len(t) : x = t[i]
      BY <1>2, ElementsAreMembers DEF ToSet
    <3>2. i + 1 \in 1 .. Len(q) /\ 2 \in 1 .. Len(q) /\ 2 <= i + 1 /\ x = q[i + 1]
      BY <1>2, <1>1, <1>5, <3>1
    <3>3. QED
      BY <3>2 DEF Waiting
  <2>7. \A x \in S : d(x) <= d(w) + 1
    BY <2>2, <2>3, <2>1 DEF Waiting
  <2>8. ASSUME NEW x \in R, d(x) <= d(w) PROVE x \in S
    <3>1. CASE d(x) <= d(u)
      BY <3>1 DEF Waiting
    <3>2. CASE ~ (d(x) <= d(u))
      <4>1. d(x) = d(u) + 1 /\ d(w) = d(u) + 1
        BY <3>2, <2>8, <2>2, <2>3, <2>1
      <4>2. x # s
        BY <4>1, <2>2, Distances
      <4>3. PICK y \in R : x \in ToSet(G[y]) /\ d(x) = d(y) + 1
        BY <4>2, Distances
      <4>4. d(y) = d(u)
        BY <4>1, <4>3, <2>2
      <4>5. y \in S
        BY <4>4, <2>2 DEF Waiting
      <4>6. y \notin ToSet(t)
        BY <2>6, <4>1, <4>4, <2>2
      <4>7. QED
        BY <1>4, <4>3, <4>5, <4>6
    <3>3. QED
      BY <3>1, <3>2
  <2>9. Waiting(G, s, S, t, G[w])
    BY <1>1, <1>2, <1>4, <2>1, <2>4, <2>5, <2>7, <2>8 DEF Waiting
  <2>10. QED
    BY <1>5, <2>1, <2>9
<1>6. CASE Len(q) = 1
  <2>1. t = <<>>
    BY <1>2, <1>6, ElementsAreMembers
  <2>2. ToSet(t) = {}
    BY <2>1 DEF ToSet
  <2>3. QED
    BY <1>4, <1>6, <2>1, <2>2 DEF Closed
<1>7. Len(q) > 1 \/ Len(q) = 1
  <2>1. \A n \in Nat : n > 0 => n > 1 \/ n = 1
    OBVIOUS
  <2>2. QED
    BY <1>1, <2>1
<1>8. QED
  BY <1>5, <1>6, <1>7

\* Then all that can be reached has been seen.
LEMMA ClosedIsReachable ==
  ASSUME NEW G \in AllGraphs, NEW s \in Vertices, NEW S, NEW par,
         Tree(G, s, S, par), Closed(G, S)
  PROVE  S = Reachable(G, s)
<1>1. Reachable(G, s) \subseteq S
  BY ReachableIsLeast DEF Tree, Closed
<1>2. QED
  BY <1>1 DEF Tree

-----------------------------------------------------------------------------
(* The invariant of the searches.                                          *)

\* A path along the edges of the graph.
Leads(G, p) == /\ p \in Seq(Vertices) /\ p # <<>>
               /\ \A j \in 1 .. Len(p) - 1 : p[j + 1] \in ToSet(G[p[j]])

\* A shortest one, from the source.
ShortestPath(G, s, p) ==
  /\ Leads(G, p) /\ p[1] = s /\ Last(p) \in Reachable(G, s)
  /\ Len(p) = Dst(G, s, Last(p)) + 1

\* The end of one, as far as the walk along the parents has come.
PathEnd(G, s, S, p, a) ==
  /\ Leads(G, p) /\ p[1] = a
  /\ a \in S => /\ Last(p) \in Reachable(G, s)
                /\ Len(p) + Dst(G, s, a) = Dst(G, s, Last(p)) + 1

\* What a subgraph has at any time: the vertices that have been seen, and with each one
\* the edge that led to it.
Kept(G, s, n, S, par, b) ==
  /\ b \in [V : Seq(Vertices), E : [Vertices -> Seq(Vertices)], found : Nat]
  /\ n \in Nat /\ IsFiniteSet(S)
  /\ ToSet(b.V) = S /\ Len(b.V) = Cardinality(S) /\ b.found = Len(b.V) /\ b.found <= n
  /\ \A u \in Vertices : ToSet(b.E[u]) \subseteq S \cap ToSet(G[u])
  /\ \A v \in S \ {s} : /\ v \in ToSet(b.E[par[v]])
                        /\ par[v] \in ToSet(G[v]) => par[v] \in ToSet(b.E[v])

\* It has the edges of the vertices that the queue has let go, and those of its head that
\* have been followed.
Listed(G, S, q, r, b) ==
  /\ \A u \in S : u \in ToSet(q) \/ ToSet(G[u]) \subseteq ToSet(b.E[u])
  /\ ToSet(G[Head(q)]) \subseteq ToSet(b.E[Head(q)]) \cup ToSet(r)

\* It ends with all that can be reached and all of its edges, or with as many vertices as
\* it may have, and the others not nearer.
Ended(G, s, n, S, b) ==
  \/ Closed(G, S) /\ \A u \in S : ToSet(G[u]) \subseteq ToSet(b.E[u])
  \/ /\ b.found = n
     /\ Reachable(G, s) \ S # {}
     /\ \A v \in S, x \in Reachable(G, s) \ S : Dst(G, s, v) <= Dst(G, s, x)

SearchTyped ==
  /\ graph \in AllGraphs
  /\ cmd = [op |-> cmd.op, src |-> cmd.src, asked |-> cmd.asked, targets |-> cmd.targets,
            limit |-> cmd.limit]
  /\ cmd.src \in Queried
  /\ phase \in {"prompt", "search", "exit", "context", "built", "dfs"}
  /\ phase = "prompt" => cmd.op \in {"none", "show", "neighbours", "inverse"}
  /\ words \in Seq(Seq(Vertices)) /\ word \in Nat \ {0} /\ sense \in Nat \ {0}
  /\ at # Unknown => phase = "search" /\ cmd.op \in {"show", "paths"}

BfsInv ==
  phase = "search" =>
    /\ cmd.op \in {"show", "paths", "subgraph", "dgraph"} /\ cmd.src \in Vertices
    /\ Tree(graph, cmd.src, seen, parent)
    /\ queue # <<>> => Waiting(graph, cmd.src, seen, queue, rest)
    /\ queue = <<>> /\ cmd.op # "subgraph" => Closed(graph, seen)

SubInv ==
  /\ phase = "search" /\ cmd.op = "subgraph" =>
       /\ Kept(graph, cmd.src, cmd.limit, seen, parent, sub)
       /\ queue # <<>> => Listed(graph, seen, queue, rest, sub)
       /\ queue = <<>> => Ended(graph, cmd.src, cmd.limit, seen, sub)
  /\ phase = "exit" /\ cmd.op = "subgraph" /\ sub.V # <<>> =>
       /\ cmd.src \in Vertices
       /\ Tree(graph, cmd.src, seen, parent)
       /\ Kept(graph, cmd.src, cmd.limit, seen, parent, sub)
       /\ Ended(graph, cmd.src, cmd.limit, seen, sub)

\* Paths that have been printed are whole and lead to different vertices, none of them to a
\* target that is still to come; the last one may be on its way.
PathsSoFar(G, s, S, a, o, t) ==
  /\ a \in Queried /\ o \in Seq(Seq(Vertices)) /\ t \in Seq(Queried) /\ IsInjective(t)
  /\ \A i \in 1 .. Len(o) : (i = Len(o) /\ a # Unknown) \/ ShortestPath(G, s, o[i])
  /\ a # Unknown => /\ o # <<>> /\ t # <<>> /\ Last(Last(o)) = Head(t)
                    /\ PathEnd(G, s, S, Last(o), a)
  /\ \A i, j \in 1 .. Len(o) : Last(o[i]) = Last(o[j]) => i = j
  /\ \A i \in 1 .. Len(o), k \in 1 .. Len(t) : Last(o[i]) = t[k] => i = Len(o) /\ a # Unknown

PathsOut(G, s, o) ==
  /\ o \in Seq(Seq(Vertices))
  /\ o # <<>> => s \in Vertices
  /\ \A i \in 1 .. Len(o) : ShortestPath(G, s, o[i])
  /\ \A i, j \in 1 .. Len(o) : Last(o[i]) = Last(o[j]) => i = j

PathInv ==
  /\ phase = "search" /\ cmd.op \in {"show", "paths"} =>
       /\ queue # <<>> => at = Unknown /\ out = <<>>
       /\ cmd.op = "show" => cmd.targets \in Seq(Vertices)
       /\ PathsSoFar(graph, cmd.src, seen, at, out, cmd.targets)
  /\ phase = "exit" /\ cmd.op = "paths" => PathsOut(graph, cmd.src, out)

SearchInv == SearchTyped /\ BfsInv /\ SubInv /\ PathInv

-----------------------------------------------------------------------------

\* An edge is an entry of a row.
LEMMA EdgeIsInRow ==
  ASSUME NEW u, NEW v
  PROVE  Edge(u, v) <=> v \in ToSet(graph[u])
BY DEF Edge, ToSet

\* The graph is never changed while it is searched.
LEMMA GraphStays == [DgNext]_allVars => graph' = graph
<1>1. KbNext => graph' = graph
  <2>1. ShowNeighbours \/ ShowPath \/ SPaths \/ SubG \/ Quit => graph' = graph
    BY DEF ShowNeighbours, ShowPath, SPaths, SubG, Quit, Ask, kbVars
  <2>2. Step => graph' = graph
    BY DEF Step, ExamineEdge, NextVertex, TreeEdge, Terminate, NonTreeEdge,
      SubGDone, NextTarget, WalkUp, PathDone, kbVars
  <2>3. QED
    BY <2>1, <2>2 DEF KbNext
<1>2. DgStep => graph' = graph
  BY DEF DgStep, kbVars, NextSource, NextWord, FillPath, NextSense, BuiltBfs,
    StartDfs, DfsTreeEdge, DfsOtherEdge, DfsFinish, DfsDone, BuiltDfs
<1>3. UNCHANGED allVars => graph' = graph
  BY DEF allVars, kbVars
<1>4. QED
  BY <1>1, <1>2, <1>3 DEF DgNext

\* How a step can leave a search under way: it begins one, follows an edge, goes on to the
\* next vertex, is cut short, or leaves what has been searched alone.
Starts ==
  /\ phase \in {"prompt", "context"} /\ Begin(cmd'.src) /\ cmd'.src \in Vertices
  /\ cmd'.op \in {"show", "paths", "subgraph", "dgraph"}

Searches ==
  /\ phase = "search" /\ cmd'.op = cmd.op /\ cmd'.src = cmd.src /\ cmd'.limit = cmd.limit
  /\ \/ Examining /\ Discover(Head(queue), Head(rest)) /\ rest' = Tail(rest)
     \/ /\ Examining /\ Head(rest) \in seen /\ rest' = Tail(rest)
        /\ UNCHANGED <<seen, parent, queue>>
     \/ /\ queue # <<>> /\ rest = <<>> /\ queue' = Tail(queue)
        /\ rest' = IF Len(queue) > 1 THEN graph[queue[2]] ELSE <<>>
        /\ UNCHANGED <<seen, parent>>
     \/ Terminate
     \/ UNCHANGED searchVars

\* Every step that leads to a search or stays in it is one of these.
LEMMA SearchSteps ==
  ASSUME SearchTyped, [DgNext]_allVars, phase' = "search"
  PROVE  Starts \/ Searches
<1>1. CASE ShowNeighbours
  BY <1>1 DEF ShowNeighbours, Answered
<1>2. CASE ShowPath
  BY <1>2 DEF ShowPath, Ask, Answered, Starts, Queried
<1>3. CASE SPaths
  BY <1>3 DEF SPaths, Ask, Answered, Starts, Queried
<1>4. CASE SubG
  BY <1>4 DEF SubG, Ask, Answered, Starts, Queried
<1>5. CASE Quit
  BY <1>5 DEF Quit
<1>6. CASE ExamineEdge
  BY <1>6 DEF ExamineEdge, Examining, Searches
<1>7. CASE NextVertex
  BY <1>7 DEF NextVertex, Searches
<1>8. CASE TreeEdge
  BY <1>8 DEF TreeEdge, Examining, Searches
<1>9. CASE Terminate
  BY <1>9 DEF Terminate, Examining, Searches
<1>10. CASE NonTreeEdge
  BY <1>10 DEF NonTreeEdge, Examining, Searches
<1>11. CASE SubGDone
  BY <1>11 DEF SubGDone
<1>12. CASE NextTarget
  BY <1>12 DEF NextTarget, Searched, Searches, SearchTyped
<1>13. CASE WalkUp
  BY <1>13 DEF WalkUp, Searched, Searches
<1>14. CASE PathDone
  BY <1>14 DEF PathDone, Searched, Searches, SearchTyped
<1>15. CASE NextSource
  <2>1. words[word][sense] \in Vertices
    <3>1. word \in 1 .. Len(words) /\ sense \in 1 .. Len(words[word])
      BY <1>15 DEF NextSource, SearchTyped
    <3>2. words[word] \in Seq(Vertices)
      BY <3>1, ElementOfSeq DEF SearchTyped
    <3>3. QED
      BY <3>1, <3>2, ElementOfSeq
  <2>2. QED
    BY <1>15, <2>1 DEF NextSource, Starts
<1>16. CASE FillPath
  BY <1>16 DEF FillPath, Searched, Searches, SearchTyped
<1>17. CASE NextWord \/ NextSense \/ BuiltBfs \/ StartDfs \/ DfsTreeEdge \/ DfsOtherEdge
            \/ DfsFinish \/ DfsDone \/ BuiltDfs
  BY <1>17 DEF NextWord, NextSense, BuiltBfs, StartDfs, DfsTreeEdge, DfsOtherEdge,
    DfsFinish, DfsDone, BuiltDfs
<1>18. CASE UNCHANGED allVars
  BY <1>18 DEF allVars, kbVars, searchVars, Searches
<1>19. QED
  BY <1>1, <1>2, <1>3, <1>4, <1>5, <1>6, <1>7, <1>8, <1>9, <1>10, <1>11, <1>12, <1>13, <1>14,
    <1>15, <1>16, <1>17, <1>18 DEF DgNext, KbNext, Step, DgStep

\* The search keeps its tree and its queue.
LEMMA BfsKept ==
  ASSUME SearchTyped, BfsInv, [DgNext]_allVars
  PROVE  BfsInv'
<1>1. SUFFICES ASSUME phase' = "search" PROVE BfsInv'
  BY DEF BfsInv
<1>2. graph' = graph /\ graph \in AllGraphs
  BY GraphStays DEF SearchTyped
<1>3. CASE Starts
  <2>1. /\ seen' = {cmd'.src} /\ parent' = [v \in Vertices |-> v]
        /\ queue' = <<cmd'.src>> /\ rest' = graph[cmd'.src] /\ cmd'.src \in Vertices
        /\ cmd'.op \in {"show", "paths", "subgraph", "dgraph"}
    BY <1>3 DEF Starts, Begin
  <2>2. Tree(graph, cmd'.src, seen', parent') /\ Waiting(graph, cmd'.src, seen', queue', rest')
    BY <1>2, <2>1, BeginKeeps
  <2>3. queue' # <<>>
    BY <2>1
  <2>4. QED
    BY <1>2, <2>1, <2>2, <2>3 DEF BfsInv
<1>4. CASE Searches
  <2> DEFINE s == cmd.src
  <2>1. /\ phase = "search" /\ cmd'.src = s /\ cmd'.op = cmd.op /\ s \in Vertices
        /\ cmd.op \in {"show", "paths", "subgraph", "dgraph"} /\ Tree(graph, s, seen, parent)
        /\ queue # <<>> => Waiting(graph, s, seen, queue, rest)
        /\ queue = <<>> /\ cmd.op # "subgraph" => Closed(graph, seen)
    BY <1>4 DEF Searches, BfsInv
  <2>2. SUFFICES /\ Tree(graph, s, seen', parent')
                 /\ queue' # <<>> => Waiting(graph, s, seen', queue', rest')
                 /\ queue' = <<>> /\ cmd.op # "subgraph" => Closed(graph, seen')
    BY <1>2, <2>1 DEF BfsInv
  <2>3. CASE Examining /\ Discover(Head(queue), Head(rest)) /\ rest' = Tail(rest)
    <3>1. /\ queue # <<>> /\ rest # <<>> /\ Head(rest) \notin seen
          /\ seen' = seen \cup {Head(rest)} /\ parent' = [parent EXCEPT ![Head(rest)] = Head(queue)]
          /\ queue' = Append(queue, Head(rest)) /\ rest' = Tail(rest)
      BY <2>3 DEF Examining, Discover
    <3>2. /\ Tree(graph, s, seen', parent') /\ Waiting(graph, s, seen', queue', rest')
      BY <1>2, <2>1, <3>1, DiscoverKeeps
    <3>3. queue' # <<>>
      BY <3>2 DEF Waiting
    <3>4. QED
      BY <3>2, <3>3
  <2>4. CASE /\ Examining /\ Head(rest) \in seen /\ rest' = Tail(rest)
             /\ UNCHANGED <<seen, parent, queue>>
    BY <1>2, <2>1, <2>4, SkipKeeps DEF Examining
  <2>5. CASE /\ queue # <<>> /\ rest = <<>> /\ queue' = Tail(queue)
             /\ rest' = IF Len(queue) > 1 THEN graph[queue[2]] ELSE <<>>
             /\ UNCHANGED <<seen, parent>>
    BY <1>2, <2>1, <2>5, PopKeeps
  <2>6. CASE Terminate
    BY <2>1, <2>6 DEF Terminate
  <2>7. CASE UNCHANGED searchVars
    BY <2>1, <2>7 DEF searchVars
  <2>8. QED
    BY <1>4, <2>3, <2>4, <2>5, <2>6, <2>7 DEF Searches
<1>5. QED
  BY <1>1, <1>3, <1>4, SearchSteps

-----------------------------------------------------------------------------
(* The subgraph.                                                           *)

\* It begins with its first vertex.
LEMMA KeptBegins ==
  ASSUME NEW G \in AllGraphs, NEW s \in Vertices, NEW n \in Nat \ {0}, NEW b,
         b = [V |-> <<s>>, E |-> [v \in Vertices |-> <<>>], found |-> 1]
  PROVE  /\ Kept(G, s, n, {s}, [v \in Vertices |-> v], b)
         /\ Listed(G, {s}, <<s>>, G[s], b)
<1>2. [v \in Vertices |-> <<>>] \in [Vertices -> Seq(Vertices)] /\ <<s>> \in Seq(Vertices)
  OBVIOUS
<1>3. b.V = <<s>> /\ b.E = [v \in Vertices |-> <<>>] /\ b.found = 1
  OBVIOUS
<1>4. b \in [V : Seq(Vertices), E : [Vertices -> Seq(Vertices)], found : Nat]
  BY <1>2
<1>5. Head(<<s>>) = s /\ Len(<<s>>) = 1 /\ ToSet(<<s>>) = {s} /\ ToSet(<<>>) = {}
  BY DEF ToSet
<1>6. IsFiniteSet({s}) /\ Cardinality({s}) = 1
  BY FS_Singleton
<1>7. ToSet(b.V) = {s} /\ Len(b.V) = Cardinality({s}) /\ b.found = Len(b.V) /\ b.found <= n
  BY <1>3, <1>5, <1>6
<1>8. \A u \in Vertices : ToSet(b.E[u]) \subseteq {s} \cap ToSet(G[u])
  BY <1>3, <1>5
<1>9. Kept(G, s, n, {s}, [v \in Vertices |-> v], b)
  <2> DEFINE id == [v \in Vertices |-> v]
  <2> HIDE DEF id
  <2>1. Kept(G, s, n, {s}, id, b)
    BY <1>4, <1>6, <1>7, <1>8 DEF Kept
  <2>2. QED
    BY <2>1 DEF id
<1>10. QED
  BY <1>9, <1>5 DEF Listed

\* Two subgraphs, the second with another vertex and with the edges that led to it.
Grown(G, u, v, b, c) ==
  /\ c \in [V : Seq(Vertices), E : [Vertices -> Seq(Vertices)], found : Nat]
  /\ c.V = Append(b.V, v) /\ c.found = b.found + 1
  /\ \A x \in Vertices : c.E[x] =
       IF x = u THEN Append(b.E[u], v)
       ELSE IF x = v /\ u \in ToSet(G[v]) THEN Append(b.E[v], u) ELSE b.E[x]

\* The second with another edge.
Longer(u, v, b, c) ==
  /\ c \in [V : Seq(Vertices), E : [Vertices -> Seq(Vertices)], found : Nat]
  /\ c.V = b.V /\ c.found = b.found
  /\ \A x \in Vertices : c.E[x] = IF x = u THEN Append(b.E[u], v) ELSE b.E[x]

\* No edge of the first is missing in the second, which has this one too.
HasMore(u, v, b, c) ==
  /\ \A x \in Vertices : ToSet(b.E[x]) \subseteq ToSet(c.E[x])
  /\ v \in ToSet(c.E[u])

\* A vertex that is discovered is added with its edges.
LEMMA KeptGrows ==
  ASSUME NEW G \in AllGraphs, NEW s, NEW n, NEW S, NEW par, NEW b, NEW c,
         NEW u \in S, NEW v \in Vertices \ S,
         S \subseteq Vertices, par \in [Vertices -> Vertices], v \in ToSet(G[u]),
         Kept(G, s, n, S, par, b), b.found < n, Grown(G, u, v, b, c)
  PROVE  Kept(G, s, n, S \cup {v}, [par EXCEPT ![v] = u], c) /\ HasMore(u, v, b, c)
<1>1. /\ b.V \in Seq(Vertices) /\ b.E \in [Vertices -> Seq(Vertices)] /\ b.found \in Nat
      /\ n \in Nat /\ IsFiniteSet(S) /\ ToSet(b.V) = S /\ Len(b.V) = Cardinality(S)
      /\ b.found = Len(b.V)
  BY DEF Kept
<1>2. u # v /\ u \in Vertices
  OBVIOUS
<1>16. /\ c \in [V : Seq(Vertices), E : [Vertices -> Seq(Vertices)], found : Nat]
       /\ c.V = Append(b.V, v) /\ c.found = b.found + 1
       /\ \A x \in Vertices : c.E[x] =
            IF x = u THEN Append(b.E[u], v)
            ELSE IF x = v /\ u \in ToSet(G[v]) THEN Append(b.E[v], u) ELSE b.E[x]
  BY DEF Grown
<1>3. \A x, y \in Vertices : /\ Append(b.E[x], y) \in Seq(Vertices)
                             /\ ToSet(Append(b.E[x], y)) = ToSet(b.E[x]) \cup {y}
  <2> SUFFICES ASSUME NEW x \in Vertices, NEW y \in Vertices
               PROVE  /\ Append(b.E[x], y) \in Seq(Vertices)
                      /\ ToSet(Append(b.E[x], y)) = ToSet(b.E[x]) \cup {y}
    OBVIOUS
  <2>1. b.E[x] \in Seq(Vertices)
    BY <1>1
  <2>2. QED
    BY <2>1, ElementsOfAppend
<1>4. /\ ToSet(c.E[u]) = ToSet(b.E[u]) \cup {v}
      /\ u \in ToSet(G[v]) => ToSet(c.E[v]) = ToSet(b.E[v]) \cup {u}
      /\ u \notin ToSet(G[v]) => ToSet(c.E[v]) = ToSet(b.E[v])
      /\ \A x \in Vertices \ {u, v} : ToSet(c.E[x]) = ToSet(b.E[x])
  <2>1. c.E[u] = Append(b.E[u], v) /\ \A x \in Vertices \ {u, v} : c.E[x] = b.E[x]
    BY <1>2, <1>16
  <2>2. c.E[v] = IF u \in ToSet(G[v]) THEN Append(b.E[v], u) ELSE b.E[v]
    BY <1>2, <1>16
  <2>3. QED
    BY <1>2, <1>3, <2>1, <2>2
<1>5. /\ \A x \in Vertices : ToSet(b.E[x]) \subseteq ToSet(c.E[x])
      /\ v \in ToSet(c.E[u])
      /\ u \in ToSet(G[v]) => u \in ToSet(c.E[v])
  <2>1. ASSUME NEW x \in Vertices PROVE ToSet(b.E[x]) \subseteq ToSet(c.E[x])
    <3>1. x = u \/ x = v \/ x \in Vertices \ {u, v}
      OBVIOUS
    <3>2. QED
      BY <3>1, <1>4
  <2>2. QED
    BY <2>1, <1>4
<1>6. Append(b.V, v) \in Seq(Vertices) /\ Len(Append(b.V, v)) = Len(b.V) + 1
      /\ ToSet(Append(b.V, v)) = S \cup {v}
  BY <1>1, ElementsOfAppend
<1>7. IsFiniteSet(S \cup {v}) /\ Cardinality(S \cup {v}) = Cardinality(S) + 1
  BY <1>1, FS_AddElement
<1>9. \A x \in Vertices : ToSet(b.E[x]) \subseteq S \cap ToSet(G[x])
  BY DEF Kept
<1>10. \A x \in Vertices : ToSet(c.E[x]) \subseteq (S \cup {v}) \cap ToSet(G[x])
  <2> TAKE x \in Vertices
  <2>1. x = u \/ x = v \/ x \in Vertices \ {u, v}
    OBVIOUS
  <2>2. ToSet(b.E[x]) \subseteq S \cap ToSet(G[x])
    BY <1>9
  <2>3. CASE x = u
    BY <2>2, <2>3, <1>4
  <2>4. CASE x # u
    BY <2>1, <2>2, <2>4, <1>4
  <2>5. QED
    BY <2>3, <2>4
<1> DEFINE q == [par EXCEPT ![v] = u]
<1>11. q[v] = u /\ \A x \in S \ {s} : q[x] = par[x] /\ q[x] \in Vertices /\ x \in Vertices
  OBVIOUS
<1> HIDE DEF q
<1>12. ASSUME NEW x \in (S \cup {v}) \ {s}
       PROVE  x \in ToSet(c.E[q[x]]) /\ (q[x] \in ToSet(G[x]) => q[x] \in ToSet(c.E[x]))
  <2>1. CASE x = v
    BY <2>1, <1>5, <1>11
  <2>2. CASE x # v
    <3>1. x \in S \ {s}
      BY <2>2
    <3>2. x \in ToSet(b.E[par[x]]) /\ (par[x] \in ToSet(G[x]) => par[x] \in ToSet(b.E[x]))
      BY <3>1 DEF Kept
    <3>3. QED
      BY <3>1, <3>2, <1>5, <1>11
  <2>3. QED
    BY <2>1, <2>2
<1>13. ToSet(c.V) = S \cup {v} /\ Len(c.V) = Cardinality(S \cup {v})
       /\ c.found = Len(c.V) /\ c.found <= n
  BY <1>1, <1>6, <1>7, <1>16
<1>14. Kept(G, s, n, S \cup {v}, q, c)
  BY <1>1, <1>7, <1>10, <1>12, <1>13, <1>16 DEF Kept
<1>15. QED
  BY <1>14, <1>5 DEF q, HasMore

\* An edge to a vertex that is there is listed.
LEMMA KeptLists ==
  ASSUME NEW G, NEW s, NEW n, NEW S, NEW par \in [Vertices -> Vertices], NEW b, NEW c,
         NEW u \in S, NEW v \in S, S \subseteq Vertices, v \in ToSet(G[u]),
         Kept(G, s, n, S, par, b), Longer(u, v, b, c)
  PROVE  Kept(G, s, n, S, par, c) /\ HasMore(u, v, b, c)
<1>1. /\ b.V \in Seq(Vertices) /\ b.E \in [Vertices -> Seq(Vertices)] /\ b.found \in Nat
      /\ u \in Vertices /\ v \in Vertices
      /\ c \in [V : Seq(Vertices), E : [Vertices -> Seq(Vertices)], found : Nat]
      /\ c.V = b.V /\ c.found = b.found
  BY DEF Kept, Longer
<1>2. Append(b.E[u], v) \in Seq(Vertices) /\ ToSet(Append(b.E[u], v)) = ToSet(b.E[u]) \cup {v}
  <2>1. b.E[u] \in Seq(Vertices)
    BY <1>1
  <2>2. QED
    BY <1>1, <2>1, ElementsOfAppend
<1>4. \A x \in Vertices : ToSet(b.E[x]) \subseteq S \cap ToSet(G[x])
  BY DEF Kept
<1>5. /\ \A x \in Vertices : ToSet(b.E[x]) \subseteq ToSet(c.E[x])
      /\ v \in ToSet(c.E[u])
      /\ \A x \in Vertices : ToSet(c.E[x]) \subseteq S \cap ToSet(G[x])
  BY <1>1, <1>2, <1>4 DEF Longer
<1>6. \A x \in S \ {s} : /\ x \in ToSet(c.E[par[x]])
                         /\ par[x] \in ToSet(G[x]) => par[x] \in ToSet(c.E[x])
  <2> TAKE x \in S \ {s}
  <2>1. /\ x \in ToSet(b.E[par[x]]) /\ x \in Vertices /\ par[x] \in Vertices
        /\ par[x] \in ToSet(G[x]) => par[x] \in ToSet(b.E[x])
    BY DEF Kept
  <2>2. QED
    BY <2>1, <1>5
<1>7. Kept(G, s, n, S, par, c)
  <2>1. n \in Nat /\ IsFiniteSet(S) /\ ToSet(c.V) = S /\ Len(c.V) = Cardinality(S)
        /\ c.found = Len(c.V) /\ c.found <= n
    BY <1>1 DEF Kept
  <2>2. QED
    BY <2>1, <1>1, <1>5, <1>6 DEF Kept
<1>8. QED
  BY <1>5, <1>7 DEF HasMore

\* A search cut short has the vertices nearest to its source: what has not been seen is
\* farther than the head of the queue.
LEMMA CutShort ==
  ASSUME NEW G \in AllGraphs, NEW s \in Vertices, NEW S, NEW par, NEW q, NEW r, NEW n, NEW b,
         Tree(G, s, S, par), Waiting(G, s, S, q, r), r # <<>>, Head(r) \notin S, b.found = n
  PROVE  Ended(G, s, n, S, b)
<1> DEFINE R == Reachable(G, s)
           u == Head(q)
           d(x) == Dst(G, s, x)
<1>1. Head(r) \in R \ S /\ u \in S
  BY DiscoverKeeps
<1>2. S \subseteq R /\ \A x \in R : d(x) \in Nat
  BY Distances, SizeIsNumber DEF Tree
<1>3. ASSUME NEW v \in S, NEW x \in R \ S PROVE d(v) <= d(x)
  <2>1. d(v) <= d(u) + 1 /\ ~ (d(x) <= d(u))
    BY DEF Waiting
  <2>2. d(v) \in Nat /\ d(u) \in Nat /\ d(x) \in Nat
    BY <1>1, <1>2
  <2>3. QED
    BY <2>1, <2>2
<1>4. QED
  BY <1>1, <1>3 DEF Ended

\* The subgraph has what has been seen.
LEMMA SubKept ==
  ASSUME SearchTyped, BfsInv, SubInv, [DgNext]_allVars
  PROVE  SubInv'
<1> DEFINE G == graph
           s == cmd.src
           n == cmd.limit
<1>1. graph' = graph /\ graph \in AllGraphs
  BY GraphStays DEF SearchTyped
<1>2. CASE SubG
  <2>1. PICK u \in Queried, k \in Limits : SubG!(u, k)
    BY <1>2 DEF SubG
  <2>2. cmd' = [op |-> "subgraph", src |-> u, asked |-> ToSet(<<>>), targets |-> <<>>, limit |-> k]
    BY <2>1 DEF Ask
  <2>3. CASE u = Unknown \/ k = 0
    <3>1. sub'.V = <<>> /\ phase' = "exit"
      BY <2>1, <2>2, <2>3 DEF NoSub, Answered
    <3>2. QED
      BY <3>1 DEF SubInv
  <2>4. CASE ~ (u = Unknown \/ k = 0)
    <3>1. u \in Vertices /\ k \in Nat \ {0}
      BY <2>4, KbSearchAssumption DEF Queried
    <3>2. sub' = [V |-> <<u>>, E |-> [v \in Vertices |-> <<>>], found |-> 1]
      BY <2>1, <2>4 DEF NoSub
    <3>3. /\ queue' = <<u>> /\ rest' = graph[u] /\ seen' = {u}
          /\ parent' = [v \in Vertices |-> v] /\ phase' = "search"
      BY <2>1, <2>4 DEF Begin
    <3>4. /\ Kept(graph, u, k, {u}, [v \in Vertices |-> v], sub')
          /\ Listed(graph, {u}, <<u>>, graph[u], sub')
      BY <1>1, <3>1, <3>2, KeptBegins
    <3>5. queue' # <<>> /\ cmd'.src = u /\ cmd'.limit = k
      BY <2>2, <3>3
    <3>6. QED
      BY <1>1, <3>3, <3>4, <3>5 DEF SubInv
  <2>5. QED
    BY <2>3, <2>4
<1>3. ASSUME Examining, cmd.op = "subgraph"
      PROVE  /\ s \in Vertices /\ Tree(G, s, seen, parent) /\ Waiting(G, s, seen, queue, rest)
             /\ queue # <<>> /\ rest # <<>> /\ phase = "search"
             /\ Kept(G, s, n, seen, parent, sub) /\ Listed(G, seen, queue, rest, sub)
             /\ seen \subseteq Vertices /\ parent \in [Vertices -> Vertices]
             /\ Head(queue) \in seen /\ Head(rest) \in Vertices
             /\ Head(rest) \in ToSet(G[Head(queue)])
             /\ ToSet(rest) = {Head(rest)} \cup ToSet(Tail(rest))
  <2>1. /\ s \in Vertices /\ Tree(G, s, seen, parent) /\ Waiting(G, s, seen, queue, rest)
        /\ queue # <<>> /\ rest # <<>> /\ phase = "search"
        /\ Kept(G, s, n, seen, parent, sub) /\ Listed(G, seen, queue, rest, sub)
    BY <1>3 DEF Examining, BfsInv, SubInv
  <2>2. seen \subseteq Vertices /\ parent \in [Vertices -> Vertices]
    BY <1>1, <2>1, Distances DEF Tree
  <2>3. /\ queue \in Seq(Vertices) /\ rest \in Seq(Vertices)
        /\ ToSet(queue) \subseteq seen /\ ToSet(rest) \subseteq ToSet(G[Head(queue)])
    BY <2>1 DEF Waiting
  <2>4. /\ Head(queue) \in ToSet(queue) /\ Head(rest) \in Vertices
        /\ ToSet(rest) = {Head(rest)} \cup ToSet(Tail(rest))
    BY <2>1, <2>3, ElementsOfTail
  <2>5. QED
    BY <2>1, <2>2, <2>3, <2>4
<1>4. CASE TreeEdge
  <2> DEFINE u == Head(queue)
             v == Head(rest)
  <2>1. /\ Examining /\ cmd.op = "subgraph" /\ sub.found < n /\ v \notin seen
        /\ seen' = seen \cup {v} /\ parent' = [parent EXCEPT ![v] = u]
        /\ queue' = Append(queue, v) /\ rest' = Tail(rest)
        /\ sub' = AddTreeEdge(sub, u, v) /\ cmd' = cmd /\ phase' = "search"
    BY <1>4 DEF TreeEdge, Discover, Examining
  <2>2. /\ s \in Vertices /\ Tree(G, s, seen, parent) /\ Waiting(G, s, seen, queue, rest)
        /\ queue # <<>> /\ rest # <<>>
        /\ Kept(G, s, n, seen, parent, sub) /\ Listed(G, seen, queue, rest, sub)
        /\ seen \subseteq Vertices /\ parent \in [Vertices -> Vertices]
        /\ u \in seen /\ v \in Vertices /\ v \in ToSet(G[u])
        /\ ToSet(rest) = {v} \cup ToSet(Tail(rest))
    BY <2>1, <1>3, <1>4
  <2>3. sub \in [V : Seq(Vertices), E : [Vertices -> Seq(Vertices)], found : Nat]
    BY <2>2 DEF Kept
  <2>4. Grown(G, u, v, sub, sub')
    <3> HIDE DEF u, v
    <3>1. Edge(v, u) <=> u \in ToSet(G[v])
      BY EdgeIsInRow
    <3>2. u \in Vertices /\ v \in Vertices /\ u # v
      BY <2>1, <2>2
    <3> DEFINE E1 == [sub.E EXCEPT ![u] = Append(@, v)]
               E2 == [E1 EXCEPT ![v] = IF Edge(v, u) THEN Append(@, u) ELSE @]
    <3>4. /\ sub.V \in Seq(Vertices) /\ sub.E \in [Vertices -> Seq(Vertices)] /\ sub.found \in Nat
      BY <2>3
    <3>3. sub' = [V |-> Append(sub.V, v), E |-> E2, found |-> sub.found + 1]
      <4> DEFINE h == IF Edge(v, u) THEN Append(sub.E[v], u) ELSE sub.E[v]
      <4>1. E1[v] = sub.E[v]
        BY <3>2, <3>4
      <4>2. E2 = [E1 EXCEPT ![v] = h]
        BY <4>1
      <4>3. sub' = [sub EXCEPT !.V = Append(@, v), !.E[u] = Append(@, v), !.found = @ + 1, !.E[v] = h]
        BY <2>1, <2>3, <3>2, <3>4 DEF AddTreeEdge
      <4> HIDE DEF h
      <4>4. sub' = [V |-> Append(sub.V, v), E |-> [E1 EXCEPT ![v] = h], found |-> sub.found + 1]
        BY <4>3, <2>3
      <4>5. QED
        BY <4>2, <4>4
    <3>5. \A x \in Vertices : E1[x] = IF x = u THEN Append(sub.E[u], v) ELSE sub.E[x]
      BY <3>4
    <3>6. E1 \in [Vertices -> Seq(Vertices)]
      BY <3>2, <3>4
    <3> HIDE DEF E1
    <3>7. \A x \in Vertices : E2[x] = IF x = v /\ Edge(v, u) THEN Append(E1[v], u) ELSE E1[x]
      BY <3>6
    <3>8. E2 \in [Vertices -> Seq(Vertices)]
      BY <3>2, <3>6
    <3> HIDE DEF E2
    <3>9. sub' \in [V : Seq(Vertices), E : [Vertices -> Seq(Vertices)], found : Nat]
      BY <3>2, <3>3, <3>4, <3>8
    <3>10. sub'.V = Append(sub.V, v) /\ sub'.found = sub.found + 1 /\ sub'.E = E2
      BY <3>3
    <3>11. QED
      BY <3>1, <3>2, <3>5, <3>7, <3>9, <3>10 DEF Grown
  <2>5. /\ Kept(G, s, n, seen', parent', sub')
        /\ \A x \in Vertices : ToSet(sub.E[x]) \subseteq ToSet(sub'.E[x])
        /\ v \in ToSet(sub'.E[u])
    <3> DEFINE c == sub'
    <3>1. /\ G \in AllGraphs /\ u \in seen /\ v \in Vertices \ seen /\ seen \subseteq Vertices
          /\ parent \in [Vertices -> Vertices] /\ v \in ToSet(G[u]) /\ Kept(G, s, n, seen, parent, sub)
          /\ sub.found < n
          /\ Grown(G, u, v, sub, c)
      BY <1>1, <2>1, <2>2, <2>4
    <3> HIDE DEF G, s, n, u, v, c
    <3>2. Kept(G, s, n, seen \cup {v}, [parent EXCEPT ![v] = u], c) /\ HasMore(u, v, sub, c)
      BY <3>1, KeptGrows
    <3>3. QED
      BY <3>2, <2>1 DEF c, HasMore
  <2>6. Listed(G, seen', queue', rest', sub')
    <3>1. queue \in Seq(Vertices)
      BY <2>2 DEF Waiting
    <3>2. Head(queue') = u /\ ToSet(queue') = ToSet(queue) \cup {v}
      <4>1. queue' \in Seq(Vertices) /\ queue' # <<>> /\ Len(queue) \in Nat /\ Len(queue) > 0
            /\ queue'[1] = queue[1] /\ ToSet(queue') = ToSet(queue) \cup {v}
        BY <2>1, <2>2, <3>1, ElementsOfAppend, ElementsAreMembers
      <4>2. QED
        BY <4>1, <2>2, <3>1, HeadTailProperties
    <3> HIDE DEF u, v
    <3>3. \A x \in seen' : x \in ToSet(queue') \/ ToSet(G[x]) \subseteq ToSet(sub'.E[x])
      BY <2>1, <2>2, <2>5, <3>2 DEF Listed
    <3>4. ToSet(G[u]) \subseteq ToSet(sub'.E[u]) \cup ToSet(rest')
      <4>1. ToSet(G[u]) \subseteq ToSet(sub.E[u]) \cup ToSet(rest)
        BY <2>2 DEF Listed, u
      <4>2. QED
        BY <4>1, <2>1, <2>2, <2>5
    <3>5. QED
      BY <3>2, <3>3, <3>4 DEF Listed
  <2>7. queue' # <<>>
    <3>1. queue \in Seq(Vertices)
      BY <2>2 DEF Waiting
    <3>2. QED
      BY <2>1, <2>2, <3>1, ElementsOfAppend
  <2>8. QED
    BY <1>1, <2>1, <2>5, <2>6, <2>7 DEF SubInv
<1>5. CASE NonTreeEdge
  <2> DEFINE u == Head(queue)
             v == Head(rest)
  <2>1. /\ Examining /\ cmd.op = "subgraph" /\ v \in seen
        /\ UNCHANGED <<seen, parent, queue>> /\ rest' = Tail(rest)
        /\ sub' = IF Stored(v) THEN [sub EXCEPT !.E[u] = Append(@, v)] ELSE sub
        /\ cmd' = cmd /\ phase' = "search"
    BY <1>5 DEF NonTreeEdge, Examining
  <2>2. /\ s \in Vertices /\ queue # <<>> /\ rest # <<>>
        /\ Kept(G, s, n, seen, parent, sub) /\ Listed(G, seen, queue, rest, sub)
        /\ seen \subseteq Vertices /\ parent \in [Vertices -> Vertices]
        /\ u \in seen /\ v \in Vertices /\ v \in ToSet(G[u])
        /\ ToSet(rest) = {v} \cup ToSet(Tail(rest))
    BY <2>1, <1>3, <1>5
  <2>3. Stored(v) /\ sub \in [V : Seq(Vertices), E : [Vertices -> Seq(Vertices)], found : Nat]
    BY <2>1, <2>2 DEF Kept, Stored
  <2>4. Longer(u, v, sub, sub')
    <3> HIDE DEF u, v
    <3>1. u \in Vertices
      BY <2>2
    <3> DEFINE E1 == [sub.E EXCEPT ![u] = Append(@, v)]
    <3>2. sub' = [V |-> sub.V, E |-> E1, found |-> sub.found]
      BY <2>1, <2>3
    <3>3. /\ sub.V \in Seq(Vertices) /\ sub.E \in [Vertices -> Seq(Vertices)] /\ sub.found \in Nat
      BY <2>3
    <3>4. \A x \in Vertices : E1[x] = IF x = u THEN Append(sub.E[u], v) ELSE sub.E[x]
      BY <3>3
    <3>5. E1 \in [Vertices -> Seq(Vertices)]
      BY <2>2, <3>1, <3>3
    <3> HIDE DEF E1
    <3>6. sub' \in [V : Seq(Vertices), E : [Vertices -> Seq(Vertices)], found : Nat]
      BY <3>2, <3>3, <3>5
    <3>7. sub'.V = sub.V /\ sub'.found = sub.found /\ sub'.E = E1
      BY <3>2
    <3>8. QED
      BY <3>4, <3>6, <3>7 DEF Longer
  <2>5. /\ Kept(G, s, n, seen, parent, sub')
        /\ \A x \in Vertices : ToSet(sub.E[x]) \subseteq ToSet(sub'.E[x])
        /\ v \in ToSet(sub'.E[u])
    <3> DEFINE c == sub'
    <3>1. /\ u \in seen /\ v \in seen /\ seen \subseteq Vertices
          /\ parent \in [Vertices -> Vertices] /\ v \in ToSet(G[u]) /\ Kept(G, s, n, seen, parent, sub)
          /\ Longer(u, v, sub, c)
      BY <2>1, <2>2, <2>4
    <3> HIDE DEF G, s, n, u, v, c
    <3>2. Kept(G, s, n, seen, parent, c) /\ HasMore(u, v, sub, c)
      BY <3>1, KeptLists
    <3>3. QED
      BY <3>2 DEF c, HasMore
  <2>6. Listed(G, seen, queue, Tail(rest), sub')
    <3> HIDE DEF v
    <3>1. \A x \in seen : x \in ToSet(queue) \/ ToSet(G[x]) \subseteq ToSet(sub'.E[x])
      BY <2>2, <2>5 DEF Listed
    <3>2. ToSet(G[u]) \subseteq ToSet(sub.E[u]) \cup ToSet(rest)
      BY <2>2 DEF Listed
    <3>3. QED
      BY <3>1, <3>2, <2>2, <2>5 DEF Listed
  <2>7. QED
    BY <1>1, <2>1, <2>2, <2>5, <2>6 DEF SubInv
<1>6. CASE Terminate
  <2>1. /\ Examining /\ cmd.op = "subgraph" /\ sub.found = n /\ Head(rest) \notin seen
        /\ queue' = <<>> /\ UNCHANGED <<phase, cmd, seen, parent, sub>> /\ phase = "search"
    BY <1>6 DEF Terminate, Examining
  <2>2. /\ s \in Vertices /\ Tree(G, s, seen, parent) /\ Waiting(G, s, seen, queue, rest)
        /\ rest # <<>> /\ Kept(G, s, n, seen, parent, sub)
    BY <2>1 DEF Examining, BfsInv, SubInv
  <2>3. Ended(G, s, n, seen, sub)
    BY <1>1, <2>1, <2>2, CutShort
  <2>4. QED
    BY <1>1, <2>1, <2>2, <2>3 DEF SubInv
<1>7. CASE NextVertex /\ cmd.op = "subgraph"
  <2>1. /\ phase = "search" /\ queue # <<>> /\ rest = <<>> /\ queue' = Tail(queue)
        /\ rest' = IF Len(queue) > 1 THEN graph[queue[2]] ELSE <<>>
        /\ UNCHANGED <<phase, cmd, seen, parent, sub>>
    BY <1>7 DEF NextVertex
  <2>2. /\ s \in Vertices /\ Tree(G, s, seen, parent) /\ Waiting(G, s, seen, queue, <<>>)
        /\ Kept(G, s, n, seen, parent, sub) /\ Listed(G, seen, queue, <<>>, sub)
    BY <1>7, <2>1 DEF BfsInv, SubInv
  <2>3. IF Len(queue) > 1 THEN Waiting(G, s, seen, queue', graph[queue[2]]) /\ queue' # <<>>
                          ELSE Closed(G, seen) /\ queue' = <<>>
    BY <1>1, <2>1, <2>2, PopKeeps
  <2>4. queue \in Seq(Vertices)
    BY <2>2 DEF Waiting
  <2>5. ToSet(queue) = {Head(queue)} \cup ToSet(queue') /\ queue' \in Seq(Vertices)
        /\ \A i \in 1 .. Len(queue') : queue'[i] = queue[i + 1]
    BY <2>1, <2>4, ElementsOfTail
  <2>6. \A x \in seen : x \in ToSet(queue') \/ ToSet(G[x]) \subseteq ToSet(sub.E[x])
    <3>1. ToSet(<<>>) = {}
      BY DEF ToSet
    <3>2. QED
      BY <2>2, <2>5, <3>1 DEF Listed
  <2>7. CASE Len(queue) > 1
    <3>1. queue' # <<>> /\ rest' = graph[queue[2]]
      BY <2>1, <2>3, <2>7
    <3>2. Head(queue') = queue[2]
      <4>1. Len(queue') \in Nat /\ Len(queue') > 0 /\ Head(queue') = queue'[1]
        BY <2>5, <3>1, HeadTailProperties, ElementsAreMembers
      <4>2. queue'[1] = queue[1 + 1] /\ 1 + 1 = 2
        BY <4>1, <2>5
      <4>3. QED
        BY <4>1, <4>2
    <3>3. Listed(G, seen, queue', rest', sub)
      BY <2>6, <3>1, <3>2 DEF Listed
    <3>4. QED
      BY <1>1, <1>7, <2>1, <2>2, <3>1, <3>3 DEF SubInv
  <2>8. CASE ~ (Len(queue) > 1)
    <3>1. Closed(G, seen) /\ queue' = <<>> /\ ToSet(queue') = {}
      BY <2>3, <2>8 DEF ToSet
    <3>2. Ended(G, s, n, seen, sub)
      BY <2>6, <3>1 DEF Ended
    <3>3. QED
      BY <1>1, <1>7, <2>1, <2>2, <3>1, <3>2 DEF SubInv
  <2>9. QED
    BY <2>7, <2>8
<1>8. CASE SubGDone
  <2>1. /\ phase = "search" /\ queue = <<>> /\ cmd.op = "subgraph" /\ phase' = "exit"
        /\ UNCHANGED <<cmd, seen, parent, sub, queue, rest>>
    BY <1>8 DEF SubGDone, Searched, kbVars, searchVars
  <2>2. QED
    BY <1>1, <2>1 DEF SubInv, BfsInv
<1>9. CASE ShowNeighbours \/ ShowPath \/ SPaths
  <2>1. cmd'.op # "subgraph"
    <3>1. CASE ShowNeighbours
      BY <3>1 DEF ShowNeighbours, Ask
    <3>2. CASE ShowPath
      BY <3>2 DEF ShowPath, Ask
    <3>3. CASE SPaths
      BY <3>3 DEF SPaths, Ask
    <3>4. QED
      BY <1>9, <3>1, <3>2, <3>3
  <2>2. QED
    BY <2>1 DEF SubInv
<1>10. CASE Quit
  BY <1>10 DEF Quit, SubInv, SearchTyped, kbVars
<1>11. CASE ExamineEdge \/ NextTarget \/ WalkUp \/ PathDone \/ (NextVertex /\ cmd.op # "subgraph")
  <2>1. cmd.op # "subgraph" /\ cmd'.op = cmd.op
    BY <1>11 DEF ExamineEdge, NextTarget, WalkUp, PathDone, NextVertex, SearchTyped, Searched
  <2>2. QED
    BY <2>1 DEF SubInv
<1>12. CASE DgStep
  <2>1. CASE NextSource
    BY <2>1 DEF NextSource, SubInv
  <2>2. CASE FillPath \/ NextSense
    <3>1. phase' # "exit" /\ cmd'.op = "dgraph"
      BY <2>2 DEF FillPath, NextSense, Searched, SearchTyped, kbVars
    <3>2. QED
      BY <3>1 DEF SubInv
  <2>3. CASE NextWord \/ BuiltBfs \/ StartDfs \/ DfsTreeEdge \/ DfsOtherEdge \/ DfsFinish
             \/ DfsDone \/ BuiltDfs
    <3>1. phase' \in {"context", "built", "dfs"}
      BY <2>3 DEF NextWord, BuiltBfs, StartDfs, DfsTreeEdge, DfsOtherEdge, DfsFinish, DfsDone, BuiltDfs
    <3>2. QED
      BY <3>1 DEF SubInv
  <2>4. QED
    BY <1>12, <2>1, <2>2, <2>3 DEF DgStep
<1>13. CASE UNCHANGED allVars
  BY <1>13 DEF SubInv, allVars, kbVars, searchVars
<1>14. QED
  BY <1>2, <1>4, <1>5, <1>6, <1>7, <1>8, <1>9, <1>10, <1>11, <1>12, <1>13 DEF DgNext, KbNext, Step

-----------------------------------------------------------------------------
(* The paths.                                                              *)

\* One that begins is on its way.
LEMMA PathBegins ==
  ASSUME NEW G \in AllGraphs, NEW s \in Vertices, NEW S, NEW par, NEW v \in Vertices,
         Tree(G, s, S, par)
  PROVE  PathEnd(G, s, S, <<v>>, v) /\ Last(<<v>>) = v /\ <<v>> \in Seq(Vertices)
<1>1. <<v>> \in Seq(Vertices) /\ <<v>> # <<>> /\ Len(<<v>>) = 1 /\ <<v>>[1] = v
  OBVIOUS
<1>2. Last(<<v>>) = v
  BY <1>1 DEF Last
<1>3. Leads(G, <<v>>)
  BY <1>1 DEF Leads
<1>4. v \in S => v \in Reachable(G, s) /\ Dst(G, s, v) \in Nat
  BY Distances, SizeIsNumber DEF Tree
<1>5. QED
  BY <1>1, <1>2, <1>3, <1>4 DEF PathEnd

\* The parent of a vertex is one edge nearer.
LEMMA PathGrows ==
  ASSUME NEW G \in AllGraphs, NEW s \in Vertices, NEW S, NEW par, NEW a \in Vertices, NEW p,
         Tree(G, s, S, par), a # s, par[a] # a, PathEnd(G, s, S, p, a)
  PROVE  /\ PathEnd(G, s, S, <<par[a]>> \o p, par[a]) /\ par[a] \in Vertices
         /\ Last(<<par[a]>> \o p) = Last(p) /\ <<par[a]>> \o p \in Seq(Vertices)
<1> DEFINE b == par[a]
           r == <<b>> \o p
<1>1. a \in S /\ b \in S /\ b \in Vertices /\ a \in ToSet(G[b]) /\ Dst(G, s, a) = Dst(G, s, b) + 1
  BY DEF Tree
<1> HIDE DEF b
<1>2. p \in Seq(Vertices) /\ p # <<>> /\ p[1] = a
      /\ \A j \in 1 .. Len(p) - 1 : p[j + 1] \in ToSet(G[p[j]])
  BY DEF PathEnd, Leads
<1>3. Len(p) \in Nat /\ Len(p) > 0
  BY <1>2, ElementsAreMembers
<1>4. /\ <<b>> \in Seq(Vertices) /\ Len(<<b>>) = 1 /\ <<b>>[1] = b
  BY <1>1
<1>5. r \in Seq(Vertices) /\ Len(r) = Len(p) + 1
      /\ \A i \in 1 .. Len(p) + 1 : r[i] = IF i = 1 THEN b ELSE p[i - 1]
  <2>1. r \in Seq(Vertices) /\ Len(r) = 1 + Len(p)
    BY <1>2, <1>4, ConcatProperties
  <2>2. \A i \in 1 .. 1 + Len(p) : r[i] = IF i <= 1 THEN <<b>>[i] ELSE p[i - 1]
    BY <1>2, <1>4, ConcatProperties
  <2>3. \A i \in 1 .. Len(p) + 1 : r[i] = IF i = 1 THEN b ELSE p[i - 1]
    <3> TAKE i \in 1 .. Len(p) + 1
    <3>1. i \in 1 .. 1 + Len(p) /\ (i <= 1 => i = 1) /\ (i = 1 => i <= 1)
      BY <1>3
    <3>2. QED
      BY <3>1, <2>2, <1>4
  <2>4. QED
    BY <2>1, <2>3, <1>3
<1> HIDE DEF r
<1>6. r # <<>> /\ r[1] = b
  <2>1. 1 \in 1 .. Len(p) + 1
    BY <1>3
  <2>2. QED
    BY <1>3, <1>5, <2>1, ElementsAreMembers
<1>7. Last(r) = Last(p)
  <2>1. Len(p) + 1 \in 1 .. Len(p) + 1 /\ Len(p) + 1 # 1 /\ (Len(p) + 1) - 1 = Len(p)
    BY <1>3
  <2>2. QED
    BY <1>5, <2>1 DEF Last
<1>8. ASSUME NEW j \in 1 .. Len(r) - 1 PROVE r[j + 1] \in ToSet(G[r[j]])
  <2>1. j \in 1 .. Len(p) /\ j \in 1 .. Len(p) + 1 /\ j + 1 \in 1 .. Len(p) + 1
        /\ j + 1 # 1 /\ (j + 1) - 1 = j
    BY <1>3, <1>5
  <2>2. r[j + 1] = p[j]
    BY <1>5, <2>1
  <2>3. CASE j = 1
    BY <2>2, <2>3, <1>1, <1>2, <1>6
  <2>4. CASE j # 1
    <3>1. j - 1 \in 1 .. Len(p) - 1 /\ (j - 1) + 1 = j
      BY <2>1, <2>4, <1>3
    <3>2. p[j] \in ToSet(G[p[j - 1]])
      BY <3>1, <1>2
    <3>3. r[j] = p[j - 1]
      BY <1>5, <2>1, <2>4
    <3>4. QED
      BY <2>2, <3>2, <3>3
  <2>5. QED
    BY <2>3, <2>4
<1>9. Leads(G, r)
  BY <1>5, <1>6, <1>8 DEF Leads
<1>10. Last(p) \in Reachable(G, s) /\ Len(p) + Dst(G, s, a) = Dst(G, s, Last(p)) + 1
  BY <1>1 DEF PathEnd
<1>11. b \in Reachable(G, s) /\ Dst(G, s, b) \in Nat
  BY <1>1, Distances, SizeIsNumber DEF Tree
<1>12. Len(r) + Dst(G, s, b) = Dst(G, s, Last(r)) + 1
  BY <1>1, <1>3, <1>5, <1>7, <1>10, <1>11
<1>13. PathEnd(G, s, S, r, b)
  BY <1>6, <1>7, <1>9, <1>10, <1>12 DEF PathEnd
<1>14. QED
  BY <1>1, <1>5, <1>7, <1>13 DEF b, r

\* A path that has come to the source is a shortest one.
LEMMA PathEnds ==
  ASSUME NEW G \in AllGraphs, NEW s \in Vertices, NEW S, NEW par, NEW p,
         Tree(G, s, S, par), PathEnd(G, s, S, p, s)
  PROVE  ShortestPath(G, s, p)
<1>1. s \in S
  BY DEF Tree
<1>2. Dst(G, s, s) = 0
  BY Distances
<1>3. p \in Seq(Vertices) /\ Len(p) \in Nat
  BY ElementsAreMembers DEF PathEnd, Leads
<1>4. Last(p) \in Reachable(G, s) /\ Len(p) + 0 = Dst(G, s, Last(p)) + 1
  BY <1>1, <1>2 DEF PathEnd
<1>5. QED
  BY <1>3, <1>4 DEF PathEnd, ShortestPath

\* Targets that are left.
LEMMA TargetsLeft ==
  ASSUME NEW t \in Seq(Queried), t # <<>>, IsInjective(t)
  PROVE  /\ Tail(t) \in Seq(Queried) /\ IsInjective(Tail(t)) /\ Head(t) \in Queried
         /\ Head(t) = t[1] /\ 1 \in 1 .. Len(t)
         /\ \A k \in 1 .. Len(Tail(t)) :
              Tail(t)[k] = t[k + 1] /\ k + 1 \in 1 .. Len(t) /\ Tail(t)[k] # Head(t)
<1>1. /\ Head(t) \in Queried /\ Tail(t) \in Seq(Queried) /\ Len(Tail(t)) = Len(t) - 1
      /\ \A k \in 1 .. Len(Tail(t)) : Tail(t)[k] = t[k + 1] /\ k + 1 \in 1 .. Len(t)
  BY ElementsOfTail
<1>2. Head(t) = t[1] /\ Len(t) \in Nat /\ Len(t) > 0 /\ DOMAIN t = 1 .. Len(t)
      /\ DOMAIN Tail(t) = 1 .. Len(Tail(t))
  BY <1>1, HeadTailProperties, ElementsAreMembers
<1>3. 1 \in 1 .. Len(t)
  BY <1>2
<1>4. ASSUME NEW k \in 1 .. Len(Tail(t)) PROVE Tail(t)[k] # Head(t)
  <2>1. k + 1 # 1
    OBVIOUS
  <2>2. QED
    BY <1>1, <1>2, <1>3, <2>1 DEF IsInjective
<1>5. IsInjective(Tail(t))
  <2> SUFFICES ASSUME NEW j \in DOMAIN Tail(t), NEW k \in DOMAIN Tail(t), Tail(t)[j] = Tail(t)[k]
               PROVE  j = k
    BY DEF IsInjective
  <2>1. j \in 1 .. Len(Tail(t)) /\ k \in 1 .. Len(Tail(t))
    BY <1>2
  <2>2. t[j + 1] = t[k + 1] /\ j + 1 \in DOMAIN t /\ k + 1 \in DOMAIN t
    BY <2>1, <1>1, <1>2
  <2>3. j + 1 = k + 1
    BY <2>2 DEF IsInjective
  <2>4. QED
    BY <2>1, <2>3
<1>6. QED
  BY <1>1, <1>2, <1>3, <1>4, <1>5

\* The first path, or the next one, begins with a target.
LEMMA NextPath ==
  ASSUME NEW G \in AllGraphs, NEW s \in Vertices, NEW S, NEW par, NEW o, NEW t,
         Tree(G, s, S, par), PathsSoFar(G, s, S, Unknown, o, t), t # <<>>, Head(t) \in Vertices
  PROVE  PathsSoFar(G, s, S, Head(t), Append(o, <<Head(t)>>), t)
<1> DEFINE a == Head(t)
           p == <<a>>
           r == Append(o, p)
<1>1. /\ o \in Seq(Seq(Vertices)) /\ t \in Seq(Queried) /\ IsInjective(t)
      /\ \A i \in 1 .. Len(o) : ShortestPath(G, s, o[i])
      /\ \A i, j \in 1 .. Len(o) : Last(o[i]) = Last(o[j]) => i = j
      /\ \A i \in 1 .. Len(o), k \in 1 .. Len(t) : Last(o[i]) # t[k]
  BY DEF PathsSoFar
<1>2. a \in Vertices /\ a # Unknown /\ a \in Queried /\ a = t[1] /\ 1 \in 1 .. Len(t)
  BY <1>1, TargetsLeft, KbSearchAssumption DEF Queried
<1> HIDE DEF a
<1>3. PathEnd(G, s, S, p, a) /\ Last(p) = a /\ p \in Seq(Vertices)
  BY <1>2, PathBegins
<1> HIDE DEF p
<1>4. /\ r \in Seq(Seq(Vertices)) /\ r # <<>> /\ Len(r) = Len(o) + 1
      /\ (\A i \in 1 .. Len(o) : r[i] = o[i]) /\ r[Len(o) + 1] = p
  BY <1>1, <1>3, ElementsOfAppend
<1>5. Len(o) \in Nat
  BY <1>1, ElementsAreMembers
<1> HIDE DEF r
<1>6. Last(r) = p
  BY <1>4 DEF Last
<1>7. \A i \in 1 .. Len(r) : i = Len(r) \/ (i \in 1 .. Len(o) /\ r[i] = o[i])
  BY <1>4, <1>5
<1>8. \A i \in 1 .. Len(r) : i = Len(r) \/ ShortestPath(G, s, r[i])
  BY <1>1, <1>7
<1>9. \A i \in 1 .. Len(r), k \in 1 .. Len(t) : Last(r[i]) = t[k] => i = Len(r)
  BY <1>1, <1>7
<1>10. ASSUME NEW i \in 1 .. Len(r), NEW j \in 1 .. Len(r), Last(r[i]) = Last(r[j]) PROVE i = j
  <2>1. \A k \in 1 .. Len(o) : Last(o[k]) # a
    BY <1>1, <1>2
  <2>2. Last(r[Len(r)]) = a
    BY <1>3, <1>6 DEF Last
  <2>3. QED
    BY <1>1, <1>7, <1>10, <2>1, <2>2
<1>11. PathsSoFar(G, s, S, a, r, t)
  <2>1. a # Unknown => /\ r # <<>> /\ t # <<>> /\ Last(Last(r)) = Head(t)
                       /\ PathEnd(G, s, S, Last(r), a)
    BY <1>3, <1>4, <1>6 DEF a
  <2>2. QED
    BY <1>1, <1>2, <1>4, <1>8, <1>9, <1>10, <2>1 DEF PathsSoFar
<1>12. QED
  BY <1>11 DEF a, p, r

\* A target is left out.
LEMMA SkipTarget ==
  ASSUME NEW G, NEW s, NEW S, NEW o, NEW t,
         PathsSoFar(G, s, S, Unknown, o, t), t # <<>>
  PROVE  PathsSoFar(G, s, S, Unknown, o, Tail(t))
<1>1. t \in Seq(Queried) /\ IsInjective(t)
  BY DEF PathsSoFar
<1>2. /\ Tail(t) \in Seq(Queried) /\ IsInjective(Tail(t))
      /\ \A k \in 1 .. Len(Tail(t)) : Tail(t)[k] = t[k + 1] /\ k + 1 \in 1 .. Len(t)
  BY <1>1, TargetsLeft
<1>3. \A i \in 1 .. Len(o), k \in 1 .. Len(Tail(t)) : Last(o[i]) # Tail(t)[k]
  BY <1>2 DEF PathsSoFar
<1>4. QED
  BY <1>2, <1>3 DEF PathsSoFar

\* The path in hand, the last one, with another vertex at its begin.
Lengthened(o, b) == [o EXCEPT ![Len(o)] = <<b>> \o @]

\* The path gets one vertex longer at its begin.
LEMMA UpPath ==
  ASSUME NEW G \in AllGraphs, NEW s \in Vertices, NEW S, NEW par, NEW a \in Vertices, NEW o, NEW t,
         Tree(G, s, S, par), PathsSoFar(G, s, S, a, o, t), a # s, par[a] # a
  PROVE  /\ PathsSoFar(G, s, S, par[a], Lengthened(o, par[a]), t)
         /\ DOMAIN Lengthened(o, par[a]) = DOMAIN o
         /\ \A i \in DOMAIN o : Last(Lengthened(o, par[a])[i]) = Last(o[i])
<1> DEFINE b == par[a]
           p == Last(o)
           n == Len(o)
           r == Lengthened(o, b)
<1>1. /\ o \in Seq(Seq(Vertices)) /\ t \in Seq(Queried) /\ IsInjective(t)
      /\ o # <<>> /\ t # <<>> /\ Last(p) = Head(t) /\ PathEnd(G, s, S, p, a)
      /\ \A i \in 1 .. n : i = n \/ ShortestPath(G, s, o[i])
      /\ \A i, j \in 1 .. n : Last(o[i]) = Last(o[j]) => i = j
      /\ \A i \in 1 .. n, k \in 1 .. Len(t) : Last(o[i]) = t[k] => i = n
  BY KbSearchAssumption DEF PathsSoFar
<1>2. n \in Nat /\ n > 0 /\ n \in 1 .. n /\ DOMAIN o = 1 .. n /\ p = o[n]
  <2>1. n \in Nat /\ n > 0 /\ DOMAIN o = 1 .. n
    BY <1>1, ElementsAreMembers
  <2>2. QED
    BY <2>1 DEF Last
<1>3. /\ PathEnd(G, s, S, <<b>> \o p, b) /\ b \in Vertices
      /\ Last(<<b>> \o p) = Last(p) /\ <<b>> \o p \in Seq(Vertices)
  BY <1>1, PathGrows
<1>4. r \in Seq(Seq(Vertices)) /\ Len(r) = n
      /\ \A i \in 1 .. n : r[i] = IF i = n THEN <<b>> \o p ELSE o[i]
  BY <1>1, <1>2, <1>3, ExceptSeq DEF Lengthened
<1> HIDE DEF b, p, n, r
<1>5. r # <<>> /\ Last(r) = <<b>> \o p
  <2>1. r # <<>>
    BY <1>2, <1>4, ElementsAreMembers
  <2>2. QED
    BY <2>1, <1>2, <1>4 DEF Last
<1>6. \A i \in 1 .. n : Last(r[i]) = Last(o[i])
  BY <1>2, <1>3, <1>4
<1>7. b # Unknown /\ b \in Queried
  BY <1>3, KbSearchAssumption DEF Queried
<1>8. /\ \A i \in 1 .. Len(r) : i = Len(r) \/ ShortestPath(G, s, r[i])
      /\ \A i, j \in 1 .. Len(r) : Last(r[i]) = Last(r[j]) => i = j
      /\ \A i \in 1 .. Len(r), k \in 1 .. Len(t) : Last(r[i]) = t[k] => i = Len(r)
  <2>1. Len(r) = n
    BY <1>4
  <2>2. \A i \in 1 .. n : i = n \/ ShortestPath(G, s, r[i])
    BY <1>1, <1>4
  <2>3. \A i, j \in 1 .. n : Last(r[i]) = Last(r[j]) => i = j
    BY <1>1, <1>6
  <2>4. \A i \in 1 .. n, k \in 1 .. Len(t) : Last(r[i]) = t[k] => i = n
    BY <1>1, <1>6
  <2>5. QED
    BY <2>1, <2>2, <2>3, <2>4
<1>9. PathsSoFar(G, s, S, b, r, t)
  <2>1. Last(Last(r)) = Head(t) /\ PathEnd(G, s, S, Last(r), b)
    BY <1>1, <1>3, <1>5
  <2>2. QED
    BY <1>1, <1>4, <1>5, <1>7, <1>8, <2>1 DEF PathsSoFar
<1>10. DOMAIN r = DOMAIN o /\ \A i \in DOMAIN o : Last(r[i]) = Last(o[i])
  BY <1>2, <1>4, <1>6, ElementsAreMembers
<1>11. QED
  BY <1>9, <1>10 DEF b, n, r

\* The path has come to the source, and its target is done.
LEMMA EndPath ==
  ASSUME NEW G \in AllGraphs, NEW s \in Vertices, NEW S, NEW par, NEW o, NEW t,
         Tree(G, s, S, par), PathsSoFar(G, s, S, s, o, t)
  PROVE  PathsSoFar(G, s, S, Unknown, o, Tail(t)) /\ t # <<>>
<1>1. /\ o \in Seq(Seq(Vertices)) /\ t \in Seq(Queried) /\ IsInjective(t)
      /\ o # <<>> /\ t # <<>> /\ Last(Last(o)) = Head(t) /\ PathEnd(G, s, S, Last(o), s)
      /\ \A i \in 1 .. Len(o) : i = Len(o) \/ ShortestPath(G, s, o[i])
      /\ \A i, j \in 1 .. Len(o) : Last(o[i]) = Last(o[j]) => i = j
      /\ \A i \in 1 .. Len(o), k \in 1 .. Len(t) : Last(o[i]) = t[k] => i = Len(o)
  BY KbSearchAssumption DEF PathsSoFar
<1>2. Len(o) \in Nat /\ Len(o) > 0
  BY <1>1, ElementsAreMembers
<1>3. /\ Tail(t) \in Seq(Queried) /\ IsInjective(Tail(t))
      /\ \A k \in 1 .. Len(Tail(t)) :
           Tail(t)[k] = t[k + 1] /\ k + 1 \in 1 .. Len(t) /\ Tail(t)[k] # Head(t)
  BY <1>1, TargetsLeft
<1>4. ShortestPath(G, s, o[Len(o)])
  BY <1>1, PathEnds DEF Last
<1>5. \A i \in 1 .. Len(o) : ShortestPath(G, s, o[i])
  BY <1>1, <1>4
<1>6. ASSUME NEW i \in 1 .. Len(o), NEW k \in 1 .. Len(Tail(t)) PROVE Last(o[i]) # Tail(t)[k]
  <2>1. CASE i = Len(o)
    BY <2>1, <1>1, <1>3 DEF Last
  <2>2. CASE i # Len(o)
    BY <2>2, <1>1, <1>3
  <2>3. QED
    BY <2>1, <2>2
<1>7. QED
  BY <1>1, <1>3, <1>5, <1>6 DEF PathsSoFar, Queried

\* The paths that are printed keep their invariant.
LEMMA PathKept ==
  ASSUME SearchTyped, BfsInv, PathInv, [DgNext]_allVars
  PROVE  PathInv'
<1>1. graph' = graph /\ graph \in AllGraphs
  BY GraphStays DEF SearchTyped
<1>2. CASE cmd'.op \notin {"show", "paths"}
  BY <1>2 DEF PathInv
<1>3. CASE ShowPath
  <2>1. PICK u, v \in Queried : ShowPath!(u, v)
    BY <1>3 DEF ShowPath
  <2>2. cmd' = [op |-> "show", src |-> u, asked |-> ToSet(<<v>>), targets |-> <<v>>, limit |-> 0]
        /\ out' = <<>> /\ at' = Unknown
    BY <2>1 DEF Ask, SearchTyped
  <2>3. SUFFICES ASSUME phase' = "search" PROVE PathInv'
    BY <2>2 DEF PathInv
  <2>4. u \in Vertices /\ v \in Vertices
    BY <2>1, <2>2, <2>3 DEF Queried, Answered
  <2>5. <<v>> \in Seq(Vertices) /\ <<v>> \in Seq(Queried) /\ IsInjective(<<v>>)
    BY <2>4 DEF IsInjective, Queried
  <2>6. PathsSoFar(graph, u, seen', Unknown, <<>>, <<v>>)
    <3>1. Len(<<>>) = 0 /\ <<>> \in Seq(Seq(Vertices))
      OBVIOUS
    <3>2. QED
      BY <2>5, <3>1 DEF PathsSoFar, Queried
  <2>7. QED
    BY <1>1, <2>2, <2>3, <2>5, <2>6 DEF PathInv
<1>4. CASE SPaths
  <2>1. PICK u \in Queried, A \in Asked : SPaths!(u, A)
    BY <1>4 DEF SPaths
  <2> DEFINE t == SetToSeq(A)
  <2>2. cmd' = [op |-> "paths", src |-> u, asked |-> ToSet(t), targets |-> t, limit |-> 0]
        /\ out' = <<>> /\ at' = Unknown
    BY <2>1 DEF Ask, SearchTyped
  <2>3. t \in Seq(Queried) /\ IsInjective(t)
    <3>1. A \subseteq Queried
      BY KbSearchAssumption DEF Queried
    <3>2. IsFiniteSet(Queried)
      BY KbSearchAssumption, FS_AddElement DEF Queried
    <3>3. t \in Seq(A) /\ IsInjective(t)
      BY <3>1, <3>2, FS_Subset, SetAsSeq
    <3>4. QED
      BY <3>1, <3>3
  <2> HIDE DEF t
  <2>4. Len(<<>>) = 0 /\ <<>> \in Seq(Seq(Vertices))
    OBVIOUS
  <2>5. PathsSoFar(graph, u, seen', Unknown, <<>>, t)
    BY <2>3, <2>4 DEF PathsSoFar, Queried
  <2>6. PathsOut(graph, u, <<>>)
    BY <2>4 DEF PathsOut
  <2>7. QED
    BY <1>1, <2>2, <2>5, <2>6 DEF PathInv
<1>5. CASE ExamineEdge \/ NextVertex
  <2>1. /\ phase = "search" /\ phase' = "search" /\ queue # <<>> /\ cmd' = cmd /\ at' = at /\ out' = out
    BY <1>5 DEF ExamineEdge, NextVertex, Examining
  <2>2. SUFFICES ASSUME cmd.op \in {"show", "paths"} PROVE PathInv'
    BY <2>1 DEF PathInv
  <2>3. at = Unknown /\ out = <<>> /\ (cmd.op = "show" => cmd.targets \in Seq(Vertices))
        /\ PathsSoFar(graph, cmd.src, seen, at, out, cmd.targets)
    BY <2>1, <2>2 DEF PathInv
  <2>4. PathsSoFar(graph, cmd.src, seen', at, out, cmd.targets)
    BY <2>3 DEF PathsSoFar
  <2>5. QED
    BY <1>1, <2>1, <2>2, <2>3, <2>4 DEF PathInv
<1>6. CASE NextTarget
  <2> DEFINE s == cmd.src
             t == cmd.targets
  <2>1. /\ phase = "search" /\ queue = <<>> /\ cmd.op \in {"show", "paths"} /\ at = Unknown
        /\ UNCHANGED <<queue, seen, parent>>
    BY <1>6 DEF NextTarget, Searched, searchVars
  <2>2. /\ s \in Vertices /\ Tree(graph, s, seen, parent)
        /\ cmd.op = "show" => t \in Seq(Vertices)
        /\ PathsSoFar(graph, s, seen, Unknown, out, t)
    BY <2>1 DEF BfsInv, PathInv
  <2>3. CASE t = <<>>
    <3>1. phase' = "exit" /\ cmd' = cmd /\ out' = out
      BY <1>6, <2>3 DEF NextTarget
    <3>2. PathsOut(graph, s, out)
      BY <2>2 DEF PathsSoFar, PathsOut
    <3>3. QED
      BY <1>1, <3>1, <3>2 DEF PathInv
  <2>4. CASE t # <<>> /\ cmd.op = "paths" /\ (Head(t) = Unknown \/ parent[Head(t)] = Head(t))
    <3>1. /\ cmd' = [cmd EXCEPT !.targets = Tail(@)] /\ phase' = phase /\ at' = at /\ out' = out
      BY <1>6, <2>4 DEF NextTarget
    <3>2. PathsSoFar(graph, s, seen, Unknown, out, Tail(t))
      BY <2>2, <2>4, SkipTarget
    <3>3. cmd'.src = s /\ cmd'.op = "paths" /\ cmd'.targets = Tail(t)
      BY <2>4, <3>1 DEF SearchTyped
    <3>4. QED
      BY <1>1, <2>1, <3>1, <3>2, <3>3 DEF PathInv
  <2>5. CASE t # <<>> /\ ~ (cmd.op = "paths" /\ (Head(t) = Unknown \/ parent[Head(t)] = Head(t)))
    <3>1. /\ at' = Head(t) /\ out' = Append(out, <<Head(t)>>) /\ phase' = phase /\ cmd' = cmd
      BY <1>6, <2>5 DEF NextTarget
    <3>2. Head(t) \in Vertices
      <4>1. CASE cmd.op = "show"
        BY <2>2, <2>5, <4>1, ElementsOfTail
      <4>2. CASE cmd.op = "paths"
        <5>1. t \in Seq(Queried)
          BY <2>2 DEF PathsSoFar
        <5>2. Head(t) \in Queried
          BY <5>1, <2>5, ElementsOfTail
        <5>3. QED
          BY <2>5, <4>2, <5>2 DEF Queried
      <4>3. QED
        BY <2>1, <4>1, <4>2
    <3>3. PathsSoFar(graph, s, seen, Head(t), Append(out, <<Head(t)>>), t)
      BY <1>1, <2>2, <2>5, <3>2, NextPath
    <3>4. QED
      BY <1>1, <2>1, <2>2, <3>1, <3>3 DEF PathInv
  <2>6. QED
    BY <2>3, <2>4, <2>5
<1>7. CASE WalkUp
  <2> DEFINE s == cmd.src
             t == cmd.targets
  <2>1. /\ phase = "search" /\ queue = <<>> /\ at # Unknown /\ at # s /\ at' = parent[at]
        /\ out' = IF at' = at THEN out ELSE [out EXCEPT ![Len(out)] = <<at'>> \o @]
        /\ UNCHANGED <<phase, cmd, queue, seen, parent>>
    BY <1>7 DEF WalkUp, Searched, searchVars
  <2>2. cmd.op \in {"show", "paths"}
    BY <2>1 DEF SearchTyped
  <2>3. /\ s \in Vertices /\ Tree(graph, s, seen, parent)
        /\ cmd.op = "show" => t \in Seq(Vertices)
        /\ PathsSoFar(graph, s, seen, at, out, t)
    BY <2>1, <2>2 DEF BfsInv, PathInv
  <2>4. at \in Vertices
    BY <2>1, <2>3 DEF PathsSoFar, Queried
  <2>5. PathsSoFar(graph, s, seen, at', out', t)
    <3>1. CASE parent[at] = at
      BY <2>1, <2>3, <3>1
    <3>2. CASE parent[at] # at
      <4>1. at' = parent[at] /\ out' = [out EXCEPT ![Len(out)] = <<parent[at]>> \o @]
        BY <2>1, <3>2
      <4>2. at # s
        BY <2>1
      <4>3. PathsSoFar(graph, s, seen, parent[at], Lengthened(out, parent[at]), t)
        <5> HIDE DEF s, t
        <5> QED BY <4>2, <1>1, <2>3, <2>4, <3>2, UpPath
      <4>4. QED
        BY <4>1, <4>3 DEF Lengthened
    <3>3. QED
      BY <3>1, <3>2
  <2>6. QED
    BY <1>1, <2>1, <2>2, <2>3, <2>5 DEF PathInv
<1>8. CASE PathDone
  <2> DEFINE s == cmd.src
             t == cmd.targets
  <2>1. /\ phase = "search" /\ queue = <<>> /\ at # Unknown /\ at = s /\ at' = Unknown
        /\ cmd' = [cmd EXCEPT !.targets = Tail(@)] /\ out' = out
        /\ IF cmd.op = "show" THEN phase' = "prompt" ELSE UNCHANGED <<phase, queue, seen, parent>>
    BY <1>8 DEF PathDone, Searched, searchVars
  <2>2. cmd.op \in {"show", "paths"}
    BY <2>1 DEF SearchTyped
  <2>3. cmd'.src = s /\ cmd'.op = cmd.op /\ cmd'.targets = Tail(t)
    BY <2>1 DEF SearchTyped
  <2>4. s \in Vertices /\ Tree(graph, s, seen, parent) /\ PathsSoFar(graph, s, seen, s, out, t)
    BY <2>1, <2>2 DEF BfsInv, PathInv
  <2>5. PathsSoFar(graph, s, seen, Unknown, out, Tail(t))
    BY <1>1, <2>4, EndPath
  <2>6. CASE cmd.op = "show"
    BY <2>1, <2>3, <2>6 DEF PathInv
  <2>7. CASE cmd.op = "paths"
    BY <1>1, <2>1, <2>3, <2>5, <2>7 DEF PathInv
  <2>8. QED
    BY <2>2, <2>6, <2>7
<1>9. CASE ShowNeighbours
  <2>1. cmd'.op \notin {"show", "paths"}
    BY <1>9 DEF ShowNeighbours, Ask
  <2>2. QED
    BY <2>1, <1>2
<1>10. CASE SubG
  <2>1. cmd'.op \notin {"show", "paths"}
    BY <1>10 DEF SubG, Ask
  <2>2. QED
    BY <2>1, <1>2
<1>11. CASE Quit
  BY <1>11 DEF Quit, PathInv, SearchTyped, kbVars
<1>12. CASE TreeEdge \/ Terminate \/ NonTreeEdge \/ SubGDone
  <2>1. cmd'.op \notin {"show", "paths"}
    BY <1>12 DEF TreeEdge, Terminate, NonTreeEdge, SubGDone, kbVars
  <2>2. QED
    BY <2>1, <1>2
<1>13. CASE DgStep
  <2>1. CASE NextSource
    <3>1. cmd'.op \notin {"show", "paths"}
      BY <2>1 DEF NextSource
    <3>2. QED
      BY <3>1, <1>2
  <2>2. CASE FillPath \/ NextSense
    <3>1. cmd'.op \notin {"show", "paths"}
      BY <2>2 DEF FillPath, NextSense, SearchTyped, kbVars
    <3>2. QED
      BY <3>1, <1>2
  <2>3. CASE NextWord \/ BuiltBfs \/ StartDfs \/ DfsTreeEdge \/ DfsOtherEdge \/ DfsFinish
             \/ DfsDone \/ BuiltDfs
    <3>1. phase' \in {"context", "built", "dfs"}
      BY <2>3 DEF NextWord, BuiltBfs, StartDfs, DfsTreeEdge, DfsOtherEdge, DfsFinish, DfsDone, BuiltDfs
    <3>2. QED
      BY <3>1 DEF PathInv
  <2>4. QED
    BY <1>13, <2>1, <2>2, <2>3 DEF DgStep
<1>14. CASE UNCHANGED allVars
  BY <1>14 DEF PathInv, allVars, kbVars, searchVars
<1>15. QED
  BY <1>3, <1>4, <1>5, <1>6, <1>7, <1>8, <1>9, <1>10, <1>11, <1>12, <1>13, <1>14
    DEF DgNext, KbNext, Step

\* And the variables their types.
LEMMA TypedKept ==
  ASSUME SearchTyped, BfsInv, [DgNext]_allVars
  PROVE  SearchTyped'
<1>1. graph' = graph
  BY GraphStays
<1>2. CASE KbNext /\ UNCHANGED dgVars
  <2>1. words' = words /\ word' = word /\ sense' = sense
    BY <1>2 DEF dgVars
  <2>2. SUFFICES
          /\ cmd' = [op |-> cmd'.op, src |-> cmd'.src, asked |-> cmd'.asked,
                    targets |-> cmd'.targets, limit |-> cmd'.limit]
          /\ cmd'.src \in Queried
          /\ phase' \in {"prompt", "search", "exit", "context", "built", "dfs"}
          /\ phase' = "prompt" => cmd'.op \in {"none", "show", "neighbours", "inverse"}
          /\ at' # Unknown => phase' = "search" /\ cmd'.op \in {"show", "paths"}
    BY <1>1, <2>1 DEF SearchTyped, Queried
  <2>3. CASE ShowNeighbours
    <3>1. PICK u \in Queried, op \in {"query", "neighbours", "inverse"} : ShowNeighbours!(u, op)
      BY <2>3 DEF ShowNeighbours
    <3>2. /\ cmd' = [op |-> op, src |-> u, asked |-> ToSet(<<>>),
                       targets |-> <<>>, limit |-> 0]
          /\ at' = Unknown
      BY <3>1 DEF Ask, SearchTyped
    <3>3. QED
      BY <3>1, <3>2 DEF Answered
  <2>4. CASE ShowPath
    <3>1. PICK u, v \in Queried : ShowPath!(u, v)
      BY <2>4 DEF ShowPath
    <3>2. /\ cmd' = [op |-> "show", src |-> u, asked |-> ToSet(<<v>>),
                       targets |-> <<v>>, limit |-> 0]
          /\ at' = Unknown
      BY <3>1 DEF Ask, SearchTyped
    <3>3. QED
      BY <3>1, <3>2 DEF Answered, Begin
  <2>5. CASE SPaths
    <3>1. PICK u \in Queried, A \in Asked : SPaths!(u, A)
      BY <2>5 DEF SPaths
    <3>2. /\ cmd' = [op |-> "paths", src |-> u, asked |-> ToSet(SetToSeq(A)),
                       targets |-> SetToSeq(A), limit |-> 0]
          /\ at' = Unknown
      BY <3>1 DEF Ask, SearchTyped
    <3>3. QED
      BY <3>1, <3>2 DEF Answered, Begin
  <2>6. CASE SubG
    <3>1. PICK u \in Queried, n \in Limits : SubG!(u, n)
      BY <2>6 DEF SubG
    <3>2. /\ cmd' = [op |-> "subgraph", src |-> u, asked |-> ToSet(<<>>),
                       targets |-> <<>>, limit |-> n]
          /\ at' = Unknown
      BY <3>1 DEF Ask, SearchTyped
    <3>3. QED
      BY <3>1, <3>2 DEF Answered, Begin
  <2>7. CASE Quit
    BY <2>7 DEF Quit, kbVars, SearchTyped
  <2>8. CASE ExamineEdge \/ NextVertex \/ TreeEdge \/ Terminate \/ NonTreeEdge
    <3>1. phase' = phase /\ cmd' = cmd /\ at' = at
      BY <2>8 DEF ExamineEdge, NextVertex, TreeEdge, Terminate, NonTreeEdge
    <3>2. QED
      BY <3>1 DEF SearchTyped
  <2>9. CASE SubGDone
    <3>1. phase' = "exit" /\ cmd' = cmd /\ at' = at /\ cmd.op = "subgraph"
      BY <2>9 DEF SubGDone, kbVars
    <3>2. QED
      BY <3>1 DEF SearchTyped
  <2>10. CASE NextTarget
    <3>1. phase = "search" /\ cmd.op \in {"show", "paths"} /\ at = Unknown
      BY <2>10 DEF NextTarget, Searched
    <3>2. \/ phase' = "exit" /\ cmd' = cmd /\ at' = at
          \/ phase' = phase /\ cmd' = [cmd EXCEPT !.targets = Tail(@)] /\ at' = at
          \/ phase' = phase /\ cmd' = cmd
      BY <2>10 DEF NextTarget
    <3>3. QED
      BY <3>1, <3>2 DEF SearchTyped
  <2>11. CASE WalkUp
    <3>1. phase' = phase /\ cmd' = cmd /\ at # Unknown
      BY <2>11 DEF WalkUp
    <3>2. QED
      BY <3>1 DEF SearchTyped
  <2>12. CASE PathDone
    <3>1. /\ phase = "search" /\ at # Unknown /\ at' = Unknown
          /\ cmd' = [cmd EXCEPT !.targets = Tail(@)]
          /\ IF cmd.op = "show" THEN phase' = "prompt" ELSE phase' = phase
      BY <2>12 DEF PathDone, Searched
    <3>2. QED
      BY <3>1 DEF SearchTyped
  <2>13. QED
    BY <1>2, <2>3, <2>4, <2>5, <2>6, <2>7, <2>8, <2>9, <2>10, <2>11, <2>12 DEF KbNext, Step
<1>3. CASE DgStep
  <2>1. CASE NextSource
    <3>1. phase = "context" /\ at' = at /\ phase' = "search" /\ UNCHANGED <<words, word, sense>>
          /\ cmd' = [op |-> "dgraph", src |-> words[word][sense], asked |-> ToSet(Later),
                    targets |-> Later, limit |-> 0]
      BY <2>1 DEF NextSource, Begin
    <3>2. words[word][sense] \in Vertices
      <4>1. Starts \/ Searches
        BY <3>1, SearchSteps
      <4>2. cmd'.src \in Vertices
        BY <3>1, <4>1 DEF Starts, Searches
      <4>3. QED
        BY <3>1, <4>2
    <3>3. QED
      BY <1>1, <3>1, <3>2 DEF SearchTyped, Queried
  <2>2. CASE FillPath
    <3>1. /\ phase' = phase /\ cmd' = [cmd EXCEPT !.targets = Tail(@)] /\ at' = at
          /\ UNCHANGED <<words, word, sense>>
      BY <2>2 DEF FillPath
    <3>2. QED
      BY <1>1, <3>1 DEF SearchTyped, Queried
  <2>3. CASE NextWord \/ NextSense
    <3>1. /\ phase' = "context" /\ cmd' = cmd /\ at' = at /\ words' = words
          /\ word' \in {word, word + 1} /\ sense' \in {1, sense + 1}
          /\ at = Unknown
      BY <2>3 DEF NextWord, NextSense, kbVars, Searched, SearchTyped
    <3>2. QED
      BY <1>1, <3>1 DEF SearchTyped, Queried
  <2>4. CASE BuiltBfs \/ StartDfs \/ DfsTreeEdge \/ DfsOtherEdge \/ DfsFinish \/ DfsDone \/ BuiltDfs
    <3>1. /\ phase' \in {"context", "built", "dfs"} /\ cmd' = cmd /\ at' = at /\ phase # "search"
          /\ UNCHANGED <<words, word, sense>>
      BY <2>4 DEF BuiltBfs, StartDfs, DfsTreeEdge, DfsOtherEdge, DfsFinish, DfsDone, BuiltDfs,
        kbVars, dgVars
    <3>2. QED
      BY <1>1, <3>1 DEF SearchTyped, Queried
  <2>5. QED
    BY <1>3, <2>1, <2>2, <2>3, <2>4 DEF DgStep
<1>4. CASE UNCHANGED allVars
  BY <1>4 DEF SearchTyped, Queried, allVars, kbVars, dgVars
<1>5. QED
  BY <1>2, <1>3, <1>4 DEF DgNext

\* The invariant holds at first.
LEMMA SearchInit == DgInit => SearchInv
<1> SUFFICES ASSUME DgInit PROVE SearchInv
  OBVIOUS
<1>1. /\ graph \in AllGraphs /\ cmd = NoCommand /\ at = Unknown
      /\ phase \in {"prompt", "context"} /\ word = 1 /\ sense = 1
  BY KbSearchAssumption DEF DgInit, KbInit, AllGraphs
<1>2. words \in Seq(Seq(Vertices))
  <2>1. words \in Contexts \/ words = <<>>
    BY DEF DgInit
  <2>2. <<>> \in Seq(Seq(Vertices))
    OBVIOUS
  <2>3. QED
    BY <2>1, <2>2, DisambGraphAssumption
<1>3. SearchTyped
  BY <1>1, <1>2 DEF SearchTyped, NoCommand, Queried
<1>4. QED
  BY <1>1, <1>3 DEF SearchInv, BfsInv, SubInv, PathInv

\* And every step keeps it.
LEMMA SearchKept == SearchInv /\ [DgNext]_allVars => SearchInv'
BY TypedKept, BfsKept, SubKept, PathKept DEF SearchInv

\* So it always holds.
LEMMA SearchInvariance == DgSpec => []SearchInv
<1>1. DgInit => SearchInv
  BY SearchInit
<1>2. SearchInv /\ [DgNext]_allVars => SearchInv'
  BY SearchKept
<1>3. QED
  BY <1>1, <1>2, PTL DEF DgSpec

-----------------------------------------------------------------------------
(* What follows from it.                                                   *)

\* The reference definitions are these, of the graph that is searched.
LEMMA SameAsNear ==
  /\ \A s : Within(s) = Near(graph, s)
  /\ \A s, v : Reaches(s, v) <=> v \in Reachable(graph, s)
  /\ \A s, v : Dist(s, v) = Dst(graph, s, v)
<1>1. \A s : Within(s) = Near(graph, s)
  BY DEF Within, Near, Size
<1>2. QED
  BY <1>1 DEF Reaches, Reachable, Dist, Dst, Size

\* Parents show what is connected.
LEMMA ParentsFollow == SearchTyped /\ BfsInv => ParentsAreShortest
<1> SUFFICES ASSUME SearchTyped, BfsInv, Searched, cmd.op # "subgraph", NEW v \in Vertices \ {cmd.src}
             PROVE  /\ parent[v] = v <=> ~ Reaches(cmd.src, v)
                    /\ parent[v] # v => /\ Edge(parent[v], v)
                                        /\ Dist(cmd.src, v) = Dist(cmd.src, parent[v]) + 1
  BY DEF ParentsAreShortest
<1> DEFINE s == cmd.src
<1>1. /\ graph \in AllGraphs /\ s \in Vertices /\ Tree(graph, s, seen, parent) /\ Closed(graph, seen)
  BY DEF SearchTyped, BfsInv, Searched
<1>2. seen = Reachable(graph, s)
  BY <1>1, ClosedIsReachable
<1>3. CASE v \in seen
  <2>1. /\ parent[v] \in seen /\ v \in ToSet(graph[parent[v]])
        /\ Dst(graph, s, v) = Dst(graph, s, parent[v]) + 1
    BY <1>1, <1>3 DEF Tree
  <2>2. Dst(graph, s, v) \in Nat /\ Dst(graph, s, parent[v]) \in Nat
    BY <1>1, <1>2, <1>3, <2>1, Distances, SizeIsNumber
  <2>3. parent[v] # v
    BY <2>1, <2>2
  <2>4. QED
    BY <1>2, <1>3, <2>1, <2>3, SameAsNear, EdgeIsInRow
<1>4. CASE v \notin seen
  <2>1. parent[v] = v
    BY <1>1, <1>4 DEF Tree
  <2>2. QED
    BY <1>2, <1>4, <2>1, SameAsNear
<1>5. QED
  BY <1>3, <1>4

\* A shortest path is what PathsAreShortest asks for.
LEMMA WholeIsShortest ==
  ASSUME NEW s, NEW p, ShortestPath(graph, s, p)
  PROVE  /\ p[1] = s /\ Len(p) = Dist(s, Last(p)) + 1
         /\ \A j \in 1 .. Len(p) - 1 : Edge(p[j], p[j + 1])
BY SameAsNear, EdgeIsInRow DEF ShortestPath, Leads

\* While sPath looks for its targets, what it was asked for is still to come, has its path,
\* or has none; in the end the paths are those of what the source reaches.
AskedInv ==
  /\ phase = "search" /\ cmd.op = "paths" =>
       /\ ToSet(cmd.targets) \subseteq cmd.asked /\ cmd.asked \subseteq Queried
       /\ queue # <<>> => out = <<>> /\ ToSet(cmd.targets) = cmd.asked
       /\ queue = <<>> =>
            /\ \A x \in cmd.asked \ {Unknown} :
                 x \in ToSet(cmd.targets) \/ parent[x] = x \/ \E i \in DOMAIN out : Last(out[i]) = x
            /\ \A i \in DOMAIN out :
                 /\ Last(out[i]) \in cmd.asked \ {Unknown}
                 /\ parent[Last(out[i])] # Last(out[i])
  /\ phase = "exit" /\ cmd.op = "paths" =>
       {Last(out[i]) : i \in DOMAIN out} =
         IF cmd.src = Unknown THEN {}
         ELSE {v \in cmd.asked \ {Unknown, cmd.src} : v \in Reachable(graph, cmd.src)}

\* A step while the paths are looked for: the search goes on, a target is left out, its path
\* begins, grows or ends.
LEMMA AskedStep ==
  ASSUME SearchInv, AskedInv, [DgNext]_allVars, phase = "search", cmd.op = "paths"
  PROVE  AskedInv'
<1> DEFINE t == cmd.targets
           A == cmd.asked
<1>1. /\ t \in Seq(Queried) /\ out \in Seq(Seq(Vertices)) /\ cmd.src \in Vertices
      /\ DOMAIN out = 1 .. Len(out) /\ Len(out) \in Nat
      /\ ToSet(t) \subseteq A /\ A \subseteq Queried
  <2>1. t \in Seq(Queried) /\ out \in Seq(Seq(Vertices))
    BY DEF SearchInv, PathInv, PathsSoFar
  <2>2. QED
    BY <2>1, ElementsAreMembers DEF SearchInv, BfsInv, AskedInv
<1>2. t # <<>> => Head(t) \in ToSet(t) /\ ToSet(t) = {Head(t)} \cup ToSet(Tail(t))
  BY <1>1, ElementsOfTail
<1>3. CASE ExamineEdge \/ NextVertex
  <2>1. /\ cmd' = cmd /\ phase' = phase /\ out' = out /\ queue # <<>>
    BY <1>3 DEF ExamineEdge, NextVertex, Examining
  <2>2. out = <<>> /\ ToSet(t) = A
    BY <2>1 DEF AskedInv
  <2>3. DOMAIN out = {}
    BY <2>2
  <2>4. QED
    BY <1>1, <2>1, <2>2, <2>3 DEF AskedInv
<1>4. CASE NextTarget
  <2>1. /\ queue = <<>> /\ at = Unknown /\ UNCHANGED <<queue, parent, graph>> /\ Searched
    BY <1>4 DEF NextTarget, Searched, searchVars
  <2>2. CASE t = <<>>
    <3>1. phase' = "exit" /\ cmd' = cmd /\ out' = out
      BY <1>4, <2>2 DEF NextTarget
    <3>2. ToSet(t) = {}
      BY <2>2 DEF ToSet
    <3>3. /\ \A x \in A \ {Unknown} : parent[x] = x \/ \E i \in DOMAIN out : Last(out[i]) = x
          /\ \A i \in DOMAIN out : /\ Last(out[i]) \in A \ {Unknown}
                                   /\ parent[Last(out[i])] # Last(out[i])
      BY <2>1, <3>2 DEF AskedInv
    <3>4. parent[cmd.src] = cmd.src
      BY DEF SearchInv, BfsInv, Tree
    <3>5. \A v \in Vertices \ {cmd.src} : parent[v] = v <=> v \notin Reachable(graph, cmd.src)
      BY <2>1, ParentsFollow, SameAsNear DEF SearchInv, ParentsAreShortest
    <3>6. A \ {Unknown} \subseteq Vertices /\ cmd.src # Unknown
      BY <1>1, KbSearchAssumption DEF Queried
    <3>7. {Last(out[i]) : i \in DOMAIN out} =
            {v \in A \ {Unknown, cmd.src} : v \in Reachable(graph, cmd.src)}
      BY <3>3, <3>4, <3>5, <3>6
    <3>8. QED
      BY <2>1, <3>1, <3>6, <3>7 DEF AskedInv
  <2>3. CASE t # <<>> /\ (Head(t) = Unknown \/ parent[Head(t)] = Head(t))
    <3>1. /\ cmd' = [cmd EXCEPT !.targets = Tail(@)] /\ phase' = phase /\ out' = out
      BY <1>4, <2>3 DEF NextTarget
    <3>2. cmd'.op = "paths" /\ cmd'.targets = Tail(t) /\ cmd'.asked = A
      BY <3>1 DEF SearchInv, SearchTyped
    <3>3. QED
      BY <1>1, <1>2, <2>1, <2>3, <3>1, <3>2 DEF AskedInv
  <2>4. CASE t # <<>> /\ Head(t) # Unknown /\ parent[Head(t)] # Head(t)
    <3>1. cmd' = cmd /\ phase' = phase /\ out' = Append(out, <<Head(t)>>)
      BY <1>4, <2>4 DEF NextTarget
    <3>2. Head(t) \in Vertices
      BY <1>1, <1>2, <2>4 DEF Queried
    <3>3. /\ DOMAIN out' = DOMAIN out \cup {Len(out) + 1}
          /\ \A i \in DOMAIN out : out'[i] = out[i]
          /\ out'[Len(out) + 1] = <<Head(t)>>
      <4>1. <<Head(t)>> \in Seq(Vertices)
        BY <3>2
      <4>2. QED
        BY <1>1, <3>1, <4>1
    <3>4. Last(<<Head(t)>>) = Head(t)
      BY DEF Last
    <3>5. QED
      BY <1>1, <1>2, <2>1, <2>4, <3>1, <3>3, <3>4 DEF AskedInv
  <2>5. QED
    BY <2>2, <2>3, <2>4
<1>5. CASE WalkUp
  <2>1. /\ queue = <<>> /\ at # Unknown /\ cmd' = cmd /\ phase' = phase
        /\ UNCHANGED <<queue, parent, graph>>
        /\ out' = IF parent[at] = at THEN out ELSE [out EXCEPT ![Len(out)] = <<parent[at]>> \o @]
    BY <1>5 DEF WalkUp, Searched, searchVars
  <2>2. PathsSoFar(graph, cmd.src, seen, at, out, t) /\ Tree(graph, cmd.src, seen, parent)
    BY DEF SearchInv, BfsInv, PathInv
  <2>3. DOMAIN out' = DOMAIN out /\ \A i \in DOMAIN out : Last(out'[i]) = Last(out[i])
    <3>1. CASE parent[at] = at
      BY <2>1, <3>1
    <3>2. CASE parent[at] # at
      <4>1. at \in Vertices /\ at # cmd.src /\ graph \in AllGraphs
        BY <1>5, <2>1, <2>2 DEF WalkUp, PathsSoFar, Queried, SearchInv, SearchTyped
      <4>2. out' = [out EXCEPT ![Len(out)] = <<parent[at]>> \o @]
        BY <2>1, <3>2
      <4> DEFINE s == cmd.src
      <4>3. /\ s \in Vertices /\ at # s /\ parent[at] # at
            /\ PathsSoFar(graph, s, seen, at, out, t) /\ Tree(graph, s, seen, parent)
        BY <1>1, <2>2, <3>2, <4>1
      <4>4. out' = Lengthened(out, parent[at])
        BY <4>2 DEF Lengthened
      <4> HIDE DEF t, A, s
      <4>5. /\ DOMAIN Lengthened(out, parent[at]) = DOMAIN out
            /\ \A i \in DOMAIN out : Last(Lengthened(out, parent[at])[i]) = Last(out[i])
        BY <4>1, <4>3, UpPath
      <4>6. QED
        BY <4>4, <4>5
    <3>3. QED
      BY <3>1, <3>2
  <2>4. QED
    BY <2>1, <2>3 DEF AskedInv
<1>6. CASE PathDone
  <2>1. /\ queue = <<>> /\ at # Unknown /\ at = cmd.src
        /\ cmd' = [cmd EXCEPT !.targets = Tail(@)] /\ out' = out
        /\ UNCHANGED <<phase, queue, parent, graph>>
    BY <1>6 DEF PathDone, Searched, searchVars
  <2>2. cmd'.op = "paths" /\ cmd'.targets = Tail(t) /\ cmd'.asked = A
    BY <2>1 DEF SearchInv, SearchTyped
  <2>3. t # <<>> /\ out # <<>> /\ Last(Last(out)) = Head(t)
    BY <2>1 DEF SearchInv, PathInv, PathsSoFar
  <2>4. Len(out) \in DOMAIN out /\ Last(out[Len(out)]) = Head(t)
    BY <1>1, <2>3 DEF Last
  <2>5. QED
    BY <1>1, <1>2, <2>1, <2>2, <2>3, <2>4 DEF AskedInv
<1>7. CASE UNCHANGED allVars
  BY <1>7 DEF AskedInv, allVars, kbVars, searchVars
<1>8. ~ (ShowNeighbours \/ ShowPath \/ SPaths \/ SubG \/ Quit \/ TreeEdge \/ Terminate \/ NonTreeEdge
           \/ SubGDone \/ DgStep)
  BY DEF ShowNeighbours, ShowPath, SPaths, SubG, Quit, Ask, TreeEdge, Terminate, NonTreeEdge,
    SubGDone, DgStep, NextSource, NextWord, FillPath, NextSense, BuiltBfs, StartDfs,
    DfsTreeEdge, DfsOtherEdge, DfsFinish, DfsDone, BuiltDfs
<1>9. QED
  BY <1>3, <1>4, <1>5, <1>6, <1>7, <1>8 DEF DgNext, KbNext, Step

\* Every step keeps what is known of the names.
LEMMA AskedKept == SearchInv /\ AskedInv /\ [DgNext]_allVars => AskedInv'
<1> SUFFICES ASSUME SearchInv, AskedInv, [DgNext]_allVars PROVE AskedInv'
  OBVIOUS
<1>1. CASE phase = "search" /\ cmd.op = "paths"
  BY <1>1, AskedStep
<1>2. CASE ~ (phase = "search" /\ cmd.op = "paths")
  <2>1. CASE SPaths
    <3>1. PICK u \in Queried, A \in Asked : SPaths!(u, A)
      BY <2>1 DEF SPaths
    <3>2. /\ cmd' = [op |-> "paths", src |-> u, asked |-> ToSet(SetToSeq(A)),
                     targets |-> SetToSeq(A), limit |-> 0]
          /\ out' = <<>>
      BY <3>1 DEF Ask
    <3>3. ToSet(SetToSeq(A)) \subseteq Queried
      <4>1. A \subseteq Queried /\ IsFiniteSet(Queried)
        BY KbSearchAssumption, FS_AddElement DEF Queried
      <4>2. SetToSeq(A) \in Seq(A)
        BY <4>1, FS_Subset, SetAsSeq
      <4>3. QED
        BY <4>1, <4>2, ElementsAreMembers
    <3>4. CASE u = Unknown
      <4>1. phase' = "exit"
        BY <3>1, <3>2, <3>4 DEF Answered
      <4>2. DOMAIN out' = {}
        BY <3>2
      <4>3. QED
        BY <3>2, <3>4, <4>1, <4>2 DEF AskedInv
    <3>5. CASE u # Unknown
      <4>1. phase' = "search" /\ queue' = <<u>>
        BY <3>1, <3>5 DEF Begin
      <4>2. QED
        BY <3>2, <3>3, <4>1 DEF AskedInv
    <3>6. QED
      BY <3>4, <3>5
  <2>2. CASE ~ SPaths /\ ~ DgStep /\ cmd'.op = "paths"
    <3>1. cmd.op = "paths" /\ cmd' = cmd /\ phase' = phase /\ out' = out /\ graph' = graph
      <4>1. ~ ShowNeighbours /\ ~ ShowPath /\ ~ SubG
        <5>1. ASSUME NEW op, NEW u, NEW T, NEW n, Ask(op, u, T, n), op # "paths"
              PROVE  FALSE
          BY <2>2, <5>1 DEF Ask
        <5>2. ~ ShowNeighbours
          BY <5>1 DEF ShowNeighbours
        <5>3. ~ ShowPath
          BY <5>1 DEF ShowPath
        <5>4. ~ SubG
          BY <5>1 DEF SubG
        <5>5. QED
          BY <5>2, <5>3, <5>4
      <4>2. ~ Step
        <5>1. CASE ExamineEdge \/ NextVertex \/ TreeEdge \/ Terminate \/ NonTreeEdge
          BY <1>2, <2>2, <5>1 DEF ExamineEdge, NextVertex, TreeEdge, Terminate, NonTreeEdge, Examining
        <5>2. CASE SubGDone
          BY <2>2, <5>2 DEF SubGDone, kbVars
        <5>3. CASE NextTarget \/ WalkUp \/ PathDone
          <6>1. phase = "search" /\ cmd' \in {cmd, [cmd EXCEPT !.targets = Tail(@)]}
            BY <5>3 DEF NextTarget, WalkUp, PathDone, Searched
          <6>2. cmd'.op = cmd.op
            BY <6>1 DEF SearchInv, SearchTyped
          <6>3. QED
            BY <1>2, <2>2, <6>1, <6>2
        <5>4. QED
          BY <5>1, <5>2, <5>3 DEF Step
      <4>3. CASE Quit
        BY <2>2, <4>3 DEF Quit, kbVars, SearchInv, SearchTyped
      <4>4. CASE UNCHANGED allVars
        BY <2>2, <4>4 DEF allVars, kbVars
      <4>5. QED
        BY <2>2, <4>1, <4>2, <4>3, <4>4 DEF DgNext, KbNext
    <3>2. QED
      BY <1>2, <3>1 DEF AskedInv
  <2>3. CASE cmd'.op # "paths"
    BY <2>3 DEF AskedInv
  <2>4. CASE DgStep
    <3>1. phase' \in {"context", "built", "dfs"} \/ cmd'.op = "dgraph"
      <4>1. CASE NextSource
        BY <4>1 DEF NextSource
      <4>2. CASE FillPath
        <5>1. cmd.op = "dgraph" /\ cmd' = [cmd EXCEPT !.targets = Tail(@)]
          BY <4>2 DEF FillPath
        <5>2. cmd'.op = cmd.op
          BY <5>1 DEF SearchInv, SearchTyped
        <5>3. QED
          BY <5>1, <5>2
      <4>3. CASE NextWord \/ NextSense \/ BuiltBfs
        BY <4>3 DEF NextWord, NextSense, BuiltBfs
      <4>4. CASE StartDfs \/ DfsTreeEdge \/ DfsOtherEdge \/ DfsFinish \/ DfsDone \/ BuiltDfs
        BY <4>4 DEF StartDfs, DfsTreeEdge, DfsOtherEdge, DfsFinish, DfsDone, BuiltDfs
      <4>5. QED
        BY <2>4, <4>1, <4>2, <4>3, <4>4 DEF DgStep
    <3>2. QED
      BY <3>1 DEF AskedInv
  <2>5. QED
    BY <2>1, <2>2, <2>3, <2>4
<1>3. QED
  BY <1>1, <1>2

\* So it always holds.
LEMMA AskedInvariance == DgSpec => []AskedInv
<1>1. DgInit => AskedInv
  BY DEF DgInit, KbInit, NoCommand, AskedInv
<1>2. SearchInv /\ AskedInv /\ [DgNext]_allVars => AskedInv'
  BY AskedKept
<1>3. QED
  BY <1>1, <1>2, SearchInvariance, PTL DEF DgSpec

\* The invariants have what is said of paths,
LEMMA PathsFollow == SearchInv /\ AskedInv => PathsAreShortest
<1> SUFFICES ASSUME SearchInv, AskedInv
             PROVE  /\ (Searched /\ at = cmd.src) \/ (phase = "exit" /\ cmd.op = "paths") =>
                         \A i \in DOMAIN out :
                           /\ out[i][1] = cmd.src
                           /\ Len(out[i]) = Dist(cmd.src, Last(out[i])) + 1
                           /\ \A j \in 1 .. Len(out[i]) - 1 : Edge(out[i][j], out[i][j + 1])
                    /\ phase = "exit" /\ cmd.op = "paths" =>
                         /\ {Last(out[i]) : i \in DOMAIN out} =
                              IF cmd.src = Unknown THEN {}
                              ELSE {v \in cmd.asked \ {Unknown, cmd.src} : Reaches(cmd.src, v)}
                         /\ \A i, j \in DOMAIN out : Last(out[i]) = Last(out[j]) => i = j
  BY ParentsFollow DEF PathsAreShortest, SearchInv
<1>1. CASE Searched /\ at = cmd.src
  <2>1. phase = "search" /\ cmd.src \in Vertices /\ graph \in AllGraphs
    BY <1>1 DEF Searched, SearchInv, BfsInv, SearchTyped
  <2>2. at # Unknown
    BY <1>1, <2>1, KbSearchAssumption
  <2>3. cmd.op \in {"show", "paths"}
    BY <2>2 DEF SearchInv, SearchTyped
  <2>4. /\ Tree(graph, cmd.src, seen, parent)
        /\ PathsSoFar(graph, cmd.src, seen, cmd.src, out, cmd.targets)
    BY <1>1, <2>1, <2>3 DEF SearchInv, BfsInv, PathInv
  <2>5. PathsSoFar(graph, cmd.src, seen, Unknown, out, Tail(cmd.targets))
    BY <2>1, <2>4, EndPath
  <2>6. out \in Seq(Seq(Vertices)) /\ \A i \in 1 .. Len(out) : ShortestPath(graph, cmd.src, out[i])
    BY <2>5 DEF PathsSoFar
  <2>7. DOMAIN out = 1 .. Len(out)
    BY <2>6, ElementsAreMembers
  <2>8. QED
    BY <2>1, <2>6, <2>7, WholeIsShortest
<1>2. CASE phase = "exit" /\ cmd.op = "paths"
  <2>1. PathsOut(graph, cmd.src, out)
    BY <1>2 DEF SearchInv, PathInv
  <2>2. DOMAIN out = 1 .. Len(out)
    BY <2>1, ElementsAreMembers DEF PathsOut
  <2>3. \A i \in DOMAIN out : ShortestPath(graph, cmd.src, out[i])
    BY <2>1, <2>2 DEF PathsOut
  <2>4. \A i, j \in DOMAIN out : Last(out[i]) = Last(out[j]) => i = j
    BY <2>1, <2>2 DEF PathsOut
  <2>5. \A i \in DOMAIN out :
          /\ out[i][1] = cmd.src
          /\ Len(out[i]) = Dist(cmd.src, Last(out[i])) + 1
          /\ \A j \in 1 .. Len(out[i]) - 1 : Edge(out[i][j], out[i][j + 1])
    BY <2>3, WholeIsShortest
  <2>6. {Last(out[i]) : i \in DOMAIN out} =
          IF cmd.src = Unknown THEN {}
          ELSE {v \in cmd.asked \ {Unknown, cmd.src} : Reaches(cmd.src, v)}
    BY <1>2, SameAsNear DEF AskedInv
  <2>7. QED
    BY <1>2, <2>4, <2>5, <2>6 DEF Searched
<1>3. QED
  BY <1>1, <1>2

\* and what is said of subgraphs.
LEMMA SubgraphFollows == SearchInv => SubgraphIsNearest
<1> DEFINE s == cmd.src
           inside == ToSet(sub.V)
           near == Within(s)[Cardinality(Vertices)]
<1> SUFFICES ASSUME SearchInv, phase = "exit", cmd.op = "subgraph", sub.V # <<>>
             PROVE /\ Cardinality(inside) = Len(sub.V)
                   /\ Len(sub.V) = Min({cmd.limit, Cardinality(near)})
                   /\ \A v \in inside, x \in near \ inside : Dist(s, v) <= Dist(s, x)
                   /\ \A u \in inside : ToSet(sub.E[u]) \subseteq {v \in inside : Edge(u, v)}
                   /\ \A v \in inside \ {s} : v \in ToSet(sub.E[parent[v]])
                   /\ \A v \in inside \ {s} : Edge(v, parent[v]) => parent[v] \in ToSet(sub.E[v])
                   /\ inside = near => \A u, v \in inside : Edge(u, v) => v \in ToSet(sub.E[u])
  BY DEF SubgraphIsNearest
<1>1. /\ s \in Vertices /\ Tree(graph, s, seen, parent) /\ graph \in AllGraphs
      /\ Kept(graph, s, cmd.limit, seen, parent, sub)
      /\ Ended(graph, s, cmd.limit, seen, sub)
  BY DEF SearchInv, SearchTyped, SubInv
<1>2. inside = seen /\ near = Reachable(graph, s) /\ seen \subseteq near /\ near \subseteq Vertices
  BY <1>1, SameAsNear, Distances DEF Kept, Reachable, Size, Tree
<1> HIDE DEF s, inside, near
<1>3. Cardinality(inside) = Len(sub.V)
  BY <1>1, <1>2 DEF Kept
<1>4. /\ \A u \in inside : ToSet(sub.E[u]) \subseteq {v \in inside : Edge(u, v)}
  BY <1>1, <1>2, EdgeIsInRow DEF Kept
<1>5. /\ \A v \in inside \ {s} : v \in ToSet(sub.E[parent[v]])
      /\ \A v \in inside \ {s} : Edge(v, parent[v]) => parent[v] \in ToSet(sub.E[v])
  BY <1>1, <1>2, EdgeIsInRow DEF Kept
<1>6. /\ IsFiniteSet(near) /\ Cardinality(near) \in Nat /\ Cardinality(seen) \in Nat
      /\ Cardinality(seen) <= Cardinality(near)
      /\ Cardinality(seen) = Cardinality(near) => seen = near
  BY <1>2, KbSearchAssumption, FS_Subset, FS_CardinalityType
<1>7. cmd.limit \in Nat /\ Len(sub.V) = Cardinality(seen) /\ Len(sub.V) <= cmd.limit
      /\ sub.found = Len(sub.V)
  BY <1>1 DEF Kept
<1>8. \A a, b \in Nat : a <= b => Min({a, b}) = a /\ Min({b, a}) = a
  <2> SUFFICES ASSUME NEW a \in Nat, NEW b \in Nat, a <= b PROVE Min({a, b}) = a
    <3>1. \A x, y : {x, y} = {y, x}
      OBVIOUS
    <3>2. QED
      BY <3>1
  <2>1. \E m \in {a, b} : \A k \in {a, b} : m <= k
    OBVIOUS
  <2>2. Min({a, b}) \in {a, b} /\ \A k \in {a, b} : Min({a, b}) <= k
    BY <2>1 DEF Min
  <2>3. QED
    BY <2>2
<1>9. CASE Closed(graph, seen) /\ \A u \in seen : ToSet(graph[u]) \subseteq ToSet(sub.E[u])
  <2>1. seen = near
    BY <1>1, <1>2, <1>9, ClosedIsReachable
  <2>2. Len(sub.V) = Min({cmd.limit, Cardinality(near)})
    BY <1>7, <1>8, <2>1, <1>6
  <2>3. \A u, v \in inside : Edge(u, v) => v \in ToSet(sub.E[u])
    BY <1>2, <1>9, EdgeIsInRow
  <2>4. QED
    BY <1>2, <1>3, <1>4, <1>5, <2>1, <2>2, <2>3
<1>10. CASE /\ sub.found = cmd.limit
            /\ Reachable(graph, s) \ seen # {}
            /\ \A v \in seen, x \in Reachable(graph, s) \ seen : Dst(graph, s, v) <= Dst(graph, s, x)
  <2>1. inside # near
    BY <1>2, <1>10
  <2>2. Len(sub.V) = Min({cmd.limit, Cardinality(near)})
    BY <1>6, <1>7, <1>8, <1>10
  <2>3. \A v \in inside, x \in near \ inside : Dist(s, v) <= Dist(s, x)
    BY <1>2, <1>10, SameAsNear
  <2>4. QED
    BY <1>3, <1>4, <1>5, <2>1, <2>2, <2>3
<1>11. QED
  BY <1>1, <1>9, <1>10 DEF Ended

\* Kb::bfs leaves parents that show what is connected and lead to the source by a shortest
\* way, every path that show_bfs_path and sPath print from them (get_shortest_paths) is a
\* shortest one along the edges, and sPath prints exactly one for each of its targets that
\* the source reaches; for any graph, also one with loops or double edges, and any targets.
THEOREM PathsShortest == DgSpec => []PathsAreShortest
BY SearchInvariance, AskedInvariance, PathsFollow, PTL

\* Kb::get_subgraph returns the vertices nearest to its first one, as many as the limit
\* lets it, whenever its visitor throws; the edges it lists are edges of the graph, among
\* them all by which its vertices were found and, unless the search is cut short, all others.
THEOREM SubgraphNearest == DgSpec => []SubgraphIsNearest
BY SearchInvariance, SubgraphFollows, PTL

-----------------------------------------------------------------------------
(* The depth first search.                                                 *)

\* Paths without a vertex twice are among these.
Paths == UNION {[1 .. n -> Vertices] : n \in 2 .. Size}

\* A way without a vertex twice.
Way(G, p) ==
  /\ p \in Seq(Vertices) /\ Len(p) >= 2 /\ IsInjective(p)
  /\ \A j \in 1 .. Len(p) - 1 : p[j + 1] \in ToSet(G[p[j]])

\* One from a sense to another, without senses between, that is not too long.
Chain(G, A, m, p) ==
  /\ Way(G, p) /\ Len(p) - 1 <= m
  /\ p[1] \in A /\ p[Len(p)] \in A /\ \A i \in 2 .. Len(p) - 1 : p[i] \notin A

\* A set of edges that has the edges of a way, and an edge that is one of them.
Carries(E, p) == \A j \in 1 .. Len(p) - 1 : <<p[j], p[j + 1]>> \in E
StepsOf(p)    == {<<p[j], p[j + 1]>> : j \in 1 .. Len(p) - 1}
OnWay(e, p)   == \E j \in 1 .. Len(p) - 1 : e = <<p[j], p[j + 1]>>
Spans(D, p)   == \A j \in 1 .. Len(p) - 1 : {p[j], p[j + 1]} \in D
Between(e, p) == \E j \in 1 .. Len(p) - 1 : e = {p[j], p[j + 1]}

\* Every edge that has been found is on a chain, with the others of it.
FoundOK(G, A, m, E) ==
  /\ E \subseteq Vertices \X Vertices
  /\ \A e \in E : \E p \in Paths : Chain(G, A, m, p) /\ Carries(E, p) /\ OnWay(e, p)

\* And every edge of a subgraph.
JoinedOK(G, A, m, D) ==
  /\ D \subseteq SUBSET Vertices
  /\ \A e \in D : \E p \in Paths : Chain(G, A, m, p) /\ Spans(D, p) /\ Between(e, p)

\* A sequence without a vertex twice is not longer than there are vertices.
LEMMA InjectiveFits ==
  ASSUME NEW p \in Seq(Vertices), IsInjective(p)
  PROVE  Len(p) <= Size /\ p \in [1 .. Len(p) -> Vertices]
<1>1. p \in [1 .. Len(p) -> Vertices] /\ Len(p) \in Nat
  BY LenProperties
<1>2. p \in Injection(1 .. Len(p), Vertices)
  BY <1>1 DEF Injection
<1>3. Cardinality(1 .. Len(p)) <= Size
  BY <1>2, FS_Injection, KbSearchAssumption DEF Size
<1>4. Cardinality(1 .. Len(p)) = Len(p)
  <2>1. \A n \in Nat : Cardinality(1 .. n) = n
    BY FS_Interval
  <2>2. QED
    BY <1>1, <2>1
<1>5. QED
  BY <1>1, <1>3, <1>4

\* So Paths has every way.
LEMMA WayIsPath ==
  ASSUME NEW G, NEW p, Way(G, p)
  PROVE  p \in Paths
<1>1. p \in Seq(Vertices) /\ Len(p) >= 2 /\ Len(p) <= Size /\ p \in [1 .. Len(p) -> Vertices]
      /\ Len(p) \in Nat
  BY InjectiveFits, LenProperties DEF Way
<1>2. Len(p) \in 2 .. Size
  BY <1>1, SizeIsNumber
<1>3. QED
  BY <1>1, <1>2 DEF Paths

\* Every edge of a way between senses is on a part of it that is a chain.
LEMMA ChainAround ==
  ASSUME NEW G \in AllGraphs, NEW A, NEW m \in Nat, NEW q, Way(G, q), Len(q) - 1 <= m,
         q[1] \in A, q[Len(q)] \in A, NEW E, Carries(E, q), NEW j \in 1 .. Len(q) - 1
  PROVE  \E p \in Paths : Chain(G, A, m, p) /\ Carries(E, p) /\ OnWay(<<q[j], q[j + 1]>>, p)
<1>1. q \in Seq(Vertices) /\ Len(q) \in Nat /\ Len(q) >= 2 /\ DOMAIN q = 1 .. Len(q)
      /\ \A n \in 1 .. Len(q) : q[n] \in Vertices
  BY ElementsAreMembers DEF Way
<1>2. PICK i \in {n \in 1 .. j : q[n] \in A} : \A k \in {n \in 1 .. j : q[n] \in A} : k <= i
  <2> DEFINE I == {n \in 1 .. j : q[n] \in A}
  <2>1. I \in SUBSET Nat /\ I # {} /\ j \in Nat /\ \A n \in I : n <= j
    <3>1. 1 \in I
      BY <1>1
    <3>2. QED
      BY <3>1, <1>1
  <2> HIDE DEF I
  <2>2. \E i \in I : \A k \in I : k <= i
    BY <2>1, GreatestNumber
  <2>3. QED
    BY <2>2 DEF I
<1>3. PICK k \in {n \in j + 1 .. Len(q) : q[n] \in A} : \A l \in {n \in j + 1 .. Len(q) : q[n] \in A} : k <= l
  <2> DEFINE I == {n \in j + 1 .. Len(q) : q[n] \in A}
  <2>1. I \in SUBSET Nat /\ I # {}
    <3>1. Len(q) \in I
      BY <1>1
    <3>2. QED
      BY <3>1, <1>1
  <2> HIDE DEF I
  <2>2. \E a \in I : \A n \in I : a <= n
    BY <2>1, LeastNumber
  <2>3. QED
    BY <2>2 DEF I
<1> DEFINE l == k - i + 1
           p == [n \in 1 .. l |-> q[n + i - 1]]
<1>4. l \in Nat /\ l >= 2 /\ l <= Len(q) /\ i \in 1 .. j /\ k \in j + 1 .. Len(q)
      /\ i + l - 1 = k /\ q[i] \in A /\ q[k] \in A
  BY <1>1, <1>2, <1>3
<1>5. \A n \in 1 .. l : n + i - 1 \in 1 .. Len(q)
  BY <1>4, <1>1
<1>6. p \in Seq(Vertices) /\ Len(p) = l /\ DOMAIN p = 1 .. l
  BY <1>1, <1>4, <1>5
<1>7. \A n \in 1 .. l : p[n] = q[n + i - 1]
  OBVIOUS
<1>8. p[1] = q[i] /\ p[l] = q[k]
  BY <1>4
<1> HIDE DEF p
<1>9. IsInjective(p)
  <2> SUFFICES ASSUME NEW a \in 1 .. l, NEW b \in 1 .. l, p[a] = p[b] PROVE a = b
    BY <1>6 DEF IsInjective
  <2>1. q[a + i - 1] = q[b + i - 1] /\ a + i - 1 \in DOMAIN q /\ b + i - 1 \in DOMAIN q
    BY <1>1, <1>5, <1>7
  <2>2. a + i - 1 = b + i - 1
    BY <2>1 DEF Way, IsInjective
  <2>3. QED
    BY <2>2, <1>4
<1>10. ASSUME NEW n \in 1 .. l - 1
       PROVE  /\ n + i - 1 \in 1 .. Len(q) - 1
              /\ p[n] = q[n + i - 1] /\ p[n + 1] = q[(n + i - 1) + 1]
  <2>1. n \in 1 .. l /\ n + 1 \in 1 .. l /\ (n + 1) + i - 1 = (n + i - 1) + 1
    BY <1>4
  <2>2. n + i - 1 \in 1 .. Len(q) - 1
    BY <1>4, <1>1
  <2>3. QED
    BY <2>1, <2>2, <1>7
<1>11. Way(G, p)
  BY <1>4, <1>6, <1>9, <1>10 DEF Way
<1>12. ASSUME NEW n \in 2 .. l - 1 PROVE p[n] \notin A
  <2>0. n \in 1 .. l /\ n + i - 1 > i /\ n + i - 1 < k /\ n + i - 1 \in Nat
    BY <1>4
  <2>1. n \in 1 .. l /\ p[n] = q[n + i - 1] /\ n + i - 1 > i /\ n + i - 1 < k /\ n + i - 1 \in Nat
    BY <2>0, <1>7
  <2>2. CASE n + i - 1 <= j
    BY <2>1, <2>2, <1>2, <1>4
  <2>3. CASE n + i - 1 > j
    BY <2>1, <2>3, <1>3, <1>4
  <2>4. QED
    BY <2>1, <2>2, <2>3, <1>4
<1>13. Chain(G, A, m, p)
  <2>1. Len(p) - 1 <= m
    BY <1>4, <1>6, <1>1
  <2>2. QED
    BY <1>4, <1>6, <1>8, <1>11, <1>12, <2>1 DEF Chain
<1>14. Carries(E, p)
  BY <1>6, <1>10 DEF Carries
<1>15. OnWay(<<q[j], q[j + 1]>>, p)
  <2>1. PICK n \in 1 .. l - 1 : n = j - i + 1
    BY <1>4, <1>1
  <2>2. n + i - 1 = j
    BY <2>1, <1>4
  <2>3. p[n] = q[j] /\ p[n + 1] = q[j + 1]
    BY <2>2, <1>10
  <2>4. QED
    BY <2>3, <1>6 DEF OnWay
<1>16. QED
  BY <1>11, <1>13, <1>14, <1>15, WayIsPath

\* A way to another sense may be added to what has been found.
LEMMA FoundGrows ==
  ASSUME NEW G \in AllGraphs, NEW A, NEW m \in Nat, NEW q, Way(G, q), Len(q) - 1 <= m,
         q[1] \in A, q[Len(q)] \in A, NEW E, FoundOK(G, A, m, E)
  PROVE  FoundOK(G, A, m, E \cup StepsOf(q))
<1> DEFINE F == E \cup {<<q[j], q[j + 1]>> : j \in 1 .. Len(q) - 1}
<1>1. q \in Seq(Vertices) /\ Len(q) \in Nat /\ \A n \in 1 .. Len(q) : q[n] \in Vertices
  BY ElementsAreMembers DEF Way
<1>2. F \subseteq Vertices \X Vertices
  <2>1. \A j \in 1 .. Len(q) - 1 : <<q[j], q[j + 1]>> \in Vertices \X Vertices
    BY <1>1
  <2>2. QED
    BY <2>1 DEF FoundOK
<1>3. E \subseteq F /\ Carries(F, q)
  BY DEF Carries
<1>4. ASSUME NEW e \in E
      PROVE  \E p \in Paths : Chain(G, A, m, p) /\ Carries(F, p) /\ OnWay(e, p)
  <2>1. PICK p \in Paths : Chain(G, A, m, p) /\ Carries(E, p) /\ OnWay(e, p)
    BY DEF FoundOK
  <2>2. Carries(F, p)
    BY <2>1, <1>3 DEF Carries
  <2>3. QED
    BY <2>1, <2>2
<1>5. ASSUME NEW j \in 1 .. Len(q) - 1
      PROVE  \E p \in Paths : Chain(G, A, m, p) /\ Carries(F, p) /\ OnWay(<<q[j], q[j + 1]>>, p)
  <2> HIDE DEF F
  <2> QED BY <1>3, ChainAround
<1>6. \A e \in F : e \in E \/ \E j \in 1 .. Len(q) - 1 : e = <<q[j], q[j + 1]>>
  OBVIOUS
<1> HIDE DEF F
<1>7. \A e \in F : \E p \in Paths : Chain(G, A, m, p) /\ Carries(F, p) /\ OnWay(e, p)
  BY <1>4, <1>5, <1>6
<1>8. FoundOK(G, A, m, F)
  BY <1>2, <1>7 DEF FoundOK
<1>9. QED
  BY <1>8 DEF F, StepsOf

\* A stack of the search from s, for a depth of m and the vertices seen.
Frame == [u : Vertices, rest : Seq(Vertices)]

Frames(G, s, m, S, st) ==
  /\ s \in S /\ S \subseteq Vertices
  /\ st \in Seq(Frame)
  /\ st # <<>> => st[1].u = s
  /\ \A i \in 1 .. Len(st) :
       /\ st[i].u \in S /\ ToSet(st[i].rest) \subseteq ToSet(G[st[i].u])
       /\ i - 1 <= m /\ (st[i].rest # <<>> => i - 1 < m)
  /\ \A i, j \in 1 .. Len(st) : st[i].u = st[j].u => i = j
  /\ \A i \in 1 .. Len(st) - 1 : st[i + 1].u \in ToSet(G[st[i].u])

\* Edges of vertices in S that do not lead to T are still to be followed.
Followed(G, S, T, st) ==
  \A x \in S : \/ ToSet(G[x]) \subseteq T
               \/ \E i \in 1 .. Len(st) : st[i].u = x /\ ToSet(G[x]) \subseteq T \cup ToSet(st[i].rest)

\* The edges along the stack, and one more from its top.
StepsOver(st, v) ==
  {<<st[i].u, st[i + 1].u>> : i \in 1 .. Len(st) - 1} \cup {<<Last(st).u, v>>}

Trim(st) == [st EXCEPT ![Len(st)].rest = Tail(@)]

\* What the frames of a stack are; there are no more of them than vertices.
LEMMA FramesAre ==
  ASSUME NEW G \in AllGraphs, NEW s, NEW m \in Nat, NEW S, NEW st, Frames(G, s, m, S, st)
  PROVE  /\ st \in Seq(Frame) /\ Len(st) \in Nat /\ DOMAIN st = 1 .. Len(st)
         /\ (st # <<>> <=> Len(st) > 0)
         /\ \A i \in 1 .. Len(st) : /\ st[i] \in Frame /\ st[i].u \in Vertices
                                    /\ st[i].rest \in Seq(Vertices)
         /\ Len(st) <= Size
<1>1. /\ st \in Seq(Frame) /\ Len(st) \in Nat /\ DOMAIN st = 1 .. Len(st)
      /\ (st # <<>> <=> Len(st) > 0)
      /\ \A i \in 1 .. Len(st) : st[i] \in Frame
  BY ElementsAreMembers DEF Frames
<1>2. \A i \in 1 .. Len(st) : st[i].u \in Vertices /\ st[i].rest \in Seq(Vertices)
  BY <1>1 DEF Frame
<1> DEFINE q == [i \in 1 .. Len(st) |-> st[i].u]
<1>3. q \in Seq(Vertices) /\ Len(q) = Len(st) /\ IsInjective(q)
  <2>1. q \in Seq(Vertices) /\ Len(q) = Len(st)
    BY <1>1, <1>2
  <2>2. IsInjective(q)
    BY <1>1 DEF Frames, IsInjective
  <2>3. QED
    BY <2>1, <2>2
<1>4. Len(q) <= Size
  <2> HIDE DEF q
  <2> QED BY <1>3, InjectiveFits
<1>5. QED
  BY <1>1, <1>2, <1>3, <1>4

\* The stack at first: the source and its edges.
LEMMA FramesBegin ==
  ASSUME NEW G \in AllGraphs, NEW s \in Vertices, NEW m \in Nat \ {0}, NEW r \in Seq(Vertices),
         r = G[s]
  PROVE  /\ Frames(G, s, m, {s}, <<[u |-> s, rest |-> r]>>)
         /\ Followed(G, {s}, {s}, <<[u |-> s, rest |-> r]>>)
<1> DEFINE st == <<[u |-> s, rest |-> r]>>
<1>1. Len(st) = 1 /\ st[1].u = s /\ st[1].rest = r /\ st[1] \in Frame
  BY DEF Frame
<1>2. st \in Seq(Frame)
  BY DEF Frame
<1> HIDE DEF st
<1>3. \A i \in 1 .. Len(st) : i = 1
  BY <1>1
<1>4. 1 .. Len(st) - 1 = {}
  BY <1>1
<1>5. Frames(G, s, m, {s}, st)
  BY <1>1, <1>2, <1>3, <1>4 DEF Frames
<1>6. Followed(G, {s}, {s}, st)
  BY <1>1 DEF Followed
<1>7. QED
  BY <1>5, <1>6 DEF st

\* An edge of the last vertex has been examined.
LEMMA FramesTrim ==
  ASSUME NEW G \in AllGraphs, NEW s, NEW m \in Nat, NEW S, NEW st, Frames(G, s, m, S, st),
         st # <<>>, Last(st).rest # <<>>
  PROVE  /\ Frames(G, s, m, S, Trim(st))
         /\ Len(Trim(st)) = Len(st) /\ Last(Trim(st)).u = Last(st).u /\ Len(st) <= m
         /\ Head(Last(st).rest) \in ToSet(G[Last(st).u])
         /\ Followed(G, S, S, st) => Followed(G, S, S \cup {Head(Last(st).rest)}, Trim(st))
<1> DEFINE n == Len(st)
           h == Head(st[n].rest)
           t == Trim(st)
<1>1. /\ st \in Seq(Frame) /\ n \in Nat /\ DOMAIN st = 1 .. n /\ n > 0 /\ n \in 1 .. n
      /\ \A i \in 1 .. n : st[i] \in Frame /\ st[i].u \in Vertices /\ st[i].rest \in Seq(Vertices)
  <2>1. /\ st \in Seq(Frame) /\ Len(st) \in Nat /\ DOMAIN st = 1 .. Len(st)
        /\ (st # <<>> <=> Len(st) > 0)
        /\ \A i \in 1 .. Len(st) : /\ st[i] \in Frame /\ st[i].u \in Vertices
                                   /\ st[i].rest \in Seq(Vertices)
    BY FramesAre
  <2>2. QED
    BY <2>1
<1>2. Last(st) = st[n]
  BY DEF Last
<1>3. /\ Tail(st[n].rest) \in Seq(Vertices)
      /\ ToSet(st[n].rest) = {h} \cup ToSet(Tail(st[n].rest))
  <2>1. st[n].rest \in Seq(Vertices) /\ st[n].rest # <<>>
    BY <1>1, <1>2
  <2>2. QED
    BY <2>1, ElementsOfTail
<1>4. /\ t \in Seq(Frame) /\ Len(t) = n
      /\ t[n].u = st[n].u /\ t[n].rest = Tail(st[n].rest)
      /\ \A i \in 1 .. n : i # n => t[i] = st[i]
  <2> DEFINE x == [st[n] EXCEPT !.rest = Tail(@)]
  <2>1. x.u = st[n].u /\ x.rest = Tail(st[n].rest) /\ x \in Frame
    BY <1>1, <1>3 DEF Frame
  <2>2. t = [st EXCEPT ![n] = x]
    BY <1>1 DEF Trim
  <2> HIDE DEF x, t
  <2>3. t \in Seq(Frame) /\ Len(t) = n /\ t[n] = x /\ \A i \in 1 .. n : i # n => t[i] = st[i]
    BY <1>1, <2>1, <2>2
  <2>4. QED
    BY <2>1, <2>3
<1> HIDE DEF t, h
<1>5. \A i \in 1 .. n : t[i].u = st[i].u
  BY <1>4
<1>6. \A i \in 1 .. n : /\ ToSet(t[i].rest) \subseteq ToSet(st[i].rest)
                        /\ t[i].rest # <<>> => st[i].rest # <<>>
  <2>1. st[n].rest # <<>>
    BY <1>2
  <2>2. QED
    BY <1>3, <1>4, <2>1
<1>7. Frames(G, s, m, S, t)
  <2>1. t # <<>> => t[1].u = s
    BY <1>1, <1>5 DEF Frames
  <2>2. \A i \in 1 .. n : /\ t[i].u \in S /\ ToSet(t[i].rest) \subseteq ToSet(G[t[i].u])
                          /\ i - 1 <= m /\ (t[i].rest # <<>> => i - 1 < m)
    BY <1>5, <1>6 DEF Frames
  <2>3. \A i, j \in 1 .. n : t[i].u = t[j].u => i = j
    BY <1>5 DEF Frames
  <2>4. \A i \in 1 .. n - 1 : t[i + 1].u \in ToSet(G[t[i].u])
    <3>1. \A i \in 1 .. n - 1 : i \in 1 .. n /\ i + 1 \in 1 .. n
      BY <1>1
    <3>2. QED
      BY <1>5, <3>1 DEF Frames
  <2>5. QED
    BY <1>4, <2>1, <2>2, <2>3, <2>4 DEF Frames
<1>8. h \in ToSet(G[st[n].u]) /\ n - 1 < m
  BY <1>1, <1>2, <1>3 DEF Frames
<1>9. ASSUME Followed(G, S, S, st) PROVE Followed(G, S, S \cup {h}, t)
  <2> SUFFICES ASSUME NEW x \in S
               PROVE  \/ ToSet(G[x]) \subseteq S \cup {h}
                      \/ \E i \in 1 .. n : t[i].u = x /\ ToSet(G[x]) \subseteq (S \cup {h}) \cup ToSet(t[i].rest)
    BY <1>4 DEF Followed
  <2>1. CASE ToSet(G[x]) \subseteq S
    BY <2>1
  <2>2. CASE \E i \in 1 .. n : st[i].u = x /\ ToSet(G[x]) \subseteq S \cup ToSet(st[i].rest)
    <3>1. PICK i \in 1 .. n : st[i].u = x /\ ToSet(G[x]) \subseteq S \cup ToSet(st[i].rest)
      BY <2>2
    <3>2. ToSet(st[i].rest) \subseteq {h} \cup ToSet(t[i].rest)
      BY <1>3, <1>4
    <3>3. QED
      BY <1>5, <3>1, <3>2
  <2>3. QED
    BY <1>9, <2>1, <2>2 DEF Followed
<1>10. Last(t) = t[n]
  BY <1>4 DEF Last
<1>11. n <= m
  BY <1>1, <1>8
<1>12. QED
  BY <1>2, <1>4, <1>5, <1>7, <1>8, <1>9, <1>10, <1>11 DEF t, h

\* A vertex that has not been seen comes on top of the stack.
LEMMA FramesPush ==
  ASSUME NEW G \in AllGraphs, NEW s, NEW m \in Nat, NEW S, NEW st, Frames(G, s, m, S, st),
         st # <<>>, NEW v \in Vertices, v \notin S, v \in ToSet(G[Last(st).u]), Len(st) <= m,
         NEW r, r = IF Len(st) >= m THEN <<>> ELSE G[v]
  PROVE  /\ Frames(G, s, m, S \cup {v}, Append(st, [u |-> v, rest |-> r]))
         /\ m >= Size /\ Followed(G, S, S \cup {v}, st)
              => Followed(G, S \cup {v}, S \cup {v}, Append(st, [u |-> v, rest |-> r]))
<1> DEFINE n == Len(st)
           x == [u |-> v, rest |-> r]
           t == Append(st, x)
<1>1. /\ st \in Seq(Frame) /\ n \in Nat /\ n > 0
      /\ \A i \in 1 .. n : st[i] \in Frame /\ st[i].u \in Vertices /\ st[i].rest \in Seq(Vertices)
  <2>1. /\ st \in Seq(Frame) /\ Len(st) \in Nat /\ DOMAIN st = 1 .. Len(st)
        /\ (st # <<>> <=> Len(st) > 0)
        /\ \A i \in 1 .. Len(st) : /\ st[i] \in Frame /\ st[i].u \in Vertices
                                   /\ st[i].rest \in Seq(Vertices)
    BY FramesAre
  <2>2. QED
    BY <2>1
<1>2. r \in Seq(Vertices) /\ ToSet(r) \subseteq ToSet(G[v]) /\ (r # <<>> => n < m)
  <2>1. G[v] \in Seq(Vertices)
    BY DEF AllGraphs
  <2>2. n >= m => ToSet(r) = {}
    BY DEF ToSet
  <2>3. QED
    BY <1>1, <2>1, <2>2
<1>3. x \in Frame /\ x.u = v /\ x.rest = r
  BY <1>2 DEF Frame
<1> HIDE DEF x
<1>4. t \in Seq(Frame) /\ t # <<>> /\ Len(t) = n + 1 /\ t[n + 1] = x /\ \A i \in 1 .. n : t[i] = st[i]
  BY <1>1, <1>3, ElementsOfAppend
<1> HIDE DEF t
<1>5. \A i \in 1 .. n + 1 : i \in 1 .. n \/ i = n + 1
  BY <1>1
<1>6. Last(st) = st[n]
  BY DEF Last
<1>7. Frames(G, s, m, S \cup {v}, t)
  <2>1. t[1].u = s /\ s \in S \cup {v} /\ S \cup {v} \subseteq Vertices
    BY <1>1, <1>4 DEF Frames
  <2>2. \A i \in 1 .. n + 1 : /\ t[i].u \in S \cup {v} /\ ToSet(t[i].rest) \subseteq ToSet(G[t[i].u])
                              /\ i - 1 <= m /\ (t[i].rest # <<>> => i - 1 < m)
    <3>1. ASSUME NEW i \in 1 .. n
          PROVE  /\ t[i].u \in S \cup {v} /\ ToSet(t[i].rest) \subseteq ToSet(G[t[i].u])
                 /\ i - 1 <= m /\ (t[i].rest # <<>> => i - 1 < m)
      BY <1>4 DEF Frames
    <3>2. (n + 1) - 1 = n
      BY <1>1
    <3>3. QED
      BY <1>2, <1>3, <1>4, <1>5, <3>1, <3>2
  <2>3. \A i, j \in 1 .. n + 1 : t[i].u = t[j].u => i = j
    <3>1. \A i \in 1 .. n : t[i].u \in S /\ t[i].u # v
      BY <1>4 DEF Frames
    <3>2. \A i, j \in 1 .. n : t[i].u = t[j].u => i = j
      BY <1>4 DEF Frames
    <3>3. QED
      BY <1>3, <1>4, <1>5, <3>1, <3>2
  <2>4. \A i \in 1 .. n : t[i + 1].u \in ToSet(G[t[i].u])
    <3> SUFFICES ASSUME NEW i \in 1 .. n PROVE t[i + 1].u \in ToSet(G[t[i].u])
      OBVIOUS
    <3>1. CASE i = n
      BY <1>3, <1>4, <1>6, <3>1
    <3>2. CASE i # n
      <4>1. i \in 1 .. n - 1 /\ i + 1 \in 1 .. n
        BY <1>1, <3>2
      <4>2. QED
        BY <1>4, <4>1 DEF Frames
    <3>3. QED
      BY <3>1, <3>2
  <2>5. Len(t) - 1 = n
    BY <1>1, <1>4
  <2>6. QED
    BY <1>4, <2>1, <2>2, <2>3, <2>4, <2>5 DEF Frames
<1>8. ASSUME m >= Size, Followed(G, S, S \cup {v}, st)
      PROVE  Followed(G, S \cup {v}, S \cup {v}, t)
  <2>1. n + 1 <= Size
    BY <1>4, <1>7, FramesAre
  <2>2. r = G[v]
    BY <1>1, <1>8, <2>1, SizeIsNumber
  <2>3. n + 1 \in 1 .. Len(t) /\ t[n + 1].u = v /\ t[n + 1].rest = G[v]
    BY <1>1, <1>3, <1>4, <2>2
  <2>4. \A i \in 1 .. n : i \in 1 .. Len(t) /\ t[i] = st[i]
    BY <1>1, <1>4
  <2>5. QED
    BY <1>8, <2>3, <2>4 DEF Followed
<1>9. QED
  BY <1>7, <1>8 DEF t, x

\* The last vertex, whose edges have been examined, leaves the stack.
LEMMA FramesPop ==
  ASSUME NEW G \in AllGraphs, NEW s, NEW m \in Nat, NEW S, NEW st, Frames(G, s, m, S, st),
         st # <<>>, Last(st).rest = <<>>
  PROVE  /\ Frames(G, s, m, S, Front(st)) /\ Len(Front(st)) = Len(st) - 1
         /\ Followed(G, S, S, st) => Followed(G, S, S, Front(st))
<1> DEFINE n == Len(st)
           t == Front(st)
<1>1. /\ st \in Seq(Frame) /\ n \in Nat /\ n > 0
      /\ \A i \in 1 .. n : st[i] \in Frame /\ st[i].u \in Vertices /\ st[i].rest \in Seq(Vertices)
  <2>1. /\ st \in Seq(Frame) /\ Len(st) \in Nat /\ DOMAIN st = 1 .. Len(st)
        /\ (st # <<>> <=> Len(st) > 0)
        /\ \A i \in 1 .. Len(st) : /\ st[i] \in Frame /\ st[i].u \in Vertices
                                   /\ st[i].rest \in Seq(Vertices)
    BY FramesAre
  <2>2. QED
    BY <2>1
<1>2. Last(st) = st[n]
  BY DEF Last
<1>3. t \in Seq(Frame) /\ Len(t) = n - 1 /\ \A i \in 1 .. n - 1 : i \in 1 .. n /\ t[i] = st[i]
  <2>1. t = SubSeq(st, 1, n - 1)
    BY DEF Front
  <2>2. \A i \in 1 .. n - 1 : i \in 1 .. n
    BY <1>1
  <2>3. n - 1 \in Nat
    BY <1>1
  <2>4. t = [i \in 1 .. n - 1 |-> st[i]]
    BY <2>1, <2>3
  <2> HIDE DEF t
  <2>5. t \in Seq(Frame) /\ Len(t) = n - 1
    BY <1>1, <2>2, <2>3, <2>4
  <2>6. QED
    BY <2>2, <2>4, <2>5
<1> HIDE DEF t
<1>4. Frames(G, s, m, S, t)
  <2>1. t # <<>> => t[1].u = s
    <3>1. t # <<>> => Len(t) > 0
      BY <1>3, ElementsAreMembers
    <3>2. t # <<>> => 1 \in 1 .. n - 1
      BY <1>1, <1>3, <3>1
    <3>3. QED
      BY <1>1, <1>3, <3>2, ElementsAreMembers DEF Frames
  <2>2. \A i \in 1 .. n - 1 : /\ t[i].u \in S /\ ToSet(t[i].rest) \subseteq ToSet(G[t[i].u])
                              /\ i - 1 <= m /\ (t[i].rest # <<>> => i - 1 < m)
    BY <1>3 DEF Frames
  <2>3. \A i, j \in 1 .. n - 1 : t[i].u = t[j].u => i = j
    BY <1>3 DEF Frames
  <2>4. \A i \in 1 .. Len(t) - 1 : t[i + 1].u \in ToSet(G[t[i].u])
    <3>1. \A i \in 1 .. Len(t) - 1 : i \in 1 .. n - 1 /\ i + 1 \in 1 .. n - 1
      BY <1>1, <1>3
    <3>2. QED
      BY <1>3, <3>1 DEF Frames
  <2>5. s \in S /\ S \subseteq Vertices
    BY DEF Frames
  <2>6. QED
    BY <1>3, <2>1, <2>2, <2>3, <2>4, <2>5 DEF Frames
<1>5. ASSUME Followed(G, S, S, st) PROVE Followed(G, S, S, t)
  <2> SUFFICES ASSUME NEW x \in S
               PROVE  \/ ToSet(G[x]) \subseteq S
                      \/ \E i \in 1 .. Len(t) : t[i].u = x /\ ToSet(G[x]) \subseteq S \cup ToSet(t[i].rest)
    BY DEF Followed
  <2>1. CASE \E i \in 1 .. n : st[i].u = x /\ ToSet(G[x]) \subseteq S \cup ToSet(st[i].rest)
    <3>1. PICK i \in 1 .. n : st[i].u = x /\ ToSet(G[x]) \subseteq S \cup ToSet(st[i].rest)
      BY <2>1
    <3>2. CASE i = n
      <4>1. ToSet(st[n].rest) = {}
        BY <1>2 DEF ToSet
      <4>2. QED
        BY <3>1, <3>2, <4>1
    <3>3. CASE i # n
      <4>1. i \in 1 .. n - 1
        BY <1>1, <3>3
      <4>2. QED
        BY <1>3, <3>1, <4>1
    <3>4. QED
      BY <3>2, <3>3
  <2>2. QED
    BY <1>5, <2>1 DEF Followed
<1>6. QED
  BY <1>3, <1>4, <1>5 DEF t

\* The vertices of the stack and one more edge are a way.
LEMMA StackWay ==
  ASSUME NEW G \in AllGraphs, NEW s, NEW m \in Nat, NEW S, NEW st, Frames(G, s, m, S, st),
         st # <<>>, NEW v \in Vertices, v \notin S, v \in ToSet(G[Last(st).u])
  PROVE  \E q : /\ Way(G, q) /\ Len(q) = Len(st) + 1 /\ q[1] = s /\ q[Len(q)] = v
                /\ StepsOf(q) = StepsOver(st, v)
<1> DEFINE n == Len(st)
           q == [i \in 1 .. n + 1 |-> IF i = n + 1 THEN v ELSE st[i].u]
<1>1. /\ st \in Seq(Frame) /\ n \in Nat /\ n > 0
      /\ \A i \in 1 .. n : st[i].u \in Vertices
  <2>1. /\ st \in Seq(Frame) /\ Len(st) \in Nat /\ DOMAIN st = 1 .. Len(st)
        /\ (st # <<>> <=> Len(st) > 0)
        /\ \A i \in 1 .. Len(st) : /\ st[i] \in Frame /\ st[i].u \in Vertices
                                   /\ st[i].rest \in Seq(Vertices)
    BY FramesAre
  <2>2. QED
    BY <2>1
<1>2. Last(st) = st[n]
  BY DEF Last
<1>3. \A i \in 1 .. n + 1 : i = n + 1 \/ i \in 1 .. n
  BY <1>1
<1>4. q \in Seq(Vertices) /\ Len(q) = n + 1 /\ DOMAIN q = 1 .. n + 1
  BY <1>1, <1>3
<1>5. q[n + 1] = v /\ \A i \in 1 .. n : q[i] = st[i].u
  BY <1>1
<1> HIDE DEF q
<1>6. IsInjective(q)
  <2>1. \A i \in 1 .. n : st[i].u # v
    BY DEF Frames
  <2>2. \A i, j \in 1 .. n : st[i].u = st[j].u => i = j
    BY DEF Frames
  <2>3. QED
    BY <1>3, <1>4, <1>5, <2>1, <2>2 DEF IsInjective
<1>7. ASSUME NEW j \in 1 .. n
      PROVE  /\ q[j + 1] \in ToSet(G[q[j]])
             /\ <<q[j], q[j + 1]>> \in {<<st[i].u, st[i + 1].u>> : i \in 1 .. n - 1} \cup {<<st[n].u, v>>}
  <2>1. CASE j = n
    BY <1>2, <1>5, <2>1
  <2>2. CASE j # n
    <3>1. j \in 1 .. n - 1 /\ j + 1 \in 1 .. n
      BY <1>1, <2>2
    <3>2. q[j] = st[j].u /\ q[j + 1] = st[j + 1].u
      BY <1>5, <3>1
    <3>3. st[j + 1].u \in ToSet(G[st[j].u])
      BY <3>1 DEF Frames
    <3>4. QED
      BY <3>1, <3>2, <3>3
  <2>3. QED
    BY <2>1, <2>2
<1>8. ASSUME NEW i \in 1 .. n - 1
      PROVE  <<st[i].u, st[i + 1].u>> \in {<<q[j], q[j + 1]>> : j \in 1 .. n}
  <2>1. i \in 1 .. n /\ i + 1 \in 1 .. n
    BY <1>1
  <2>2. QED
    BY <1>5, <2>1
<1>9. <<st[n].u, v>> \in {<<q[j], q[j + 1]>> : j \in 1 .. n}
  <2>1. n \in 1 .. n
    BY <1>1
  <2>2. QED
    BY <1>5, <2>1
<1>10. Len(q) - 1 = n /\ Len(q) >= 2
  BY <1>1, <1>4
<1>11. {<<q[j], q[j + 1]>> : j \in 1 .. n} =
         {<<st[i].u, st[i + 1].u>> : i \in 1 .. n - 1} \cup {<<st[n].u, v>>}
  BY <1>7, <1>8, <1>9
<1>12. Way(G, q)
  BY <1>4, <1>6, <1>7, <1>10 DEF Way
<1>13. q[1] = s /\ q[Len(q)] = v
  <2>1. 1 \in 1 .. n /\ st # <<>>
    BY <1>1
  <2>2. QED
    BY <1>4, <1>5, <2>1 DEF Frames
<1>14. StepsOf(q) = StepsOver(st, v)
  BY <1>2, <1>10, <1>11 DEF StepsOf, StepsOver
<1>15. QED
  BY <1>4, <1>12, <1>13, <1>14

\* Distances along a way are at most those by the way.
LEMMA WayNear ==
  ASSUME NEW G \in AllGraphs, NEW p, Way(G, p), NEW i \in 1 .. Len(p), NEW j \in i .. Len(p)
  PROVE  /\ p[j] \in Reachable(G, p[i]) /\ Dst(G, p[i], p[j]) \in Nat
         /\ Dst(G, p[i], p[j]) <= j - i
<1>1. p \in Seq(Vertices) /\ Len(p) \in Nat /\ \A n \in 1 .. Len(p) : p[n] \in Vertices
  BY ElementsAreMembers DEF Way
<1> DEFINE s == p[i]
           R == Reachable(G, s)
           d(v) == Dst(G, s, v)
           P == {k \in Nat : i + k <= Len(p) => p[i + k] \in R /\ d(p[i + k]) <= k}
<1>2. /\ s \in R /\ s \in Vertices
      /\ \A v \in R : d(v) \in 0 .. Size
      /\ \A v \in R : d(v) = 0 <=> v = s
      /\ \A u \in R, v \in Vertices : v \in ToSet(G[u]) => v \in R /\ d(v) <= d(u) + 1
  BY <1>1, Distances
<1> HIDE DEF R, d
<1>3. 0 \in P
  <2>1. i + 0 = i /\ d(s) = 0
    BY <1>2
  <2>2. QED
    BY <1>2, <2>1
<1>4. ASSUME NEW k \in 0 .. (j - i) - 1, k \in P PROVE k + 1 \in P
  <2>1. /\ k \in Nat /\ k + 1 \in Nat /\ i + k \in 1 .. Len(p) - 1 /\ i + (k + 1) = (i + k) + 1
        /\ i + k + 1 \in 1 .. Len(p) /\ i + k <= Len(p)
    BY <1>1
  <2>2. p[i + k] \in R /\ d(p[i + k]) <= k
    BY <1>4, <2>1
  <2>3. p[(i + k) + 1] \in ToSet(G[p[i + k]])
    BY <2>1 DEF Way
  <2>4. p[(i + k) + 1] \in R /\ d(p[(i + k) + 1]) <= d(p[i + k]) + 1
    <3>1. p[(i + k) + 1] \in Vertices
      BY <1>1, <2>1
    <3>2. QED
      BY <1>2, <2>2, <2>3, <3>1
  <2>5. d(p[i + k]) \in 0 .. Size /\ d(p[(i + k) + 1]) \in 0 .. Size
    BY <1>2, <2>2, <2>4
  <2>6. p[i + (k + 1)] \in R /\ d(p[i + (k + 1)]) <= k + 1
    <3>1. d(p[(i + k) + 1]) <= k + 1
      BY <2>2, <2>4, <2>5, SizeIsNumber
    <3>2. QED
      BY <2>1, <2>4, <3>1
  <2>7. QED
    BY <2>1, <2>6
<1>5. j - i \in P
  <2>1. j - i \in Nat
    BY <1>1
  <2> HIDE DEF P
  <2>2. 0 .. j - i \subseteq P
    BY <1>3, <1>4, <2>1, CountingUp
  <2>3. QED
    BY <2>1, <2>2
<1>6. p[j] \in R /\ d(p[j]) <= j - i
  <2>1. i + (j - i) = j /\ j <= Len(p)
    BY <1>1
  <2>2. QED
    BY <1>5, <2>1
<1>7. d(p[j]) \in Nat
  BY <1>2, <1>6, SizeIsNumber
<1>8. QED
  BY <1>6, <1>7 DEF R, d

\* A set of edges, as one of undirected edges.
PairsOf(E) == {{e[1], e[2]} : e \in E}

\* A chain has two ends at least, and no vertex twice.
LEMMA ChainSteps ==
  ASSUME NEW G, NEW A, NEW m, NEW p, Chain(G, A, m, p)
  PROVE  /\ Way(G, p) /\ p \in Seq(Vertices) /\ Len(p) \in Nat /\ Len(p) >= 2
         /\ \A j \in 1 .. Len(p) - 1 : /\ j \in 1 .. Len(p) /\ j + 1 \in 1 .. Len(p)
                                       /\ p[j] \in Vertices /\ p[j + 1] \in Vertices
                                       /\ p[j] # p[j + 1]
         /\ 1 \in 1 .. Len(p) /\ Len(p) \in 1 .. Len(p) /\ p[1] # p[Len(p)]
<1>1. p \in Seq(Vertices) /\ Len(p) \in Nat /\ Len(p) >= 2 /\ DOMAIN p = 1 .. Len(p)
      /\ \A n \in 1 .. Len(p) : p[n] \in Vertices
  BY ElementsAreMembers DEF Chain, Way
<1>2. \A a, b \in 1 .. Len(p) : p[a] = p[b] => a = b
  BY <1>1 DEF Chain, Way, IsInjective
<1>3. ASSUME NEW j \in 1 .. Len(p) - 1
      PROVE  j \in 1 .. Len(p) /\ j + 1 \in 1 .. Len(p) /\ j # j + 1
  BY <1>1
<1>4. 1 \in 1 .. Len(p) /\ Len(p) \in 1 .. Len(p) /\ 1 # Len(p)
  BY <1>1
<1>5. QED
  BY <1>1, <1>2, <1>3, <1>4 DEF Chain

\* A subgraph of edges on chains and their ends, and one with more edges.
Built(G, A, m, d) == d.V = UNION (DOMAIN d.w) /\ JoinedOK(G, A, m, DOMAIN d.w)
Adds(d, E, c) ==
  c.V = d.V \cup UNION PairsOf(E) /\ DOMAIN c.w = DOMAIN d.w \cup PairsOf(E)

\* fill_graph makes edges undirected, and its vertices are their ends.
LEMMA FillAdds ==
  ASSUME NEW G, NEW A, NEW m, NEW E, FoundOK(G, A, m, E), NEW d
  PROVE  Adds(d, E, FillEdges(d, E))
<1> DEFINE forth == {e \in E : e[1] # e[2]}
           twice == {e \in forth : <<e[2], e[1]>> \in forth}
           d1 == AddEdges(d, PairsOf(forth), Unit)
           d2 == AddEdges(d1, PairsOf(twice), Unit)
<1>1. FillEdges(d, E) = d2
  BY DEF FillEdges, PairsOf
<1>2. \A e \in E : e[1] # e[2]
  <2> TAKE e \in E
  <2>1. PICK p \in Paths : Chain(G, A, m, p) /\ OnWay(e, p)
    BY DEF FoundOK
  <2>2. PICK j \in 1 .. Len(p) - 1 : e = <<p[j], p[j + 1]>>
    BY <2>1 DEF OnWay
  <2>3. p[j] # p[j + 1]
    BY <2>1, ChainSteps
  <2>4. QED
    BY <2>2, <2>3
<1>3. PairsOf(forth) = PairsOf(E) /\ PairsOf(twice) \subseteq PairsOf(E)
  BY <1>2 DEF PairsOf
<1> HIDE DEF forth, twice
<1>4. d1.V = d.V \cup UNION PairsOf(forth) /\ DOMAIN d1.w = DOMAIN d.w \cup PairsOf(forth)
  BY DEF AddEdges
<1> HIDE DEF d1
<1>5. d2.V = d1.V \cup UNION PairsOf(twice) /\ DOMAIN d2.w = DOMAIN d1.w \cup PairsOf(twice)
  BY DEF AddEdges
<1>6. QED
  BY <1>1, <1>3, <1>4, <1>5 DEF Adds

\* Chains that have been found may be added to a subgraph of chains.
LEMMA JoinedGrows ==
  ASSUME NEW G, NEW A, NEW m, NEW E, FoundOK(G, A, m, E), NEW D, JoinedOK(G, A, m, D)
  PROVE  JoinedOK(G, A, m, D \cup PairsOf(E))
<1> DEFINE F == D \cup PairsOf(E)
<1>1. F \subseteq SUBSET Vertices
  <2>1. \A e \in E : {e[1], e[2]} \subseteq Vertices
    BY DEF FoundOK
  <2>2. QED
    BY <2>1 DEF PairsOf, JoinedOK
<1>2. D \subseteq F /\ \A x, y : <<x, y>> \in E => {x, y} \in F
  BY DEF PairsOf
<1>3. \A f \in F : f \in D \/ \E e \in E : f = {e[1], e[2]}
  BY DEF PairsOf
<1> HIDE DEF F
<1>4. ASSUME NEW f \in D
      PROVE  \E p \in Paths : Chain(G, A, m, p) /\ Spans(F, p) /\ Between(f, p)
  <2>1. PICK p \in Paths : Chain(G, A, m, p) /\ Spans(D, p) /\ Between(f, p)
    BY DEF JoinedOK
  <2>2. Spans(F, p)
    BY <1>2, <2>1 DEF Spans
  <2>3. QED
    BY <2>1, <2>2
<1>5. ASSUME NEW e \in E
      PROVE  \E p \in Paths : Chain(G, A, m, p) /\ Spans(F, p) /\ Between({e[1], e[2]}, p)
  <2>1. PICK p \in Paths : Chain(G, A, m, p) /\ Carries(E, p) /\ OnWay(e, p)
    BY DEF FoundOK
  <2>2. Spans(F, p)
    BY <1>2, <2>1 DEF Spans, Carries
  <2>3. Between({e[1], e[2]}, p)
    <3>1. PICK j \in 1 .. Len(p) - 1 : e = <<p[j], p[j + 1]>>
      BY <2>1 DEF OnWay
    <3>2. e[1] = p[j] /\ e[2] = p[j + 1]
      BY <3>1
    <3>3. QED
      BY <3>2 DEF Between
  <2>4. QED
    BY <2>1, <2>2, <2>3
<1>6. \A f \in F : \E p \in Paths : Chain(G, A, m, p) /\ Spans(F, p) /\ Between(f, p)
  BY <1>3, <1>4, <1>5
<1>7. JoinedOK(G, A, m, F)
  BY <1>1, <1>6 DEF JoinedOK
<1>8. QED
  BY <1>7 DEF F

\* When edges between senses are dropped, those that stay are still on chains: a chain with
\* more than one edge has none between senses.
LEMMA DroppedChains ==
  ASSUME NEW G, NEW A, NEW m, NEW E, FoundOK(G, A, m, E), NEW F, F \subseteq E,
         \A e \in E : e \in F \/ (e[1] \in A /\ e[2] \in A)
  PROVE  FoundOK(G, A, m, F)
<1> SUFFICES ASSUME NEW e \in F
             PROVE  \E p \in Paths : Chain(G, A, m, p) /\ Carries(F, p) /\ OnWay(e, p)
  BY DEF FoundOK
<1>1. PICK p \in Paths : Chain(G, A, m, p) /\ Carries(E, p) /\ OnWay(e, p)
  BY DEF FoundOK
<1>2. PICK i \in 1 .. Len(p) - 1 : e = <<p[i], p[i + 1]>>
  BY <1>1 DEF OnWay
<1>3. Len(p) \in Nat /\ Len(p) >= 2
  BY <1>1, ChainSteps
<1>4. ASSUME NEW j \in 1 .. Len(p) - 1 PROVE <<p[j], p[j + 1]>> \in F
  <2>1. <<p[j], p[j + 1]>> \in E
    BY <1>1 DEF Carries
  <2>2. CASE Len(p) = 2
    <3>1. i = 1 /\ j = 1
      BY <2>2
    <3>2. QED
      BY <1>2, <3>1
  <2>3. CASE Len(p) # 2
    <3>0. \A n \in Nat : n >= 2 /\ n # 2 =>
            \A k \in 1 .. n - 1 : k \in 2 .. n - 1 \/ k + 1 \in 2 .. n - 1
      OBVIOUS
    <3>1. j \in 2 .. Len(p) - 1 \/ j + 1 \in 2 .. Len(p) - 1
      BY <1>3, <2>3, <3>0
    <3>2. p[j] \notin A \/ p[j + 1] \notin A
      BY <1>1, <3>1 DEF Chain
    <3>3. QED
      BY <2>1, <3>2
  <2>4. QED
    BY <2>2, <2>3
<1>5. Carries(F, p)
  BY <1>4 DEF Carries
<1>6. QED
  BY <1>1, <1>5

\* Joined, for any set of undirected edges.
Linked(D, v) ==
  LET f[k \in 0 .. Size] ==
        IF k = 0 THEN {v}
        ELSE LET nearer == f[k - 1] IN
             nearer \cup UNION {e \in D : e \cap nearer # {}}
  IN f

\* Linked is what its equations say.
Links(D, v, N) ==
  /\ N[0] = {v}
  /\ \A k \in 1 .. Size : N[k] = N[k - 1] \cup UNION {e \in D : e \cap N[k - 1] # {}}

LEMMA LinkedUnfolds ==
  ASSUME NEW D, D \subseteq SUBSET Vertices, NEW v \in Vertices
  PROVE  Links(D, v, Linked(D, v))
<1> DEFINE h == [A \in SUBSET Vertices |-> A \cup UNION {e \in D : e \cap A # {}}]
           E(f) == f = [k \in 0 .. Size |->
                     IF k = 0 THEN {v}
                     ELSE f[k - 1] \cup UNION {e \in D : e \cap f[k - 1] # {}}]
<1>1. h \in [SUBSET Vertices -> SUBSET Vertices]
  OBVIOUS
<1>2. PICK g \in [0 .. Size -> SUBSET Vertices] : g[0] = {v} /\ \A k \in 1 .. Size : g[k] = h[g[k - 1]]
  <2> DEFINE V == SUBSET Vertices
             b == {v}
  <2>1. b \in V /\ h \in [V -> V]
    BY <1>1
  <2> HIDE DEF h, V, b
  <2>2. \E g \in [0 .. Size -> V] : Repeats(g, b, h, Size)
    BY <2>1, SizeIsNumber, Iterates
  <2>3. QED
    BY <2>2 DEF V, b, Repeats
<1>3. E(g)
  <2>1. \A k \in 1 .. Size : g[k - 1] \in SUBSET Vertices
    BY SizeIsNumber
  <2>2. \A k \in 0 .. Size : g[k] = IF k = 0 THEN {v} ELSE g[k - 1] \cup UNION {e \in D : e \cap g[k - 1] # {}}
    <3>1. \A A \in SUBSET Vertices : h[A] = A \cup UNION {e \in D : e \cap A # {}}
      OBVIOUS
    <3> HIDE DEF h
    <3>2. QED
      BY <1>2, <2>1, <3>1, SizeIsNumber
  <2>3. QED
    BY <2>2
<1>4. E(Linked(D, v))
  <2>1. Linked(D, v) = CHOOSE f : E(f)
    BY DEF Linked
  <2> HIDE DEF E
  <2>2. E(CHOOSE f : E(f))
    BY <1>3
  <2>3. QED
    BY <2>1, <2>2
<1> HIDE DEF E
<1> DEFINE N == Linked(D, v)
<1>5. E(N)
  BY <1>4
<1> HIDE DEF N
<1>6. N = [k \in 0 .. Size |->
             IF k = 0 THEN {v} ELSE N[k - 1] \cup UNION {e \in D : e \cap N[k - 1] # {}}]
  BY <1>5 DEF E
<1>7. \A k \in 0 .. Size : N[k] =
        IF k = 0 THEN {v} ELSE N[k - 1] \cup UNION {e \in D : e \cap N[k - 1] # {}}
  BY <1>6
<1>8. N[0] = {v} /\ \A k \in 1 .. Size : N[k] = N[k - 1] \cup UNION {e \in D : e \cap N[k - 1] # {}}
  <2>1. 0 \in 0 .. Size /\ \A k \in 1 .. Size : k \in 0 .. Size /\ k # 0
    BY SizeIsNumber
  <2>2. QED
    BY <1>7, <2>1
<1>9. QED
  BY <1>8 DEF N, Links

\* The whole of a path is linked with each of its vertices.
LEMMA PathLinked ==
  ASSUME NEW D, D \subseteq SUBSET Vertices, NEW p \in Seq(Vertices), Len(p) <= Size,
         Spans(D, p), NEW i \in 1 .. Len(p), NEW n \in 1 .. Len(p)
  PROVE  p[n] \in Linked(D, p[i])[Size]
<1> DEFINE v == p[i]
           N == Linked(D, v)
           Reach(k) == \A l \in 1 .. Len(p) : i - k <= l /\ l <= i + k => p[l] \in N[k]
           P == {k \in Nat : k <= Size => Reach(k)}
<1>1. Len(p) \in Nat /\ v \in Vertices
  BY ElementsAreMembers
<1>2. N[0] = {v} /\ \A k \in 1 .. Size : N[k] = N[k - 1] \cup UNION {e \in D : e \cap N[k - 1] # {}}
  <2> HIDE DEF v
  <2>1. Links(D, v, N)
    BY <1>1, LinkedUnfolds
  <2>2. QED
    BY <2>1 DEF Links
<1> HIDE DEF N
<1>3. 0 \in P
  <2>1. \A l \in 1 .. Len(p) : i - 0 <= l /\ l <= i + 0 => l = i
    BY <1>1
  <2>2. QED
    BY <1>2, <2>1
<1>4. ASSUME NEW k \in 0 .. Size - 1, k \in P PROVE k + 1 \in P
  <2>1. k + 1 \in 1 .. Size /\ (k + 1) - 1 = k /\ k <= Size /\ k + 1 \in Nat
    BY SizeIsNumber
  <2>2. Reach(k)
    BY <1>4, <2>1
  <2>3. N[k + 1] = N[k] \cup UNION {e \in D : e \cap N[k] # {}}
    BY <1>2, <2>1
  <2>4. ASSUME NEW l \in 1 .. Len(p), i - (k + 1) <= l, l <= i + (k + 1) PROVE p[l] \in N[k + 1]
    <3>1. CASE i - k <= l /\ l <= i + k
      BY <2>2, <2>3, <3>1
    <3>2. CASE l < i - k
      <4>1. l \in 1 .. Len(p) - 1 /\ l + 1 \in 1 .. Len(p) /\ i - k <= l + 1 /\ l + 1 <= i + k
        BY <1>1, <2>4, <3>2
      <4>2. {p[l], p[l + 1]} \in D
        BY <4>1 DEF Spans
      <4>3. p[l + 1] \in N[k]
        BY <2>2, <4>1
      <4>4. QED
        BY <2>3, <4>2, <4>3
    <3>3. CASE l > i + k
      <4>1. PICK a \in 1 .. Len(p) - 1 : l = a + 1
        <5>1. l - 1 \in 1 .. Len(p) - 1 /\ l = (l - 1) + 1
          BY <1>1, <2>4, <3>3
        <5>2. QED
          BY <5>1
      <4>2. {p[a], p[l]} \in D
        BY <4>1 DEF Spans
      <4>3. a \in 1 .. Len(p) /\ i - k <= a /\ a <= i + k
        BY <1>1, <2>4, <3>3, <4>1
      <4>4. p[a] \in N[k]
        BY <2>2, <4>3
      <4>5. QED
        BY <2>3, <4>2, <4>4
    <3>4. QED
      BY <3>1, <3>2, <3>3
  <2>5. Reach(k + 1)
    BY <2>4
  <2>6. QED
    BY <2>1, <2>5
<1>5. Size \in P
  <2> HIDE DEF P
  <2>1. \A k \in 0 .. Size - 1 : k \in P => k + 1 \in P
    BY <1>4
  <2>2. 0 .. Size \subseteq P
    BY <1>3, <2>1, SizeIsNumber, CountingUp
  <2>3. QED
    BY <2>2, SizeIsNumber
<1>6. Reach(Size)
  BY <1>5, SizeIsNumber
<1>7. i - Size <= n /\ n <= i + Size
  BY <1>1, SizeIsNumber
<1>8. p[n] \in N[Size]
  BY <1>6, <1>7
<1>9. QED
  BY <1>8 DEF N

\* A set with two members has more than one.
LEMMA TwoMembers ==
  ASSUME NEW S, IsFiniteSet(S), NEW a \in S, NEW b \in S, a # b
  PROVE  Cardinality(S) >= 2
<1>1. IsFiniteSet({a}) /\ Cardinality({a}) = 1
  BY FS_Singleton
<1>2. IsFiniteSet({a} \cup {b}) /\ Cardinality({a} \cup {b}) = 2
  <2>1. b \notin {a}
    OBVIOUS
  <2> DEFINE T == {a}
  <2>2. IsFiniteSet(T) /\ b \notin T /\ Cardinality(T) = 1
    BY <1>1, <2>1
  <2> HIDE DEF T
  <2>3. IsFiniteSet(T \cup {b}) /\ Cardinality(T \cup {b}) = Cardinality(T) + 1
    BY <2>2, FS_AddElement
  <2>4. QED
    BY <2>2, <2>3 DEF T
<1>3. Cardinality({a} \cup {b}) <= Cardinality(S)
  BY FS_Subset
<1>4. Cardinality(S) \in Nat
  BY FS_CardinalityType
<1>5. QED
  BY <1>2, <1>3, <1>4

\* What the search from s has come to: the vertices seen, the stack, and the edges found,
\* which join s with every other sense that it has seen.
Searching(G, A, m, s, S, st, E) ==
  /\ Frames(G, s, m, S, st)
  /\ \A t \in A \cap S : t # s => {s, t} \subseteq UNION PairsOf(E)
  /\ m >= Size => Followed(G, S, S, st)

\* A sense and all others that it reaches are there.
Served(G, A, V, r) == \A t \in A : t # r /\ t \in Reachable(G, r) => {r, t} \subseteq V

\* When the depth hides nothing, so are all from which a search has been made.
ServedBut(X) ==
  method = "dfs" /\ maxDepth >= Size =>
    \A r \in Senses \ (X \cup ToSet(sources)) : Served(graph, Senses, dg.V, r)

DfsTyped ==
  /\ method \in {"bfs", "dfs", "nocosenses"} /\ maxDepth \in Nat \ {0}
  /\ Senses \subseteq Vertices
  /\ sources \in Seq(Vertices) /\ ToSet(sources) \subseteq Senses
  /\ phase \in {"prompt", "search", "exit"} => method = "bfs"
  /\ phase = "dfs" => method # "bfs"
  /\ phase = "built" /\ method # "bfs" => sources = <<>>

DfsInv ==
  method # "bfs" =>
    /\ FoundOK(graph, Senses, maxDepth, found)
    /\ phase = "built" \/ method = "dfs" => Built(graph, Senses, maxDepth, dg)
    /\ method = "nocosenses" =>
         IF phase = "built"
           THEN \A e \in DOMAIN dg.w : \A u, v \in e : u # v => ~ CoSenses(u, v)
           ELSE dg = [V |-> {}, w |-> <<>>]
    /\ phase # "dfs" => ServedBut({})
    /\ phase = "dfs" =>
         \E s \in Senses :
           Searching(graph, Senses, maxDepth, s, seen, stack, found) /\ ServedBut({s})

SearchesInv == SearchInv /\ DfsTyped /\ DepthIsThatOfPath /\ DfsInv

\* Steps of the other searches are taken when the method is theirs.
LEMMA DfsSteps ==
  ASSUME SearchTyped, DfsTyped, [DgNext]_allVars
  PROVE  \/ StartDfs \/ DfsTreeEdge \/ DfsOtherEdge \/ DfsFinish \/ DfsDone \/ BuiltDfs
         \/ UNCHANGED allVars
         \/ /\ method = "bfs" /\ UNCHANGED <<words, method, maxDepth, sources, stack, depth>>
            /\ phase # "dfs" /\ phase' # "dfs"
<1>1. CASE KbNext /\ UNCHANGED dgVars
  <2>1. UNCHANGED <<words, method, maxDepth, sources, stack, depth>>
    BY <1>1 DEF dgVars
  <2>2. CASE ShowNeighbours \/ ShowPath \/ SPaths \/ SubG \/ Quit
    <3>1. phase = "prompt" /\ phase' \in {"prompt", "search", "exit"}
      BY <2>2 DEF ShowNeighbours, ShowPath, SPaths, SubG, Quit, Ask, Answered, Begin
    <3>2. QED
      BY <2>1, <3>1 DEF DfsTyped
  <2>3. CASE Step
    <3>1. phase = "search" /\ phase' \in {"prompt", "search", "exit"}
      BY <2>3 DEF Step, ExamineEdge, NextVertex, TreeEdge, Terminate, NonTreeEdge, Examining,
        Searched, SubGDone, NextTarget, WalkUp, PathDone
    <3>2. QED
      BY <2>1, <3>1 DEF DfsTyped
  <2>4. QED
    BY <1>1, <2>2, <2>3 DEF KbNext
<1>2. CASE NextSource \/ NextWord \/ FillPath \/ NextSense \/ BuiltBfs
  <2>1. UNCHANGED <<words, method, maxDepth, sources, stack, depth>>
    BY <1>2 DEF NextSource, NextWord, FillPath, NextSense, BuiltBfs, dgVars
  <2>2. /\ phase \in {"context", "search"}
        /\ phase = "context" => method = "bfs"
        /\ phase' \in {"context", "search", "built"}
    BY <1>2 DEF NextSource, NextWord, FillPath, NextSense, BuiltBfs, Searched, Begin
  <2>3. QED
    BY <2>1, <2>2 DEF DfsTyped
<1>3. QED
  BY <1>1, <1>2 DEF DgNext, DgStep

\* The invariant of the depth first searches holds at first.
LEMMA DfsInit == DgInit => DfsTyped /\ DepthIsThatOfPath /\ DfsInv
<1> SUFFICES ASSUME DgInit PROVE DfsTyped /\ DepthIsThatOfPath /\ DfsInv
  OBVIOUS
<1>1. words \in Seq(Seq(Vertices)) /\ phase \in {"prompt", "context"} /\ depth = 0 /\ stack = <<>>
      /\ found = {} /\ dg = [V |-> {}, w |-> <<>>] /\ sources = SetToSeq(Senses)
  BY SearchInit DEF DgInit, SearchInv, SearchTyped
<1>2. Senses \subseteq Vertices
  <2>1. \A i \in DOMAIN words : ToSet(words[i]) \subseteq Vertices
    <3> TAKE i \in DOMAIN words
    <3>1. words[i] \in Seq(Vertices)
      BY <1>1, LenProperties, ElementOfSeq
    <3>2. QED
      BY <3>1, ElementsAreMembers
  <2>2. QED
    BY <2>1 DEF Senses
<1>3. sources \in Seq(Senses) /\ ToSet(sources) = Senses
  <2>1. IsFiniteSet(Senses)
    BY <1>2, KbSearchAssumption, FS_Subset
  <2> HIDE DEF Senses
  <2>2. sources \in Seq(Senses) /\ \A x \in Senses : \E i \in DOMAIN sources : sources[i] = x
    BY <1>1, <2>1, SetAsSeq
  <2>3. Senses \subseteq ToSet(sources)
    BY <2>2 DEF ToSet
  <2>4. QED
    BY <2>2, <2>3, ElementsAreMembers
<1>4. sources \in Seq(Vertices)
  BY <1>2, <1>3, SeqMonotonic
<1>5. /\ maxDepth \in Nat \ {0} /\ method \in {"bfs", "dfs", "nocosenses"}
      /\ phase = "prompt" => method = "bfs"
  <2>1. /\ maxDepth = 1 \/ maxDepth \in Depths
        /\ method \in {"bfs", "dfs", "nocosenses"}
        /\ phase = "prompt" => method = "bfs"
    BY DEF DgInit
  <2>2. Depths \subseteq Nat \ {0} /\ 1 \in Nat \ {0}
    BY DisambGraphAssumption
  <2>3. QED
    BY <2>1, <2>2
<1>6. DfsTyped
  BY <1>1, <1>2, <1>3, <1>4, <1>5 DEF DfsTyped
<1>7. DepthIsThatOfPath
  BY <1>1 DEF DepthIsThatOfPath
<1>8. ServedBut({})
  BY <1>3 DEF ServedBut
<1>9. /\ FoundOK(graph, Senses, maxDepth, found) /\ JoinedOK(graph, Senses, maxDepth, {})
  BY <1>1 DEF FoundOK, JoinedOK
<1>10. dg.V = UNION (DOMAIN dg.w) /\ DOMAIN dg.w = {}
  BY <1>1
<1>11. DfsInv
  BY <1>1, <1>8, <1>9, <1>10 DEF DfsInv, Built
<1>12. QED
  BY <1>6, <1>7, <1>11

\* Every step keeps the types,
LEMMA DfsTypedKept ==
  ASSUME SearchTyped, DfsTyped, [DgNext]_allVars
  PROVE  DfsTyped'
<1>1. CASE StartDfs
  <2>1. sources # <<>> /\ sources' = Tail(sources) /\ phase' = "dfs" /\ method # "bfs"
        /\ UNCHANGED <<words, method, maxDepth>>
    BY <1>1 DEF StartDfs
  <2>2. Tail(sources) \in Seq(Vertices) /\ ToSet(Tail(sources)) \subseteq ToSet(sources)
    BY <2>1, ElementsOfTail DEF DfsTyped
  <2>3. Senses' = Senses
    BY <2>1 DEF Senses
  <2>4. QED
    BY <2>1, <2>2, <2>3 DEF DfsTyped
<1>2. CASE DfsTreeEdge \/ DfsOtherEdge \/ DfsFinish \/ DfsDone \/ BuiltDfs \/ UNCHANGED allVars
  <2>1. /\ UNCHANGED <<words, method, maxDepth, sources>>
        /\ \/ phase' = phase
           \/ phase' \in {"context", "built"} /\ (phase' = "built" => sources = <<>>)
    BY <1>2 DEF DfsTreeEdge, DfsOtherEdge, DfsFinish, DfsDone, BuiltDfs, allVars, dgVars
  <2>2. Senses' = Senses
    BY <2>1 DEF Senses
  <2>3. QED
    BY <2>1, <2>2 DEF DfsTyped
<1>3. CASE /\ method = "bfs" /\ UNCHANGED <<words, method, maxDepth, sources, stack, depth>>
           /\ phase # "dfs" /\ phase' # "dfs"
  <2>1. Senses' = Senses
    BY <1>3 DEF Senses
  <2>2. QED
    BY <1>3, <2>1 DEF DfsTyped
<1>4. QED
  BY <1>1, <1>2, <1>3, DfsSteps

\* the depth,
LEMMA DepthKept ==
  ASSUME SearchTyped, DfsTyped, DepthIsThatOfPath, DfsInv, [DgNext]_allVars
  PROVE  DepthIsThatOfPath'
<1>1. phase = "dfs" => /\ stack \in Seq(Frame) /\ Len(stack) \in Nat
                       /\ (stack # <<>> <=> Len(stack) > 0)
                       /\ stack # <<>> /\ Last(stack).rest # <<>> =>
                            /\ Trim(stack) \in Seq(Frame) /\ Len(Trim(stack)) = Len(stack)
                            /\ Trim(stack) # <<>>
                       /\ stack # <<>> /\ Last(stack).rest = <<>> =>
                            /\ Len(Front(stack)) = Len(stack) - 1
                            /\ (Front(stack) # <<>> <=> Len(stack) - 1 > 0)
  <2> SUFFICES ASSUME phase = "dfs"
               PROVE  /\ stack \in Seq(Frame) /\ Len(stack) \in Nat
                      /\ (stack # <<>> <=> Len(stack) > 0)
                      /\ stack # <<>> /\ Last(stack).rest # <<>> =>
                           /\ Trim(stack) \in Seq(Frame) /\ Len(Trim(stack)) = Len(stack)
                           /\ Trim(stack) # <<>>
                      /\ stack # <<>> /\ Last(stack).rest = <<>> =>
                           /\ Len(Front(stack)) = Len(stack) - 1
                           /\ (Front(stack) # <<>> <=> Len(stack) - 1 > 0)
    OBVIOUS
  <2>1. PICK s \in Senses : Frames(graph, s, maxDepth, seen, stack)
    BY DEF DfsInv, DfsTyped, Searching
  <2>2. graph \in AllGraphs /\ maxDepth \in Nat
    BY DEF SearchTyped, DfsTyped
  <2>3. stack \in Seq(Frame) /\ Len(stack) \in Nat /\ (stack # <<>> <=> Len(stack) > 0)
    BY <2>1, <2>2, FramesAre
  <2>4. ASSUME stack # <<>>, Last(stack).rest # <<>>
        PROVE  Trim(stack) \in Seq(Frame) /\ Len(Trim(stack)) = Len(stack) /\ Trim(stack) # <<>>
    <3>1. Frames(graph, s, maxDepth, seen, Trim(stack)) /\ Len(Trim(stack)) = Len(stack)
      BY <2>1, <2>2, <2>4, FramesTrim
    <3>2. QED
      BY <2>2, <2>3, <2>4, <3>1, FramesAre
  <2>5. ASSUME stack # <<>>, Last(stack).rest = <<>>
        PROVE  Len(Front(stack)) = Len(stack) - 1 /\ (Front(stack) # <<>> <=> Len(stack) - 1 > 0)
    <3>1. Frames(graph, s, maxDepth, seen, Front(stack)) /\ Len(Front(stack)) = Len(stack) - 1
      BY <2>1, <2>2, <2>5, FramesPop
    <3>2. QED
      BY <2>2, <3>1, FramesAre
  <2>6. QED
    BY <2>3, <2>4, <2>5
<1>2. CASE StartDfs
  <2>1. phase' = "dfs" /\ depth' = depth /\ depth = 0
        /\ stack' = <<[u |-> Head(sources), rest |-> OutEdges(Head(sources), depth)]>>
    BY <1>2 DEF StartDfs, DepthIsThatOfPath
  <2>2. Len(stack') = 1 /\ stack' # <<>>
    BY <2>1
  <2>3. QED
    BY <2>1, <2>2 DEF DepthIsThatOfPath
<1>3. CASE DfsTreeEdge
  <2>1. /\ phase = "dfs" /\ stack # <<>> /\ Last(stack).rest # <<>> /\ phase' = phase
        /\ depth' = depth + 1
        /\ stack' = Append(Trim(stack), [u |-> Head(Top.rest), rest |-> OutEdges(Head(Top.rest), depth + 1)])
    BY <1>3 DEF DfsTreeEdge, Top, Trim
  <2>2. Len(stack') = Len(stack) + 1 /\ stack' # <<>>
    BY <1>1, <2>1
  <2>3. depth = Len(stack) - 1
    BY <2>1 DEF DepthIsThatOfPath
  <2>4. QED
    BY <1>1, <2>1, <2>2, <2>3 DEF DepthIsThatOfPath
<1>4. CASE DfsOtherEdge
  <2>1. /\ phase = "dfs" /\ stack # <<>> /\ Last(stack).rest # <<>> /\ phase' = phase
        /\ depth' = depth /\ stack' = Trim(stack)
    BY <1>4 DEF DfsOtherEdge, Top, Trim
  <2>2. QED
    BY <1>1, <2>1 DEF DepthIsThatOfPath
<1>5. CASE DfsFinish
  <2>1. /\ phase = "dfs" /\ stack # <<>> /\ Last(stack).rest = <<>> /\ phase' = phase
        /\ depth' = (IF Len(stack) = 1 THEN depth ELSE depth - 1) /\ stack' = Front(stack)
    BY <1>5 DEF DfsFinish, Top
  <2>2. /\ Len(stack) \in Nat /\ Len(stack) > 0 /\ Len(stack') = Len(stack) - 1
        /\ (stack' # <<>> <=> Len(stack) - 1 > 0)
    BY <1>1, <2>1
  <2>3. depth = Len(stack) - 1
    BY <2>1 DEF DepthIsThatOfPath
  <2>4. depth' = IF stack' # <<>> THEN Len(stack') - 1 ELSE 0
    <3>1. CASE Len(stack) = 1
      BY <2>1, <2>2, <2>3, <3>1
    <3>2. CASE Len(stack) # 1
      BY <2>1, <2>2, <2>3, <3>2
    <3>3. QED
      BY <3>1, <3>2
  <2>5. phase' = "dfs"
    BY <2>1
  <2>6. QED
    BY <2>4, <2>5 DEF DepthIsThatOfPath
<1>6. CASE DfsDone
  BY <1>6 DEF DfsDone, DepthIsThatOfPath
<1>7. CASE BuiltDfs
  BY <1>7 DEF BuiltDfs, DepthIsThatOfPath
<1>8. CASE UNCHANGED allVars
  BY <1>8 DEF allVars, dgVars, DepthIsThatOfPath
<1>9. CASE /\ method = "bfs" /\ UNCHANGED <<words, method, maxDepth, sources, stack, depth>>
           /\ phase # "dfs" /\ phase' # "dfs"
  BY <1>9 DEF DepthIsThatOfPath
<1>10. QED
  BY <1>2, <1>3, <1>4, <1>5, <1>6, <1>7, <1>8, <1>9, DfsSteps

\* The subgraph that a search leaves when it is added.
LEMMA FillKeeps ==
  ASSUME NEW G, NEW A, NEW m, NEW E, FoundOK(G, A, m, E), NEW d, Built(G, A, m, d)
  PROVE  Built(G, A, m, FillEdges(d, E)) /\ Adds(d, E, FillEdges(d, E))
<1> DEFINE c == FillEdges(d, E)
           D == DOMAIN d.w
           P == PairsOf(E)
<1>1. Adds(d, E, c)
  BY FillAdds
<1>2. JoinedOK(G, A, m, DOMAIN d.w \cup PairsOf(E))
  BY JoinedGrows DEF Built
<1> HIDE DEF c
<1>3. c.V = d.V \cup UNION P /\ DOMAIN c.w = D \cup P /\ JoinedOK(G, A, m, D \cup P)
      /\ d.V = UNION D
  BY <1>1, <1>2 DEF Adds, Built
<1> HIDE DEF D, P
<1>4. UNION (D \cup P) = (UNION D) \cup (UNION P)
  OBVIOUS
<1>5. Built(G, A, m, c)
  BY <1>3, <1>4 DEF Built
<1>6. QED
  BY <1>1, <1>5 DEF c

\* The first step of a search keeps the invariant.
LEMMA StartKeeps ==
  ASSUME SearchTyped, DfsTyped, DepthIsThatOfPath, DfsInv, StartDfs
  PROVE  DfsInv'
<1>0. PICK s : s = Head(sources)
  OBVIOUS
<1>1. /\ phase = "context" /\ method # "bfs" /\ sources # <<>> /\ phase' = "dfs"
      /\ stack' = <<[u |-> s, rest |-> OutEdges(s, depth)]>> /\ seen' = {s}
      /\ found' = (IF method = "dfs" THEN {} ELSE found) /\ sources' = Tail(sources)
      /\ UNCHANGED <<graph, words, method, maxDepth, dg>>
  BY <1>0 DEF StartDfs
<1>2. /\ graph \in AllGraphs /\ maxDepth \in Nat \ {0} /\ Senses \subseteq Vertices /\ depth = 0
      /\ sources \in Seq(Vertices) /\ ToSet(sources) \subseteq Senses
  BY <1>1 DEF SearchTyped, DfsTyped, DepthIsThatOfPath
<1>3. s \in Senses /\ s \in Vertices /\ ToSet(sources) = {s} \cup ToSet(Tail(sources))
  BY <1>0, <1>1, <1>2, ElementsOfTail
<1>4. OutEdges(s, depth) = graph[s] /\ graph[s] \in Seq(Vertices)
  BY <1>2, <1>3 DEF OutEdges, AllGraphs
<1>5. Senses' = Senses
  BY <1>1 DEF Senses
<1>6. FoundOK(graph, Senses, maxDepth, found')
  BY <1>1 DEF FoundOK, DfsInv
<1>7. /\ Frames(graph, s, maxDepth, seen', stack') /\ Followed(graph, seen', seen', stack')
  BY <1>1, <1>2, <1>3, <1>4, FramesBegin
<1>8. Searching(graph, Senses, maxDepth, s, seen', stack', found')
  BY <1>1, <1>7 DEF Searching
<1>9. ServedBut({s})'
  <2>1. ServedBut({})
    BY <1>1 DEF DfsInv
  <2>2. {s} \cup ToSet(sources') = {} \cup ToSet(sources)
    BY <1>1, <1>3
  <2>3. QED
    BY <1>1, <1>5, <2>1, <2>2 DEF ServedBut
<1>10. method = "dfs" => Built(graph, Senses, maxDepth, dg)
  BY <1>1 DEF DfsInv
<1>11. method = "nocosenses" => dg = [V |-> {}, w |-> <<>>]
  BY <1>1 DEF DfsInv
<1>12. (\E r \in Senses : Searching(graph, Senses, maxDepth, r, seen, stack, found) /\ ServedBut({r}))'
  BY <1>1, <1>3, <1>5, <1>8, <1>9
<1>13. QED
  BY <1>1, <1>5, <1>6, <1>10, <1>11, <1>12 DEF DfsInv

\* A step of a search leaves the subgraph and what has been served alone.
LEMMA SearchStepKeeps ==
  ASSUME DfsInv, phase = "dfs", phase' = "dfs", method # "bfs",
         UNCHANGED <<graph, words, method, maxDepth, sources, dg>>,
         FoundOK(graph, Senses, maxDepth, found'),
         NEW s \in Senses, ServedBut({s}),
         Searching(graph, Senses, maxDepth, s, seen', stack', found')
  PROVE  DfsInv'
<1>1. Senses' = Senses
  BY DEF Senses
<1>2. ServedBut({s})'
  BY <1>1 DEF ServedBut
<1>3. (\E r \in Senses : Searching(graph, Senses, maxDepth, r, seen, stack, found) /\ ServedBut({r}))'
  BY <1>1, <1>2
<1>4. /\ method = "dfs" => Built(graph, Senses, maxDepth, dg)
      /\ method = "nocosenses" => dg = [V |-> {}, w |-> <<>>]
  BY DEF DfsInv
<1>5. QED
  BY <1>1, <1>3, <1>4 DEF DfsInv

\* An edge to a vertex that has not been seen; when it is a sense, the path so far is a way to it.
LEMMA TreeEdgeKeeps ==
  ASSUME SearchTyped, DfsTyped, DepthIsThatOfPath, DfsInv, DfsTreeEdge
  PROVE  DfsInv'
<1> DEFINE v == Head(Last(stack).rest)
           x == [u |-> v, rest |-> OutEdges(v, depth + 1)]
           F == PathSoFar \cup {<<Last(stack).u, v>>}
           m == maxDepth
<1>1. /\ phase = "dfs" /\ stack # <<>> /\ Last(stack).rest # <<>> /\ phase' = "dfs"
      /\ v \notin seen /\ seen' = seen \cup {v}
      /\ stack' = Append(Trim(stack), x)
      /\ found' = (IF v \in Senses THEN found \cup F ELSE found)
      /\ UNCHANGED <<graph, words, method, maxDepth, sources, dg>>
  BY DEF DfsTreeEdge, Top, Trim
<1>2. graph \in AllGraphs /\ m \in Nat /\ method # "bfs" /\ Senses \subseteq Vertices
  BY <1>1 DEF SearchTyped, DfsTyped
<1>3. PICK s \in Senses : Searching(graph, Senses, m, s, seen, stack, found) /\ ServedBut({s})
  BY <1>1, <1>2 DEF DfsInv
<1>4. Frames(graph, s, m, seen, stack)
  BY <1>3 DEF Searching
<1>5. stack \in Seq(Frame) /\ Len(stack) \in Nat /\ Len(stack) > 0
  BY <1>1, <1>2, <1>4, FramesAre
<1>6. /\ Frames(graph, s, m, seen, Trim(stack)) /\ Len(Trim(stack)) = Len(stack) /\ Len(stack) <= m
      /\ Last(Trim(stack)).u = Last(stack).u /\ v \in ToSet(graph[Last(stack).u])
      /\ Followed(graph, seen, seen, stack) => Followed(graph, seen, seen \cup {v}, Trim(stack))
  BY <1>1, <1>2, <1>4, FramesTrim
<1>7. v \in Vertices
  <2>1. Last(stack) \in Frame
    BY <1>5 DEF Last
  <2>2. Last(stack).u \in Vertices
    BY <2>1 DEF Frame
  <2>3. QED
    BY <1>2, <1>6, <2>2, RowsAreVertices
<1>8. OutEdges(v, depth + 1) = IF Len(Trim(stack)) >= m THEN <<>> ELSE graph[v]
  <2>1. depth + 1 = Len(stack)
    BY <1>1, <1>5 DEF DepthIsThatOfPath
  <2>2. QED
    BY <1>6, <2>1 DEF OutEdges
<1>9. Trim(stack) # <<>>
  BY <1>2, <1>5, <1>6, FramesAre
<1>10. \E q : /\ Way(graph, q) /\ Len(q) = Len(stack) + 1 /\ q[1] = s /\ q[Len(q)] = v
              /\ StepsOf(q) = F
  <2> HIDE DEF v
  <2>1. \E q : /\ Way(graph, q) /\ Len(q) = Len(stack) + 1 /\ q[1] = s /\ q[Len(q)] = v
                /\ StepsOf(q) = StepsOver(stack, v)
    BY <1>1, <1>2, <1>4, <1>6, <1>7, StackWay
  <2>2. StepsOver(stack, v) = F
    BY DEF PathSoFar, StepsOver
  <2> HIDE DEF F
  <2>3. QED
    BY <2>1, <2>2
<1>11. PICK q : /\ Way(graph, q) /\ Len(q) = Len(stack) + 1 /\ q[1] = s /\ q[Len(q)] = v
                /\ StepsOf(q) = F
  BY <1>10
<1> DEFINE r == OutEdges(v, depth + 1)
<1>12. /\ Frames(graph, s, m, seen \cup {v}, Append(Trim(stack), [u |-> v, rest |-> r]))
       /\ m >= Size /\ Followed(graph, seen, seen \cup {v}, Trim(stack))
            => Followed(graph, seen \cup {v}, seen \cup {v}, Append(Trim(stack), [u |-> v, rest |-> r]))
  <2>1. r = IF Len(Trim(stack)) >= m THEN <<>> ELSE graph[v]
    BY <1>8
  <2>2. Len(Trim(stack)) <= m /\ v \in ToSet(graph[Last(Trim(stack)).u]) /\ v \notin seen
    BY <1>1, <1>6
  <2> HIDE DEF r, v, m
  <2>3. QED
    BY <1>2, <1>6, <1>7, <1>9, <2>1, <2>2, FramesPush
<1>13. Frames(graph, s, m, seen', stack') /\ (m >= Size => Followed(graph, seen', seen', stack'))
  <2>1. stack' = Append(Trim(stack), [u |-> v, rest |-> r]) /\ seen' = seen \cup {v}
    BY <1>1
  <2>2. m >= Size => Followed(graph, seen, seen \cup {v}, Trim(stack))
    BY <1>3, <1>6 DEF Searching
  <2> HIDE DEF r, v, m
  <2>3. QED
    BY <1>12, <2>1, <2>2
<1> HIDE DEF v, F
<1>14. FoundOK(graph, Senses, m, found')
  <2>1. FoundOK(graph, Senses, m, found)
    BY <1>2 DEF DfsInv
  <2>2. CASE v \in Senses
    <3>1. Len(q) - 1 <= m /\ q[1] \in Senses /\ q[Len(q)] \in Senses
      BY <1>3, <1>5, <1>6, <1>11, <2>2
    <3>2. FoundOK(graph, Senses, m, found \cup StepsOf(q))
      <4> HIDE DEF m
      <4> QED BY <1>2, <1>11, <2>1, <3>1, FoundGrows
    <3>3. QED
      BY <1>1, <1>11, <2>2, <3>2
  <2>3. CASE v \notin Senses
    BY <1>1, <2>1, <2>3
  <2>4. QED
    BY <2>2, <2>3
<1>15. \A t \in Senses \cap seen' : t # s => {s, t} \subseteq UNION PairsOf(found')
  <2>1. \A t \in Senses \cap seen : t # s => {s, t} \subseteq UNION PairsOf(found)
    BY <1>3 DEF Searching
  <2>2. UNION PairsOf(found) \subseteq UNION PairsOf(found')
    BY <1>1 DEF PairsOf
  <2>3. ASSUME v \in Senses PROVE {s, v} \subseteq UNION PairsOf(found')
    <3>1. 1 \in 1 .. Len(q) - 1 /\ Len(stack) \in 1 .. Len(q) - 1
      BY <1>5, <1>11
    <3>2. <<q[1], q[1 + 1]>> \in F /\ <<q[Len(stack)], q[Len(stack) + 1]>> \in F
      BY <1>11, <3>1 DEF StepsOf
    <3>3. <<s, q[1 + 1]>> \in found' /\ <<q[Len(stack)], v>> \in found'
      BY <1>1, <1>11, <2>3, <3>2
    <3>4. {s, q[1 + 1]} \in PairsOf(found') /\ {q[Len(stack)], v} \in PairsOf(found')
      BY <3>3 DEF PairsOf
    <3>5. QED
      BY <3>4
  <2>4. QED
    BY <1>1, <2>1, <2>2, <2>3
<1>16. Searching(graph, Senses, maxDepth, s, seen', stack', found')
  BY <1>13, <1>15 DEF Searching
<1>17. QED
  BY <1>1, <1>2, <1>3, <1>14, <1>16, SearchStepKeeps

\* An edge to one that has been seen.
LEMMA OtherEdgeKeeps ==
  ASSUME SearchTyped, DfsTyped, DfsInv, DfsOtherEdge
  PROVE  DfsInv'
<1>1. /\ phase = "dfs" /\ stack # <<>> /\ Last(stack).rest # <<>> /\ phase' = "dfs"
      /\ Head(Last(stack).rest) \in seen /\ seen' = seen
      /\ stack' = Trim(stack) /\ found' = found
      /\ UNCHANGED <<graph, words, method, maxDepth, sources, dg>>
  BY DEF DfsOtherEdge, Top, Trim, kbVars, searchVars
<1>2. graph \in AllGraphs /\ maxDepth \in Nat /\ method # "bfs"
  BY <1>1 DEF SearchTyped, DfsTyped
<1>3. PICK s \in Senses : Searching(graph, Senses, maxDepth, s, seen, stack, found) /\ ServedBut({s})
  BY <1>1, <1>2 DEF DfsInv
<1>4. Frames(graph, s, maxDepth, seen, stack)
  BY <1>3 DEF Searching
<1>5. /\ Frames(graph, s, maxDepth, seen, Trim(stack))
      /\ Followed(graph, seen, seen, stack)
           => Followed(graph, seen, seen \cup {Head(Last(stack).rest)}, Trim(stack))
  BY <1>1, <1>2, <1>4, FramesTrim
<1>6. seen \cup {Head(Last(stack).rest)} = seen
  BY <1>1
<1>7. Searching(graph, Senses, maxDepth, s, seen', stack', found')
  BY <1>1, <1>3, <1>5, <1>6 DEF Searching
<1>8. FoundOK(graph, Senses, maxDepth, found')
  BY <1>1, <1>2 DEF DfsInv
<1>9. QED
  BY <1>1, <1>2, <1>3, <1>7, <1>8, SearchStepKeeps

\* A vertex whose edges have all been examined.
LEMMA FinishKeeps ==
  ASSUME SearchTyped, DfsTyped, DfsInv, DfsFinish
  PROVE  DfsInv'
<1>1. /\ phase = "dfs" /\ stack # <<>> /\ Last(stack).rest = <<>> /\ phase' = "dfs"
      /\ stack' = Front(stack) /\ seen' = seen /\ found' = found
      /\ UNCHANGED <<graph, words, method, maxDepth, sources, dg>>
  BY DEF DfsFinish, Top, kbVars, searchVars
<1>2. graph \in AllGraphs /\ maxDepth \in Nat /\ method # "bfs"
  BY <1>1 DEF SearchTyped, DfsTyped
<1>3. PICK s \in Senses : Searching(graph, Senses, maxDepth, s, seen, stack, found) /\ ServedBut({s})
  BY <1>1, <1>2 DEF DfsInv
<1>4. Frames(graph, s, maxDepth, seen, stack)
  BY <1>3 DEF Searching
<1>5. /\ Frames(graph, s, maxDepth, seen, Front(stack))
      /\ Followed(graph, seen, seen, stack) => Followed(graph, seen, seen, Front(stack))
  BY <1>1, <1>2, <1>4, FramesPop
<1>6. Searching(graph, Senses, maxDepth, s, seen', stack', found')
  BY <1>1, <1>3, <1>5 DEF Searching
<1>7. FoundOK(graph, Senses, maxDepth, found')
  BY <1>1, <1>2 DEF DfsInv
<1>8. QED
  BY <1>1, <1>2, <1>3, <1>6, <1>7, SearchStepKeeps

\* A search that is over has seen all that its source reaches, unless it was cut.
LEMMA DoneKeeps ==
  ASSUME SearchTyped, DfsTyped, DfsInv, DfsDone
  PROVE  DfsInv'
<1>1. /\ phase = "dfs" /\ stack = <<>> /\ phase' = "context" /\ found' = found
      /\ dg' = (IF method = "dfs" THEN FillEdges(dg, found) ELSE dg)
      /\ UNCHANGED <<graph, words, method, maxDepth, sources>>
  BY DEF DfsDone, kbVars
<1>2. graph \in AllGraphs /\ method \in {"dfs", "nocosenses"} /\ Senses \subseteq Vertices
  BY <1>1 DEF SearchTyped, DfsTyped
<1>3. Senses' = Senses
  BY <1>1 DEF Senses
<1>4. FoundOK(graph, Senses, maxDepth, found)
  BY <1>2 DEF DfsInv
<1>5. CASE method = "nocosenses"
  <2>1. dg = [V |-> {}, w |-> <<>>]
    BY <1>1, <1>5 DEF DfsInv
  <2>2. ServedBut({})'
    BY <1>1, <1>5 DEF ServedBut
  <2>3. QED
    BY <1>1, <1>3, <1>4, <1>5, <2>1, <2>2 DEF DfsInv
<1>6. CASE method = "dfs"
  <2>1. Built(graph, Senses, maxDepth, dg)
    BY <1>6 DEF DfsInv
  <2> DEFINE c == FillEdges(dg, found)
  <2>0. Built(graph, Senses, maxDepth, c) /\ Adds(dg, found, c)
    BY <1>4, <2>1, FillKeeps
  <2>3. dg' = c
    BY <1>1, <1>6
  <2> HIDE DEF c
  <2>2. Built(graph, Senses, maxDepth, c) /\ dg.V \cup UNION PairsOf(found) = c.V
    BY <2>0 DEF Adds
  <2>4. PICK s \in Senses : Searching(graph, Senses, maxDepth, s, seen, stack, found) /\ ServedBut({s})
    BY <1>1, <1>6 DEF DfsInv
  <2>5. ASSUME maxDepth >= Size PROVE Served(graph, Senses, c.V, s)
    <3>1. \A x \in seen : ToSet(graph[x]) \subseteq seen
      BY <1>1, <2>4, <2>5 DEF Searching, Followed
    <3>2. s \in seen
      BY <2>4 DEF Searching, Frames
    <3>3. Reachable(graph, s) \subseteq seen
      BY <1>2, <3>1, <3>2, ReachableIsLeast
    <3>4. \A t \in Senses \cap seen : t # s => {s, t} \subseteq UNION PairsOf(found)
      BY <2>4 DEF Searching
    <3>5. QED
      BY <2>2, <3>3, <3>4 DEF Served
  <2>6. ServedBut({})'
    <3> SUFFICES ASSUME maxDepth >= Size, NEW r \in Senses, r \notin ToSet(sources)
                 PROVE  Served(graph, Senses, c.V, r)
      BY <1>1, <1>3, <2>3 DEF ServedBut
    <3>1. CASE r = s
      BY <2>5, <3>1
    <3>2. CASE r # s
      <4>1. Served(graph, Senses, dg.V, r)
        BY <1>6, <2>4, <3>2 DEF ServedBut
      <4>2. QED
        BY <2>2, <4>1 DEF Served
    <3>3. QED
      BY <3>1, <3>2
  <2>7. Built(graph, Senses, maxDepth, dg')
    BY <2>2, <2>3
  <2>8. QED
    BY <1>1, <1>3, <1>4, <1>6, <2>6, <2>7 DEF DfsInv
<1>7. QED
  BY <1>2, <1>5, <1>6

\* The edges between senses of one word are dropped.
LEMMA BuiltKeeps ==
  ASSUME SearchTyped, DfsTyped, DfsInv, BuiltDfs
  PROVE  DfsInv'
<1> DEFINE F == {e \in found : ~ CoSenses(e[1], e[2])}
<1>1. /\ phase = "context" /\ method # "bfs" /\ phase' = "built" /\ found' = found
      /\ dg' = (IF method = "dfs" THEN dg ELSE FillEdges(dg, F))
      /\ UNCHANGED <<graph, words, method, maxDepth, sources>>
  BY DEF BuiltDfs, kbVars
<1>2. method \in {"dfs", "nocosenses"}
  BY <1>1 DEF DfsTyped
<1>3. Senses' = Senses /\ \A u, v : CoSenses(u, v)' <=> CoSenses(u, v)
  BY <1>1 DEF Senses, CoSenses
<1>4. FoundOK(graph, Senses, maxDepth, found)
  BY <1>2 DEF DfsInv
<1>5. CASE method = "dfs"
  <2>1. Built(graph, Senses, maxDepth, dg) /\ ServedBut({})
    BY <1>1, <1>5 DEF DfsInv
  <2>2. dg' = dg
    BY <1>1, <1>5
  <2>3. ServedBut({})'
    BY <1>1, <1>3, <2>1, <2>2 DEF ServedBut
  <2>4. QED
    BY <1>1, <1>3, <1>4, <1>5, <2>1, <2>2, <2>3 DEF DfsInv
<1>6. CASE method = "nocosenses"
  <2>1. dg = [V |-> {}, w |-> <<>>]
    BY <1>1, <1>6 DEF DfsInv
  <2>2. Built(graph, Senses, maxDepth, dg)
        /\ DOMAIN dg.w = {}
    BY <2>1 DEF JoinedOK, Built
  <2>3. FoundOK(graph, Senses, maxDepth, F)
    <3>1. F \subseteq found
      OBVIOUS
    <3>2. \A e \in found : e \in F \/ (e[1] \in Senses /\ e[2] \in Senses)
      BY DEF CoSenses, Senses
    <3> HIDE DEF F
    <3>3. QED
      BY <1>4, <3>1, <3>2, DroppedChains
  <2>4. \A e \in F : ~ CoSenses(e[1], e[2])
    OBVIOUS
  <2> HIDE DEF F
  <2> DEFINE c == FillEdges(dg, F)
  <2>5. Built(graph, Senses, maxDepth, c) /\ Adds(dg, F, c)
    BY <2>2, <2>3, FillKeeps
  <2>7. dg' = c
    BY <1>1, <1>6 DEF F
  <2> HIDE DEF c
  <2>6. DOMAIN c.w = DOMAIN dg.w \cup PairsOf(F)
    BY <2>5 DEF Adds
  <2>8. ASSUME NEW e \in DOMAIN c.w, NEW u \in e, NEW v \in e, u # v PROVE ~ CoSenses(u, v)
    <3>1. PICK f \in F : e = {f[1], f[2]}
      BY <2>2, <2>6 DEF PairsOf
    <3>2. {u, v} = {f[1], f[2]}
      BY <2>8, <3>1
    <3>3. CoSenses(u, v) => CoSenses(f[1], f[2])
      BY <3>2 DEF CoSenses
    <3>4. QED
      BY <2>4, <3>3
  <2>9. ServedBut({})'
    BY <1>1, <1>6 DEF ServedBut
  <2>10. Built(graph, Senses, maxDepth, dg')
         /\ \A e \in DOMAIN dg'.w : \A u, v \in e : u # v => ~ CoSenses(u, v)
    BY <2>5, <2>7, <2>8
  <2>11. QED
    BY <1>1, <1>3, <1>4, <1>6, <2>9, <2>10 DEF DfsInv
<1>7. QED
  BY <1>2, <1>5, <1>6

\* So every step keeps the invariant,
LEMMA DfsInvKept ==
  ASSUME SearchTyped, DfsTyped, DepthIsThatOfPath, DfsInv, [DgNext]_allVars
  PROVE  DfsInv'
<1>1. CASE UNCHANGED allVars
  <2>1. UNCHANGED <<graph, words, method, maxDepth, sources, dg, found, phase, seen, stack>>
    BY <1>1 DEF allVars, kbVars, searchVars, dgVars
  <2>2. Senses' = Senses /\ \A u, v : CoSenses(u, v)' <=> CoSenses(u, v)
    BY <2>1 DEF Senses, CoSenses
  <2>3. /\ ServedBut({})' <=> ServedBut({})
        /\ \A s : ServedBut({s})' <=> ServedBut({s})
    BY <2>1, <2>2 DEF ServedBut
  <2>4. QED
    BY <2>1, <2>2, <2>3 DEF DfsInv
<1>2. CASE /\ method = "bfs" /\ UNCHANGED <<words, method, maxDepth, sources, stack, depth>>
           /\ phase # "dfs" /\ phase' # "dfs"
  BY <1>2 DEF DfsInv
<1>3. QED
  BY <1>1, <1>2, DfsSteps, StartKeeps, TreeEdgeKeeps, OtherEdgeKeeps, FinishKeeps, DoneKeeps,
    BuiltKeeps

\* and it always holds.
LEMMA SearchesInvariance == DgSpec => []SearchesInv
<1>1. DgInit => SearchesInv
  BY SearchInit, DfsInit DEF SearchesInv
<1>2. SearchesInv /\ [DgNext]_allVars => SearchesInv'
  <2> SUFFICES ASSUME SearchesInv, [DgNext]_allVars PROVE SearchesInv'
    OBVIOUS
  <2>1. SearchTyped /\ SearchInv /\ DfsTyped /\ DepthIsThatOfPath /\ DfsInv
    BY DEF SearchesInv, SearchInv
  <2>2. SearchInv' /\ DfsTyped' /\ DepthIsThatOfPath' /\ DfsInv'
    BY <2>1, SearchKept, DfsTypedKept, DepthKept, DfsInvKept
  <2>3. QED
    BY <2>2 DEF SearchesInv
<1>3. QED
  BY <1>1, <1>2, PTL DEF DgSpec

\* The chain of an edge is a way from one sense to another.
LEMMA ChainWithin ==
  ASSUME SearchTyped, DfsTyped, JoinedOK(graph, Senses, maxDepth, DOMAIN dg.w)
  PROVE  WithinDepth
<1> SUFFICES ASSUME NEW e \in DOMAIN dg.w
             PROVE  \E s, t \in Senses, u, v \in e :
                      /\ s # t /\ Edge(u, v) /\ Reaches(s, u) /\ Reaches(v, t)
                      /\ Dist(s, u) + 1 + Dist(v, t) <= maxDepth
  BY DEF WithinDepth
<1>1. graph \in AllGraphs /\ maxDepth \in Nat
  BY DEF SearchTyped, DfsTyped
<1>2. PICK p \in Paths : Chain(graph, Senses, maxDepth, p) /\ Between(e, p)
  BY DEF JoinedOK
<1>3. PICK j \in 1 .. Len(p) - 1 : e = {p[j], p[j + 1]}
  BY <1>2 DEF Between
<1>4. /\ Way(graph, p) /\ Len(p) \in Nat /\ Len(p) >= 2 /\ p[1] # p[Len(p)]
      /\ 1 \in 1 .. Len(p) /\ j + 1 \in 1 .. Len(p)
  BY <1>2, ChainSteps
<1>5. p[1] \in Senses /\ p[Len(p)] \in Senses /\ Len(p) - 1 <= maxDepth
  BY <1>2 DEF Chain
<1> DEFINE s == p[1]
           t == p[Len(p)]
           u == p[j]
           v == p[j + 1]
<1>6. u \in Reachable(graph, s) /\ Dst(graph, s, u) \in Nat /\ Dst(graph, s, u) <= j - 1
  <2>1. j \in 1 .. Len(p)
    BY <1>4
  <2>2. QED
    BY <1>1, <1>4, <2>1, WayNear
<1>7. t \in Reachable(graph, v) /\ Dst(graph, v, t) \in Nat /\ Dst(graph, v, t) <= Len(p) - (j + 1)
  <2>1. Len(p) \in j + 1 .. Len(p)
    BY <1>4
  <2>2. QED
    BY <1>1, <1>4, <2>1, WayNear
<1>8. v \in ToSet(graph[u])
  BY <1>4 DEF Way
<1>9. Dst(graph, s, u) + 1 + Dst(graph, v, t) <= maxDepth
  BY <1>1, <1>4, <1>5, <1>6, <1>7
<1>10. s # t /\ s \in Senses /\ t \in Senses /\ u \in e /\ v \in e
  BY <1>3, <1>4, <1>5
<1> HIDE DEF s, t, u, v
<1>11. Edge(u, v) /\ Reaches(s, u) /\ Reaches(v, t) /\ Dist(s, u) + 1 + Dist(v, t) <= maxDepth
  BY <1>6, <1>7, <1>8, <1>9, SameAsNear, EdgeIsInRow DEF s, t, u, v
<1>12. QED
  BY <1>10, <1>11

\* Both ends of it are linked with every vertex between.
LEMMA ChainJoins ==
  ASSUME DfsTyped, Built(graph, Senses, maxDepth, dg), NEW v \in dg.V
  PROVE  Cardinality(Joined(v)[Cardinality(Vertices)] \cap Senses) >= 2
<1> DEFINE D == DOMAIN dg.w
<1>1. D \subseteq SUBSET Vertices /\ dg.V = UNION D /\ JoinedOK(graph, Senses, maxDepth, D)
  BY DEF Built, JoinedOK
<1>2. Joined(v) = Linked(D, v)
  BY DEF Joined, Linked, Size
<1> HIDE DEF D
<1>3. PICK e \in D : v \in e
  BY <1>1
<1>4. PICK p \in Paths : Chain(graph, Senses, maxDepth, p) /\ Spans(D, p) /\ Between(e, p)
  BY <1>1, <1>3 DEF JoinedOK
<1>5. /\ Way(graph, p) /\ p \in Seq(Vertices) /\ Len(p) \in Nat /\ p[1] # p[Len(p)]
      /\ 1 \in 1 .. Len(p) /\ Len(p) \in 1 .. Len(p)
      /\ \A j \in 1 .. Len(p) - 1 : j \in 1 .. Len(p) /\ j + 1 \in 1 .. Len(p)
  BY <1>4, ChainSteps
<1>6. Len(p) <= Size
  BY <1>5, InjectiveFits DEF Way
<1>7. PICK i \in 1 .. Len(p) : v = p[i]
  <2>1. PICK j \in 1 .. Len(p) - 1 : e = {p[j], p[j + 1]}
    BY <1>4 DEF Between
  <2>2. QED
    BY <1>3, <1>5, <2>1
<1> DEFINE L == Linked(D, v)[Size]
<1>8. p[1] \in L /\ p[Len(p)] \in L
  BY <1>1, <1>4, <1>5, <1>6, <1>7, PathLinked
<1>9. p[1] \in Senses /\ p[Len(p)] \in Senses
  BY <1>4 DEF Chain
<1>10. IsFiniteSet(Senses)
  BY KbSearchAssumption, FS_Subset DEF DfsTyped
<1> HIDE DEF L
<1>11. IsFiniteSet(L \cap Senses)
  <2>1. L \cap Senses \in SUBSET Senses
    OBVIOUS
  <2>2. QED
    BY <1>10, <2>1, FS_Subset
<1>12. Cardinality(L \cap Senses) >= 2
  BY <1>5, <1>8, <1>9, <1>11, TwoMembers
<1>13. QED
  BY <1>2, <1>12 DEF L, Size

\* It has what is said of the depth first subgraphs.
LEMMA DfsFollows == SearchesInv => DfsJoinsSenses
<1> SUFFICES ASSUME SearchesInv, phase = "built", method # "bfs"
             PROVE  /\ WithinDepth
                    /\ \A v \in dg.V : Cardinality(Joined(v)[Cardinality(Vertices)] \cap Senses) >= 2
                    /\ method = "nocosenses" =>
                         \A e \in DOMAIN dg.w : \A u, v \in e : u # v => ~ CoSenses(u, v)
                    /\ (method = "dfs" /\ maxDepth >= Cardinality(Vertices)) =>
                         \A s, t \in Senses : s # t /\ Reaches(s, t) => {s, t} \subseteq dg.V
  BY DEF DfsJoinsSenses, SearchesInv
<1>1. SearchTyped /\ DfsTyped /\ DfsInv
  BY DEF SearchesInv, SearchInv
<1>2. Built(graph, Senses, maxDepth, dg) /\ ServedBut({}) /\ sources = <<>>
  BY <1>1 DEF DfsInv, DfsTyped
<1>3. WithinDepth
  BY <1>1, <1>2, ChainWithin DEF Built
<1>4. \A v \in dg.V : Cardinality(Joined(v)[Cardinality(Vertices)] \cap Senses) >= 2
  BY <1>1, <1>2, ChainJoins
<1>5. method = "nocosenses" => \A e \in DOMAIN dg.w : \A u, v \in e : u # v => ~ CoSenses(u, v)
  BY <1>1 DEF DfsInv
<1>6. ASSUME method = "dfs", maxDepth >= Size, NEW s \in Senses, NEW t \in Senses, s # t, Reaches(s, t)
      PROVE  {s, t} \subseteq dg.V
  <2>1. s \notin ToSet(sources)
    BY <1>2 DEF ToSet
  <2>2. Served(graph, Senses, dg.V, s)
    BY <1>2, <1>6, <2>1 DEF ServedBut
  <2>3. QED
    BY <1>6, <2>2, SameAsNear DEF Served
<1>7. QED
  BY <1>3, <1>4, <1>5, <1>6 DEF Size

\* In every subgraph of a depth first search (dfsa.h, DisambGraph::build_dgraph_dfs and
\* build_dgraph_dfs_nocosenses) every edge is on a way between two senses that is within the
\* depth, and every vertex is connected with two senses at least, also when the edges between
\* senses of one word have been dropped; the depth that all searches share is right whenever
\* it is read.
THEOREM DepthFirstJoins == DgSpec => []DfsJoinsSenses
BY SearchesInvariance, DfsFollows, PTL

-----------------------------------------------------------------------------
(* Sums over finite sets.                                                  *)

\* What a path between the ends of a quadruple adds to the weights.
Worth(q) == LET n == Dist(q[2], q[4]) IN n * (Unit \div (n + 1))

\* The same for the sum of BfsWeights.
LEMMA WorthIsSum ==
  ASSUME NEW S, IsFiniteSet(S), \A q \in S : Worth(q) \in Nat,
         NEW g, SumsUp(g, [q \in S |-> Worth(q)], S)
  PROVE  MapThenSumSet(LAMBDA q : LET n == Dist(q[2], q[4]) IN n * (Unit \div (n + 1)), S) = g[S]
<1> DEFINE E(f) == f = [A \in SUBSET S |->
             IF A = {} THEN 0
             ELSE Worth(CHOOSE x \in A : TRUE) + f[A \ {CHOOSE x \in A : TRUE}]]
           H == [x \in S |-> Worth(x)]
           total == MapThenSumSet(LAMBDA q : LET n == Dist(q[2], q[4]) IN n * (Unit \div (n + 1)), S)
<1>1. H \in [S -> Nat]
  OBVIOUS
<1>2. PICK h : PicksOne(h, H, S)
  <2> HIDE DEF H
  <2> QED BY <1>1, SumExists
<1>3. E(h)
  <2>1. \A A \in SUBSET S : A # {} => (CHOOSE x \in A : TRUE) \in S
    OBVIOUS
  <2>2. QED
    BY <1>2, <2>1 DEF PicksOne
<1>4. total = (CHOOSE f : E(f))[S]
  BY DEF MapThenSumSet, MapThenFoldSet, Worth
<1>5. E(CHOOSE f : E(f))
  <2> HIDE DEF E
  <2> QED BY <1>3
<1>6. PICK f : E(f) /\ total = f[S]
  BY <1>4, <1>5
<1>7. PicksOne(f, H, S)
  <2>1. \A A \in SUBSET S : A # {} => (CHOOSE x \in A : TRUE) \in S
    OBVIOUS
  <2>2. QED
    BY <1>6, <2>1 DEF PicksOne
<1> HIDE DEF total
<1>8. f[S] = g[S]
  <2>1. SumsUp(g, H, S)
    OBVIOUS
  <2> HIDE DEF H
  <2>2. SumsUp(f, H, S)
    BY <1>1, <1>7, SumsInAnyOrder
  <2>3. QED
    BY <2>1, <2>2, SumsAgree
<1>9. total = g[S]
  BY <1>6, <1>8
<1>10. QED
  BY <1>9 DEF total

\* Weights that are w where they were, and x more for the elements of a set.
Raised(f, w, D, es, x) ==
  f = [e \in D \cup es |-> (IF e \in D THEN w[e] ELSE 0) + (IF e \in es THEN x ELSE 0)]

\* Their sum is x more for each element.
LEMMA SumGrows ==
  ASSUME NEW D, IsFiniteSet(D), NEW w \in [D -> Nat], NEW es, IsFiniteSet(es), NEW x \in Nat,
         NEW f, Raised(f, w, D, es, x)
  PROVE  /\ f \in [D \cup es -> Nat]
         /\ Total(f, D \cup es) = Total(w, D) + Cardinality(es) * x
<1> DEFINE T == D \cup es
           GrownSum(g, h, A) == g[A] = h[A \cap D] + Cardinality(A \cap es) * x
<1>1. IsFiniteSet(T) /\ T \cap D = D /\ T \cap es = es
  BY FS_Union
<1>2. f \in [T -> Nat]
  BY DEF Raised
<1>3. /\ \A e \in T : e \in D /\ e \notin es => f[e] = w[e]
      /\ \A e \in T : e \in D /\ e \in es => f[e] = w[e] + x
      /\ \A e \in T : e \notin D => e \in es /\ f[e] = x
  BY DEF Raised
<1> HIDE DEF T
<1>4. PICK g : SumsUp(g, f, T)
  BY <1>1, <1>2, SumExists, SumsInAnyOrder
<1>5. PICK h : SumsUp(h, w, D)
  BY SumExists, SumsInAnyOrder
<1> DEFINE P == {A \in SUBSET T : GrownSum(g, h, A)}
<1>6. \A A \in SUBSET T : IsFiniteSet(A \cap es) /\ Cardinality(A \cap es) \in Nat
  BY FS_Subset, FS_CardinalityType
<1>7. {} \in P
  <2>1. {} \cap D = {} /\ {} \cap es = {}
    OBVIOUS
  <2>2. g[{}] = 0 /\ h[{}] = 0 /\ Cardinality({}) = 0
    BY <1>4, <1>5, FS_EmptySet DEF SumsUp
  <2>3. QED
    BY <2>1, <2>2
<1>8. ASSUME NEW A \in SUBSET T, NEW e \in T, A \in P, e \notin A PROVE A \cup {e} \in P
  <2> DEFINE B == A \cup {e}
             n == Cardinality(A \cap es)
             k == h[A \cap D]
  <2>1. B \in SUBSET T
    OBVIOUS
  <2>2. g[B] = f[e] + g[A]
    BY <1>4, <1>8, SumOfOneMore
  <2>3. g[A] = k + n * x /\ n \in Nat /\ k \in Nat
    BY <1>5, <1>6, <1>8 DEF SumsUp
  <2>4. e \in D => h[B \cap D] = w[e] + k
    <3>1. e \in D => B \cap D = (A \cap D) \cup {e} /\ A \cap D \in SUBSET D /\ e \notin A \cap D
      BY <1>8
    <3>2. QED
      BY <1>5, <3>1, SumOfOneMore
  <2>5. e \notin D => h[B \cap D] = k
    <3>1. e \notin D => B \cap D = A \cap D
      OBVIOUS
    <3>2. QED
      BY <3>1
  <2>6. e \in es => Cardinality(B \cap es) = n + 1
    <3>1. e \in es => B \cap es = (A \cap es) \cup {e} /\ e \notin A \cap es
      BY <1>8
    <3>2. IsFiniteSet(A \cap es)
      BY <1>6
    <3> DEFINE C == A \cap es
    <3> HIDE DEF C
    <3>3. \A z : z \notin C => Cardinality(C \cup {z}) = Cardinality(C) + 1
      BY <3>2, FS_AddElement DEF C
    <3>4. QED
      BY <3>1, <3>3 DEF C
  <2>7. e \notin es => Cardinality(B \cap es) = n
    <3>1. e \notin es => B \cap es = A \cap es
      OBVIOUS
    <3>2. QED
      BY <3>1
  <2> DEFINE l == Cardinality(B \cap es)
             j == h[B \cap D]
  <2>8. (e \in D => w[e] \in Nat) /\ (n + 1) * x = n * x + x /\ n * x \in Nat
    BY <2>3
  <2> HIDE DEF B, n, k, l, j
  <2>9. g[B] = j + l * x
    <3>1. CASE e \in D /\ e \notin es
      BY <1>3, <2>2, <2>3, <2>4, <2>7, <2>8, <3>1 DEF l, j
    <3>2. CASE e \in D /\ e \in es
      BY <1>3, <2>2, <2>3, <2>4, <2>6, <2>8, <3>2 DEF l, j
    <3>3. CASE e \notin D
      <4>1. f[e] = x /\ l = n + 1 /\ j = k
        BY <1>3, <2>5, <2>6, <3>3 DEF l, j
      <4>2. QED
        BY <2>2, <2>3, <2>8, <4>1
    <3>4. QED
      BY <3>1, <3>2, <3>3
  <2>10. B \in P
    BY <2>1, <2>9 DEF l, j
  <2>11. QED
    BY <2>10 DEF B
<1>9. T \in P
  <2> HIDE DEF P
  <2> QED BY <1>1, <1>7, <1>8, SubsetsGrow
<1>10. g[T] = h[D] + Cardinality(es) * x
  BY <1>1, <1>9
<1>11. Total(f, T) = g[T]
  <2>1. T \in SUBSET T
    OBVIOUS
  <2>2. QED
    BY <1>1, <1>2, <1>4, <2>1, TotalIsSum
<1>12. Total(w, D) = h[D]
  BY <1>5, TotalIsSum
<1>13. QED
  BY <1>2, <1>10, <1>11, <1>12 DEF T

-----------------------------------------------------------------------------
(* Shortest paths as the breadth first subgraph takes them.                *)

\* Distances go by the nearest way.
LEMMA Triangle ==
  ASSUME NEW G \in AllGraphs, NEW s \in Vertices, NEW v \in Reachable(G, s),
         NEW x \in Reachable(G, v)
  PROVE  x \in Reachable(G, s) /\ Dst(G, s, x) <= Dst(G, s, v) + Dst(G, v, x)
<1> DEFINE N == Near(G, v)
           R == Reachable(G, s)
           d(y) == Dst(G, s, y)
           P == {k \in Nat : k <= Size => \A y \in N[k] : y \in R /\ d(y) <= d(v) + k}
<1>1. v \in Vertices /\ R \in SUBSET Vertices /\ \A y \in R : d(y) \in Nat
  BY Distances, SizeIsNumber
<1>2. \A u \in R, y \in Vertices : y \in ToSet(G[u]) => y \in R /\ d(y) <= d(u) + 1
  BY Distances
<1>3. N[0] = {v} /\ \A k \in 1 .. Size : N[k] = N[k - 1] \cup UNION {ToSet(G[u]) : u \in N[k - 1]}
  BY <1>1, NearUnfolds
<1>4. Dst(G, v, x) \in 0 .. Size /\ x \in N[Dst(G, v, x)]
  <2>1. Dst(G, v, x) \in 0 .. Size /\ \A k \in 0 .. Size : x \in N[k] <=> Dst(G, v, x) <= k
    BY <1>1, DstIsLeast
  <2>2. Dst(G, v, x) <= Dst(G, v, x)
    BY <2>1, SizeIsNumber
  <2>3. QED
    BY <2>1, <2>2
<1>5. \A u \in R : ToSet(G[u]) \subseteq Vertices
  BY <1>1, RowsAreVertices
<1> HIDE DEF N, R, d
<1>6. 0 \in P
  BY <1>1, <1>3 DEF R
<1>7. ASSUME NEW k \in 0 .. Size - 1, k \in P PROVE k + 1 \in P
  <2>1. k + 1 \in 1 .. Size /\ (k + 1) - 1 = k /\ k <= Size /\ k + 1 \in Nat
    BY SizeIsNumber
  <2>2. \A y \in N[k] : y \in R /\ d(y) <= d(v) + k
    BY <1>7, <2>1
  <2>3. ASSUME NEW y \in N[k + 1] PROVE y \in R /\ d(y) <= d(v) + (k + 1)
    <3>1. CASE y \in N[k]
      <4>1. y \in R /\ d(y) <= d(v) + k
        BY <2>2, <3>1
      <4>2. d(y) \in Nat /\ d(v) \in Nat
        BY <1>1, <4>1 DEF R
      <4>3. QED
        BY <2>1, <4>1, <4>2
    <3>2. CASE y \notin N[k]
      <4>1. PICK u \in N[k] : y \in ToSet(G[u])
        BY <1>3, <2>1, <2>3, <3>2
      <4>2. u \in R /\ d(u) <= d(v) + k
        BY <2>2, <4>1
      <4>3. y \in R /\ d(y) <= d(u) + 1
        BY <1>2, <1>5, <4>1, <4>2
      <4>4. d(y) \in Nat /\ d(v) \in Nat /\ d(u) \in Nat
        BY <1>1, <4>2, <4>3 DEF R
      <4>5. QED
        BY <2>1, <4>2, <4>3, <4>4
    <3>3. QED
      BY <3>1, <3>2
  <2>4. QED
    BY <2>1, <2>3
<1>8. Dst(G, v, x) \in P
  <2> HIDE DEF P
  <2>1. 0 .. Size \subseteq P
    BY <1>6, <1>7, SizeIsNumber, CountingUp
  <2>2. QED
    BY <1>4, <2>1
<1>9. \A y \in N[Dst(G, v, x)] : y \in R /\ d(y) <= d(v) + Dst(G, v, x)
  BY <1>4, <1>8, SizeIsNumber
<1>10. QED
  BY <1>4, <1>9 DEF R, d

\* A path on which every vertex is one edge farther from the source.
Rising(G, s, p) ==
  /\ p \in Seq(Vertices) /\ Len(p) >= 1 /\ p[1] = s
  /\ \A j \in 1 .. Len(p) - 1 : p[j + 1] \in ToSet(G[p[j]])
  /\ \A j \in 1 .. Len(p) : p[j] \in Reachable(G, s) /\ Dst(G, s, p[j]) = j - 1

\* Its edges, undirected.
Ties(p) == {{p[j], p[j + 1]} : j \in 1 .. Len(p) - 1}

\* An edge of some shortest path.
OnShortest(G, s, t, e) ==
  \E u, v \in e : /\ v \in ToSet(G[u]) /\ u \in Reachable(G, s) /\ t \in Reachable(G, v)
                  /\ Dst(G, s, u) + 1 + Dst(G, v, t) = Dst(G, s, t)

\* It has no edge twice.
LEMMA TiesCounted ==
  ASSUME NEW G \in AllGraphs, NEW s \in Vertices, NEW p, Rising(G, s, p)
  PROVE  /\ Len(p) - 1 \in Nat /\ Ties(p) \subseteq SUBSET Vertices
         /\ IsFiniteSet(Ties(p)) /\ Cardinality(Ties(p)) = Len(p) - 1
<1> DEFINE n == Len(p) - 1
           f == [j \in 1 .. n |-> {p[j], p[j + 1]}]
<1>1. n \in Nat /\ \A j \in 1 .. Len(p) : p[j] \in Vertices
  BY ElementsAreMembers DEF Rising
<1>2. \A j \in 1 .. n : j \in 1 .. Len(p) /\ j + 1 \in 1 .. Len(p)
  BY <1>1
<1>3. \A i, j \in 1 .. Len(p) : p[i] = p[j] => i = j
  <2> TAKE i, j \in 1 .. Len(p)
  <2>1. Dst(G, s, p[i]) = i - 1 /\ Dst(G, s, p[j]) = j - 1
    BY DEF Rising
  <2>2. QED
    BY <2>1
<1>4. Ties(p) = {f[j] : j \in 1 .. n}
  BY DEF Ties
<1>5. ASSUME NEW i \in 1 .. n, NEW j \in 1 .. n, f[i] = f[j] PROVE i = j
  <2>1. p[i] \in {p[j], p[j + 1]} /\ p[j] \in {p[i], p[i + 1]}
    BY <1>5
  <2>2. (i = j \/ i = j + 1) /\ (j = i \/ j = i + 1)
    BY <1>2, <1>3, <2>1
  <2>3. QED
    BY <2>2
<1> HIDE DEF f, n
<1>6. f \in Bijection(1 .. n, Ties(p))
  <2>1. f \in [1 .. n -> Ties(p)]
    BY <1>4 DEF f
  <2>2. QED
    BY <1>4, <1>5, <2>1 DEF Bijection, Injection, Surjection, IsInjective
<1>7. IsFiniteSet(1 .. n) /\ Cardinality(1 .. n) = n
  BY <1>1, FS_Interval
<1>8. IsFiniteSet(Ties(p)) /\ Cardinality(Ties(p)) = n
  <2>1. ExistsBijection(1 .. n, Ties(p))
    BY <1>6 DEF ExistsBijection
  <2>2. QED
    BY <1>7, <2>1, FS_Bijection
<1>9. Ties(p) \subseteq SUBSET Vertices
  BY <1>1, <1>2 DEF Ties, n
<1>10. QED
  BY <1>1, <1>8, <1>9 DEF n

\* Each of its edges is on a shortest path to its end.
LEMMA TiesAreShortest ==
  ASSUME NEW G \in AllGraphs, NEW s \in Vertices, NEW p, Rising(G, s, p), NEW e \in Ties(p)
  PROVE  OnShortest(G, s, p[Len(p)], e)
<1> DEFINE l == Len(p)
           t == p[l]
<1>1. /\ p \in Seq(Vertices) /\ l \in Nat /\ l >= 1 /\ \A j \in 1 .. l : p[j] \in Vertices
      /\ \A j \in 1 .. l - 1 : j \in 1 .. l /\ j + 1 \in 1 .. l
  BY ElementsAreMembers DEF Rising
<1>2. PICK j \in 1 .. l - 1 : e = {p[j], p[j + 1]}
  BY DEF Ties
<1>3. l \in 1 .. l /\ l \in j + 1 .. l /\ l >= 2
  BY <1>1
<1>4. \A i \in 1 .. l : p[i] \in Reachable(G, s) /\ Dst(G, s, p[i]) = i - 1
  BY DEF Rising
<1>5. Way(G, p)
  <2>1. IsInjective(p)
    <3>1. \A i, k \in 1 .. l : p[i] = p[k] => i = k
      <4> TAKE i, k \in 1 .. l
      <4>1. Dst(G, s, p[i]) = i - 1 /\ Dst(G, s, p[k]) = k - 1
        BY <1>4
      <4>2. QED
        BY <4>1
    <3>2. DOMAIN p = 1 .. l
      BY <1>1, ElementsAreMembers
    <3>3. QED
      BY <3>1, <3>2 DEF IsInjective
  <2>2. QED
    BY <1>1, <1>3, <2>1 DEF Way, Rising
<1>6. /\ t \in Reachable(G, p[j + 1]) /\ Dst(G, p[j + 1], t) \in Nat
      /\ Dst(G, p[j + 1], t) <= l - (j + 1)
  BY <1>1, <1>3, <1>5, WayNear
<1>7. Dst(G, s, t) <= Dst(G, s, p[j + 1]) + Dst(G, p[j + 1], t)
  <2>1. p[j + 1] \in Reachable(G, s)
    BY <1>1, <1>4
  <2>2. QED
    BY <1>6, <2>1, Triangle
<1>8. Dst(G, s, t) = l - 1 /\ Dst(G, s, p[j + 1]) = j /\ Dst(G, s, p[j]) = j - 1
  <2>1. (j + 1) - 1 = j
    BY <1>1
  <2>2. QED
    BY <1>1, <1>3, <1>4, <2>1
<1>9. Dst(G, s, p[j]) + 1 + Dst(G, p[j + 1], t) = Dst(G, s, t)
  <2> DEFINE x == Dst(G, p[j + 1], t)
  <2>1. x \in Nat /\ x <= l - (j + 1) /\ l - 1 <= j + x
    BY <1>6, <1>7, <1>8
  <2> HIDE DEF x
  <2>2. (j - 1) + 1 + x = l - 1
    BY <1>1, <2>1
  <2>3. QED
    BY <1>8, <2>2 DEF x
<1>10. p[j] \in Reachable(G, s) /\ p[j + 1] \in ToSet(G[p[j]])
  BY <1>1, <1>4 DEF Rising
<1>11. QED
  BY <1>2, <1>6, <1>9, <1>10 DEF OnShortest

\* Where its edges are, its end is linked with the source over as many.
LEMMA TiesLink ==
  ASSUME NEW G \in AllGraphs, NEW s \in Vertices, NEW p, Rising(G, s, p),
         NEW D, D \subseteq SUBSET Vertices, Ties(p) \subseteq D
  PROVE  p[Len(p)] \in Linked(D, s)[Dst(G, s, p[Len(p)])]
<1> DEFINE n == Len(p) - 1
           N == Linked(D, s)
           P == {k \in Nat : p[k + 1] \in N[k]}
<1>1. /\ p \in Seq(Vertices) /\ n \in Nat /\ Len(p) = n + 1 /\ p[1] = s
      /\ \A j \in 1 .. n + 1 : p[j] \in Reachable(G, s) /\ Dst(G, s, p[j]) = j - 1
  BY ElementsAreMembers DEF Rising
<1>2. n <= Size
  <2>1. Len(p) \in 1 .. n + 1 /\ Len(p) - 1 = n
    BY <1>1
  <2>2. p[Len(p)] \in Reachable(G, s) /\ Dst(G, s, p[Len(p)]) = n
    BY <1>1, <2>1
  <2>3. Dst(G, s, p[Len(p)]) \in 0 .. Size
    BY <2>2, Distances
  <2>4. QED
    BY <2>2, <2>3, SizeIsNumber
<1>3. N[0] = {s} /\ \A k \in 1 .. Size : N[k] = N[k - 1] \cup UNION {e \in D : e \cap N[k - 1] # {}}
  <2>1. Links(D, s, N)
    BY LinkedUnfolds
  <2> HIDE DEF N
  <2>2. QED
    BY <2>1 DEF Links
<1> HIDE DEF N
<1>4. 0 \in P
  BY <1>1, <1>3
<1>5. ASSUME NEW k \in 0 .. n - 1, k \in P PROVE k + 1 \in P
  <2>1. k + 1 \in 1 .. Size /\ (k + 1) - 1 = k /\ k + 1 \in 1 .. n /\ k + 1 \in Nat
    BY <1>1, <1>2, SizeIsNumber
  <2>2. {p[k + 1], p[(k + 1) + 1]} \in D
    BY <1>1, <2>1 DEF Ties
  <2>3. p[k + 1] \in N[k]
    BY <1>5
  <2>4. N[k + 1] = N[k] \cup UNION {e \in D : e \cap N[k] # {}}
    BY <1>3, <2>1
  <2>5. QED
    BY <2>1, <2>2, <2>3, <2>4
<1>6. n \in P
  <2>1. n \in 0 .. n
    BY <1>1
  <2> HIDE DEF P, n
  <2>2. QED
    BY <1>1, <1>4, <1>5, <2>1, CountingUp
<1>7. Dst(G, s, p[Len(p)]) = n
  <2>1. Len(p) \in 1 .. n + 1 /\ Len(p) - 1 = n
    BY <1>1
  <2>2. QED
    BY <1>1, <2>1
<1>8. QED
  BY <1>1, <1>6, <1>7 DEF N

\* More edges link no less.
LEMMA LinkedGrows ==
  ASSUME NEW D, NEW C, D \subseteq C, C \subseteq SUBSET Vertices, NEW s \in Vertices,
         NEW n \in 0 .. Size
  PROVE  Linked(D, s)[n] \subseteq Linked(C, s)[n]
<1> DEFINE N == Linked(D, s)
           M == Linked(C, s)
           P == {k \in Nat : N[k] \subseteq M[k]}
<1>1. N[0] = {s} /\ \A k \in 1 .. Size : N[k] = N[k - 1] \cup UNION {e \in D : e \cap N[k - 1] # {}}
  <2>1. Links(D, s, N)
    BY LinkedUnfolds
  <2> HIDE DEF N
  <2>2. QED
    BY <2>1 DEF Links
<1>2. M[0] = {s} /\ \A k \in 1 .. Size : M[k] = M[k - 1] \cup UNION {e \in C : e \cap M[k - 1] # {}}
  <2>1. Links(C, s, M)
    BY LinkedUnfolds
  <2> HIDE DEF M
  <2>2. QED
    BY <2>1 DEF Links
<1> HIDE DEF N, M
<1>3. 0 \in P
  BY <1>1, <1>2
<1>4. ASSUME NEW k \in 0 .. n - 1, k \in P PROVE k + 1 \in P
  <2>1. k + 1 \in 1 .. Size /\ (k + 1) - 1 = k /\ k + 1 \in Nat
    BY SizeIsNumber
  <2>2. /\ N[k + 1] = N[k] \cup UNION {e \in D : e \cap N[k] # {}}
        /\ M[k + 1] = M[k] \cup UNION {e \in C : e \cap M[k] # {}}
    BY <1>1, <1>2, <2>1
  <2>3. N[k] \subseteq M[k]
    BY <1>4
  <2>4. \A e \in D : e \cap N[k] # {} => e \in C /\ e \cap M[k] # {}
    BY <2>3
  <2>5. UNION {e \in D : e \cap N[k] # {}} \subseteq UNION {e \in C : e \cap M[k] # {}}
    BY <2>4
  <2>6. QED
    BY <2>1, <2>2, <2>3, <2>5
<1>5. n \in P
  <2>1. n \in Nat /\ n \in 0 .. n
    BY SizeIsNumber
  <2> HIDE DEF P
  <2>2. QED
    BY <1>3, <1>4, <2>1, CountingUp
<1>6. QED
  BY <1>5 DEF N, M

\* Up is what its equations say.
LEMMA UpUnfolds ==
  ASSUME parent \in [Vertices -> Vertices], NEW t \in Vertices
  PROVE  /\ Up(t)[0] = t
         /\ \A k \in 1 .. Size : Up(t)[k] = parent[Up(t)[k - 1]]
         /\ \A k \in 0 .. Size : Up(t)[k] \in Vertices
<1> DEFINE E(f) == f = [k \in 0 .. Size |-> IF k = 0 THEN t ELSE parent[f[k - 1]]]
<1>1. PICK h \in [Vertices -> Vertices] : h = parent
  OBVIOUS
<1>2. PICK g \in [0 .. Size -> Vertices] : Repeats(g, t, h, Size)
  BY SizeIsNumber, Iterates
<1>3. g[0] = t /\ \A k \in 1 .. Size : g[k] = h[g[k - 1]]
  BY <1>2 DEF Repeats
<1>4. E(g)
  <2>1. \A k \in 0 .. Size : g[k] = IF k = 0 THEN t ELSE h[g[k - 1]]
    BY <1>3, SizeIsNumber
  <2>2. QED
    BY <1>1, <2>1
<1>5. E(Up(t))
  <2>1. Up(t) = CHOOSE f : E(f)
    BY DEF Up, Size
  <2>2. E(CHOOSE f : E(f))
    <3> HIDE DEF E
    <3> QED BY <1>4
  <2>3. QED
    BY <2>1, <2>2
<1> HIDE DEF E
<1>6. PICK f : f = Up(t)
  OBVIOUS
<1>7. f = [k \in 0 .. Size |-> IF k = 0 THEN t ELSE h[f[k - 1]]]
  BY <1>1, <1>5, <1>6 DEF E
<1>8. \A k \in 0 .. Size : f[k] = IF k = 0 THEN t ELSE h[f[k - 1]]
  BY <1>7
<1>9. f[0] = t /\ \A k \in 1 .. Size : f[k] = h[f[k - 1]]
  <2>1. 0 \in 0 .. Size /\ \A k \in 1 .. Size : k \in 0 .. Size /\ k # 0
    BY SizeIsNumber
  <2>2. QED
    BY <1>8, <2>1
<1> DEFINE P == {k \in Nat : f[k] \in Vertices}
<1>10. 0 \in P
  BY <1>9
<1>11. ASSUME NEW k \in 0 .. Size - 1, k \in P PROVE k + 1 \in P
  <2>1. k + 1 \in 1 .. Size /\ (k + 1) - 1 = k /\ k + 1 \in Nat
    BY SizeIsNumber
  <2>2. f[k + 1] = h[f[k]]
    BY <1>9, <2>1
  <2>3. QED
    BY <1>11, <2>1, <2>2
<1>12. \A k \in 0 .. Size : k \in P
  <2> HIDE DEF P
  <2>1. 0 .. Size \subseteq P
    BY <1>10, <1>11, SizeIsNumber, CountingUp
  <2>2. QED
    BY <2>1
<1>13. \A k \in 0 .. Size : f[k] \in Vertices
  BY <1>12
<1>14. QED
  BY <1>1, <1>6, <1>9, <1>13

\* The walk up from a vertex that the search has reached is a shortest path to it, as far as
\* Steps says; from another vertex it does not start.
LEMMA UpIsShortest ==
  ASSUME graph \in AllGraphs, NEW s \in Vertices, Tree(graph, s, Reachable(graph, s), parent),
         NEW t \in Vertices
  PROVE  /\ t \in Reachable(graph, s) =>
              /\ Steps(t) = Dst(graph, s, t) /\ Up(t)[Steps(t)] = s
              /\ \E p : /\ Rising(graph, s, p) /\ p[Len(p)] = t /\ Len(p) = Steps(t) + 1
                        /\ Ties(p) = {{Up(t)[k], Up(t)[k + 1]} : k \in 0 .. Steps(t) - 1}
         /\ t \notin Reachable(graph, s) => Up(t)[Steps(t)] # s
<1>1. PICK G \in AllGraphs : G = graph
  OBVIOUS
<1>2. PICK up : up = Up(t)
  OBVIOUS
<1>3. PICK par : par = parent
  OBVIOUS
<1> DEFINE R == Reachable(G, s)
           d(v) == Dst(G, s, v)
           S == {k \in 0 .. Size : par[up[k]] = up[k]}
<1>4. /\ par \in [Vertices -> Vertices] /\ par[s] = s
      /\ \A v \in Vertices \ R : par[v] = v
      /\ \A v \in R \ {s} : par[v] \in R /\ v \in ToSet(G[par[v]]) /\ d(v) = d(par[v]) + 1
  BY <1>1, <1>3 DEF Tree
<1>5. /\ up[0] = t /\ \A k \in 1 .. Size : up[k] = par[up[k - 1]]
      /\ \A k \in 0 .. Size : up[k] \in Vertices
  BY <1>2, <1>3, <1>4, UpUnfolds
<1>6. Steps(t) = Min(S)
  BY <1>2, <1>3 DEF Steps, Size
<1>7. /\ R \in SUBSET Vertices /\ s \in R
      /\ \A v \in R : d(v) \in 0 .. Size
      /\ \A v \in R : d(v) = 0 <=> v = s
  BY Distances
<1>8. \A n \in S : (\A k \in S : n <= k) => Min(S) = n
  <2> TAKE n \in S
  <2>1. HAVE \A k \in S : n <= k
  <2>2. \A k \in S : k \in Nat
    BY SizeIsNumber
  <2> HIDE DEF S
  <2>3. Min(S) \in S /\ \A k \in S : Min(S) <= k
    BY <2>1 DEF Min
  <2>4. QED
    BY <2>1, <2>2, <2>3
<1> HIDE DEF R, d
<1>9. ASSUME t \notin R PROVE up[Min(S)] # s
  <2>1. 0 \in S /\ \A k \in S : 0 <= k
    BY <1>4, <1>5, <1>9, SizeIsNumber
  <2>2. Min(S) = 0
    <3> HIDE DEF S
    <3> QED BY <1>8, <2>1
  <2>3. QED
    BY <1>5, <1>7, <1>9, <2>2
<1>10. ASSUME t \in R
       PROVE  /\ Min(S) = d(t) /\ up[d(t)] = s
              /\ \E p : /\ Rising(G, s, p) /\ p[Len(p)] = t /\ Len(p) = d(t) + 1
                        /\ Ties(p) = {{up[k], up[k + 1]} : k \in 0 .. d(t) - 1}
  <2> DEFINE n == d(t)
             P == {k \in Nat : up[k] \in R /\ d(up[k]) = n - k}
  <2>1. n \in Nat /\ n <= Size /\ 0 .. n \subseteq 0 .. Size
    BY <1>7, <1>10, SizeIsNumber
  <2>2. 0 \in P
    BY <1>5, <1>10, <2>1
  <2>3. ASSUME NEW k \in 0 .. n - 1, k \in P PROVE k + 1 \in P /\ up[k] \in ToSet(G[up[k + 1]])
    <3>1. k + 1 \in 1 .. Size /\ (k + 1) - 1 = k /\ k + 1 \in Nat
      BY <2>1, SizeIsNumber
    <3>2. up[k + 1] = par[up[k]]
      BY <1>5, <3>1
    <3>3. up[k] \in R /\ d(up[k]) = n - k /\ n - k # 0
      BY <2>1, <2>3
    <3>4. up[k] # s
      BY <1>7, <3>3
    <3>5. up[k + 1] \in R /\ up[k] \in ToSet(G[up[k + 1]]) /\ d(up[k]) = d(up[k + 1]) + 1
      BY <1>4, <3>2, <3>3, <3>4
    <3>6. d(up[k + 1]) \in Nat
      BY <1>7, <3>5, SizeIsNumber
    <3>7. d(up[k + 1]) = n - (k + 1)
      BY <2>1, <3>3, <3>5, <3>6
    <3>8. QED
      BY <3>1, <3>5, <3>7
  <2>4. 0 .. n \subseteq P
    <3> HIDE DEF P, n
    <3> QED BY <2>1, <2>2, <2>3, CountingUp
  <2>5. \A k \in 0 .. n : up[k] \in R /\ d(up[k]) = n - k
    BY <2>4
  <2>6. \A k \in 0 .. n - 1 : up[k] \in ToSet(G[up[k + 1]])
    <3>1. \A k \in 0 .. n - 1 : k \in P
      BY <2>1, <2>4
    <3>2. QED
      BY <2>3, <3>1
  <2> HIDE DEF P
  <2>7. up[n] = s
    <3>1. n \in 0 .. n /\ n - n = 0
      BY <2>1
    <3>2. up[n] \in R /\ d(up[n]) = 0
      BY <2>5, <3>1
    <3>3. QED
      BY <1>7, <3>2
  <2>8. Min(S) = n
    <3>1. n \in S
      BY <1>4, <2>1, <2>7
    <3>2. ASSUME NEW k \in S PROVE n <= k
      <4>1. SUFFICES ASSUME k < n PROVE FALSE
        BY <2>1, SizeIsNumber
      <4>2. k \in 0 .. n /\ n - k # 0
        BY <2>1, <4>1, SizeIsNumber
      <4>3. up[k] \in R /\ d(up[k]) = n - k
        BY <2>5, <4>2
      <4>4. up[k] # s
        BY <1>7, <4>2, <4>3
      <4>5. d(up[k]) = d(par[up[k]]) + 1 /\ par[up[k]] = up[k]
        BY <1>4, <4>3, <4>4
      <4>6. d(up[k]) \in Nat
        BY <1>7, <4>3, SizeIsNumber
      <4>7. QED
        BY <4>5, <4>6
    <3> HIDE DEF S, n
    <3>3. QED
      BY <1>8, <3>1, <3>2
  <2> DEFINE p == [i \in 1 .. n + 1 |-> up[(n + 1) - i]]
  <2>9. \A i \in 1 .. n + 1 : (n + 1) - i \in 0 .. n
    BY <2>1
  <2>10. /\ p \in Seq(Vertices) /\ Len(p) = n + 1
         /\ \A i \in 1 .. n + 1 : p[i] = up[(n + 1) - i]
    <3>1. \A i \in 1 .. n + 1 : up[(n + 1) - i] \in Vertices
      BY <1>7, <2>5, <2>9
    <3>2. n + 1 \in Nat
      BY <2>1
    <3> HIDE DEF n
    <3>3. QED
      BY <3>1, <3>2
  <2> HIDE DEF p, n
  <2>11. p[1] = s /\ p[n + 1] = t
    <3>1. 1 \in 1 .. n + 1 /\ n + 1 \in 1 .. n + 1 /\ (n + 1) - 1 = n /\ (n + 1) - (n + 1) = 0
      BY <2>1
    <3>2. QED
      BY <1>5, <2>7, <2>10, <3>1
  <2>12. ASSUME NEW j \in 1 .. n PROVE p[j + 1] = up[n - j] /\ p[j] = up[(n - j) + 1] /\ n - j \in 0 .. n - 1
    <3>1. j \in 1 .. n + 1 /\ j + 1 \in 1 .. n + 1 /\ (n + 1) - (j + 1) = n - j
          /\ (n + 1) - j = (n - j) + 1 /\ n - j \in 0 .. n - 1
      BY <2>1
    <3>2. QED
      BY <2>10, <3>1
  <2>13. Rising(G, s, p)
    <3>1. \A j \in 1 .. n : p[j + 1] \in ToSet(G[p[j]])
      BY <2>6, <2>12
    <3>2. ASSUME NEW j \in 1 .. n + 1 PROVE p[j] \in R /\ d(p[j]) = j - 1
      <4>1. p[j] = up[(n + 1) - j] /\ d(up[(n + 1) - j]) = n - ((n + 1) - j) /\ up[(n + 1) - j] \in R
        BY <2>5, <2>9, <2>10
      <4>2. n - ((n + 1) - j) = j - 1
        BY <2>1
      <4>3. QED
        BY <4>1, <4>2
    <3>3. Len(p) - 1 = n /\ Len(p) >= 1
      BY <2>1, <2>10
    <3>4. QED
      BY <2>10, <2>11, <3>1, <3>2, <3>3 DEF Rising, R, d
  <2>14. Ties(p) = {{up[k], up[k + 1]} : k \in 0 .. n - 1}
    <3>1. Len(p) - 1 = n
      BY <2>1, <2>10
    <3>2. \A j \in 1 .. n : \E k \in 0 .. n - 1 : {p[j], p[j + 1]} = {up[k], up[k + 1]}
      BY <2>12
    <3>3. \A k \in 0 .. n - 1 : \E j \in 1 .. n : {p[j], p[j + 1]} = {up[k], up[k + 1]}
      <4> TAKE k \in 0 .. n - 1
      <4>1. n - k \in 1 .. n /\ n - (n - k) = k
        BY <2>1
      <4>2. QED
        BY <2>12, <4>1
    <3>4. Ties(p) = {{p[j], p[j + 1]} : j \in 1 .. n}
      BY <3>1 DEF Ties
    <3>5. Ties(p) \subseteq {{up[k], up[k + 1]} : k \in 0 .. n - 1}
      BY <3>2, <3>4
    <3>6. {{up[k], up[k + 1]} : k \in 0 .. n - 1} \subseteq Ties(p)
      BY <3>3, <3>4
    <3>7. QED
      BY <3>5, <3>6
  <2>15. QED
    BY <2>7, <2>8, <2>10, <2>11, <2>13, <2>14 DEF n
<1> HIDE DEF S
<1>11. QED
  <2> SUFFICES /\ t \in R => /\ Steps(t) = d(t) /\ up[Steps(t)] = s
                             /\ \E p : /\ Rising(G, s, p) /\ p[Len(p)] = t /\ Len(p) = Steps(t) + 1
                                       /\ Ties(p) = {{up[k], up[k + 1]} : k \in 0 .. Steps(t) - 1}
               /\ t \notin R => up[Steps(t)] # s
    BY <1>1, <1>2, Zenon DEF R, d
  <2>1. ASSUME t \in R
        PROVE  /\ Steps(t) = d(t) /\ up[Steps(t)] = s
               /\ \E p : /\ Rising(G, s, p) /\ p[Len(p)] = t /\ Len(p) = Steps(t) + 1
                         /\ Ties(p) = {{up[k], up[k + 1]} : k \in 0 .. Steps(t) - 1}
    <3>1. PICK n : n = Steps(t)
      OBVIOUS
    <3>2. n = d(t) /\ up[n] = s
      BY <1>6, <1>10, <2>1, <3>1
    <3>3. \E p : /\ Rising(G, s, p) /\ p[Len(p)] = t /\ Len(p) = n + 1
                 /\ Ties(p) = {{up[k], up[k + 1]} : k \in 0 .. n - 1}
      BY <1>10, <2>1, <3>2
    <3>4. QED
      BY <3>1, <3>2, <3>3
  <2>2. t \notin R => up[Steps(t)] # s
    BY <1>6, <1>9
  <2>3. QED
    BY <2>1, <2>2

-----------------------------------------------------------------------------
(* The targets of a search: all senses of the later words, in their order. *)

\* The pairs of a word's position, after b, and one of its elements.
Entries(ss, m, b) ==
  {p \in Nat \X UNION {ToSet(ss[i]) : i \in DOMAIN ss} :
     p[1] - b \in 1 .. m /\ p[2] \in ToSet(ss[p[1] - b])}

\* A list of pairs, each of them once, with the elements of q in their order.
Listing(L, q, P) ==
  /\ L \in Seq(P) /\ IsInjective(L) /\ ToSet(L) = P /\ Len(L) = Len(q)
  /\ \A k \in 1 .. Len(q) : q[k] = L[k][2]

\* A longer list: the pairs of one more word.
LEMMA ListingGrows ==
  ASSUME NEW V, NEW ss \in Seq(Seq(V)), \A i \in 1 .. Len(ss) : IsInjective(ss[i]), NEW b \in Nat,
         NEW m \in Nat, m + 1 \in 1 .. Len(ss), NEW q \in Seq(V), NEW L, Listing(L, q, Entries(ss, m, b))
  PROVE  \E M : Listing(M, q \o ss[m + 1], Entries(ss, m + 1, b))
<1> DEFINE w == ss[m + 1]
           j == b + (m + 1)
           A == Entries(ss, m, b)
           B == Entries(ss, m + 1, b)
           N == [k \in 1 .. Len(w) |-> <<j, w[k]>>]
           U == UNION {ToSet(ss[i]) : i \in DOMAIN ss}
<1>1. /\ w \in Seq(V) /\ Len(w) \in Nat /\ DOMAIN w = 1 .. Len(w) /\ DOMAIN ss = 1 .. Len(ss)
      /\ IsInjective(w) /\ Len(q) \in Nat
  BY ElementsAreMembers
<1>2. ToSet(w) \subseteq U
  BY <1>1
<1>3. j \in Nat /\ j - b = m + 1 /\ m + 1 \in 1 .. m + 1
  OBVIOUS
<1>4. \A k \in 1 .. Len(w) : <<j, w[k]>> \in B /\ w[k] \in ToSet(w)
  <2> TAKE k \in 1 .. Len(w)
  <2>1. w[k] \in ToSet(w) /\ w[k] \in U
    BY <1>1, <1>2 DEF ToSet
  <2> HIDE DEF j, U
  <2>2. <<j, w[k]>> \in Nat \X U
    BY <1>3, <2>1
  <2>3. QED
    BY <1>3, <2>1, <2>2 DEF Entries, U
<1>5. A \subseteq B
  <2>1. 1 .. m \subseteq 1 .. m + 1
    OBVIOUS
  <2>2. QED
    BY <2>1 DEF Entries
<1>6. \A p \in B : p \in A \/ \E k \in 1 .. Len(w) : p = <<j, w[k]>>
  <2> TAKE p \in B
  <2>1. p \in Nat \X U /\ p[1] - b \in 1 .. m + 1 /\ p[2] \in ToSet(ss[p[1] - b])
    BY DEF Entries
  <2>2. CASE p[1] - b \in 1 .. m
    BY <2>1, <2>2 DEF Entries
  <2>3. CASE p[1] - b \notin 1 .. m
    <3>1. p[1] \in Nat /\ p = <<p[1], p[2]>>
      BY <2>1
    <3>2. p[1] = j /\ p[1] - b = m + 1
      <4>1. \A x \in Nat : x - b \in 1 .. m + 1 /\ x - b \notin 1 .. m => x = j /\ x - b = m + 1
        OBVIOUS
      <4>2. QED
        BY <2>1, <2>3, <3>1, <4>1
    <3>3. p[2] \in ToSet(w)
      BY <2>1, <3>2
    <3>4. PICK k \in 1 .. Len(w) : p[2] = w[k]
      BY <1>1, <3>3 DEF ToSet
    <3>5. QED
      BY <3>1, <3>2, <3>4
  <2>4. QED
    BY <2>2, <2>3
<1>7. \A p \in A : p[1] # j
  <2> TAKE p \in A
  <2>1. p[1] - b \in 1 .. m
    BY DEF Entries
  <2>2. j - b \notin 1 .. m
    BY <1>3
  <2>3. QED
    BY <2>1, <2>2
<1>8. N \in Seq(B) /\ Len(N) = Len(w) /\ \A k \in 1 .. Len(w) : N[k] = <<j, w[k]>>
  <2> HIDE DEF B, j, w
  <2> QED BY <1>1, <1>4
<1> HIDE DEF N, j, A, B
<1>9. L \in Seq(A) /\ L \in Seq(B) /\ Len(L) = Len(q) /\ ToSet(L) = A /\ IsInjective(L)
      /\ \A k \in 1 .. Len(q) : q[k] = L[k][2]
  <2>1. L \in Seq(A) /\ Len(L) = Len(q) /\ ToSet(L) = A /\ IsInjective(L)
        /\ \A k \in 1 .. Len(q) : q[k] = L[k][2]
    BY DEF Listing, A
  <2>2. L \in Seq(B)
    BY <1>5, <2>1
  <2>3. QED
    BY <2>1, <2>2
<1> DEFINE M == L \o N
           z == q \o w
           l == Len(L)
           n == Len(N)
<1>10. /\ M \in Seq(B) /\ Len(M) = l + n /\ DOMAIN M = 1 .. l + n /\ l \in Nat /\ n \in Nat
       /\ \A i \in 1 .. l : M[i] = L[i]
       /\ \A i \in 1 .. n : M[l + i] = N[i] /\ l + i \in 1 .. l + n
       /\ \A i \in 1 .. l + n : i \in 1 .. l \/ \E k \in 1 .. n : i = l + k
       /\ ToSet(M) = ToSet(L) \cup ToSet(N)
  <2>1. L \in Seq(B) /\ N \in Seq(B)
    BY <1>8, <1>9
  <2>2. /\ M \in Seq(B) /\ Len(M) = Len(L) + Len(N) /\ DOMAIN M = 1 .. Len(L) + Len(N)
        /\ Len(L) \in Nat /\ Len(N) \in Nat
        /\ \A i \in 1 .. Len(L) : M[i] = L[i]
        /\ \A i \in 1 .. Len(N) : M[Len(L) + i] = N[i] /\ Len(L) + i \in 1 .. Len(L) + Len(N)
        /\ \A i \in 1 .. Len(L) + Len(N) : i \in 1 .. Len(L) \/ \E k \in 1 .. Len(N) : i = Len(L) + k
        /\ ToSet(M) = ToSet(L) \cup ToSet(N)
    <3>1. \A a, c \in Seq(B) :
            /\ a \o c \in Seq(B) /\ Len(a \o c) = Len(a) + Len(c)
            /\ DOMAIN (a \o c) = 1 .. Len(a) + Len(c)
            /\ Len(a) \in Nat /\ Len(c) \in Nat
            /\ \A i \in 1 .. Len(a) : (a \o c)[i] = a[i]
            /\ \A i \in 1 .. Len(c) : (a \o c)[Len(a) + i] = c[i] /\ Len(a) + i \in 1 .. Len(a) + Len(c)
            /\ \A i \in 1 .. Len(a) + Len(c) : i \in 1 .. Len(a) \/ \E k \in 1 .. Len(c) : i = Len(a) + k
            /\ ToSet(a \o c) = ToSet(a) \cup ToSet(c)
      BY Concatenated
    <3>2. QED
      BY <2>1, <3>1
  <2>3. QED
    BY <2>2
<1>11. /\ Len(z) = l + n
       /\ \A i \in 1 .. l : z[i] = q[i]
       /\ \A i \in 1 .. n : z[l + i] = w[i]
  <2> HIDE DEF w
  <2>1. /\ Len(z) = Len(q) + Len(w)
        /\ \A i \in 1 .. Len(q) : z[i] = q[i]
        /\ \A i \in 1 .. Len(w) : z[Len(q) + i] = w[i]
    BY <1>1, Concatenated
  <2> HIDE DEF z
  <2>2. QED
    BY <1>8, <1>9, <2>1
<1> HIDE DEF M, z, l, n, w
<1>12. \A i \in 1 .. l : L[i] \in A
  BY <1>9 DEF l
<1>13. \A i \in 1 .. n : N[i] = <<j, w[i]>> /\ i \in DOMAIN w
  BY <1>1, <1>8 DEF n
<1>14. ToSet(M) = B
  <2>1. \A p \in B : p \in A \/ p \in ToSet(N)
    <3>1. DOMAIN N = 1 .. n
      BY <1>8, ElementsAreMembers DEF n
    <3>2. \A i \in 1 .. n : N[i] \in ToSet(N)
      BY <3>1 DEF ToSet
    <3>3. QED
      BY <1>6, <1>8, <3>2 DEF n
  <2>2. ToSet(M) \subseteq B
    BY <1>10, ElementsAreMembers
  <2>3. QED
    BY <1>9, <1>10, <2>1, <2>2
<1>15. IsInjective(M)
  <2>1. \A i, k \in 1 .. l : M[i] = M[k] => i = k
    <3>1. DOMAIN L = 1 .. l
      BY <1>9, ElementsAreMembers DEF l
    <3>2. \A i, k \in 1 .. l : L[i] = L[k] => i = k
      BY <1>9, <3>1 DEF IsInjective
    <3>3. QED
      BY <1>10, <3>2
  <2>2. \A i, k \in 1 .. n : M[l + i] = M[l + k] => i = k
    <3>1. \A i, k \in 1 .. n : w[i] = w[k] => i = k
      BY <1>1, <1>13 DEF IsInjective
    <3> TAKE i, k \in 1 .. n
    <3>2. M[l + i] = <<j, w[i]>> /\ M[l + k] = <<j, w[k]>>
      BY <1>10, <1>13
    <3>3. QED
      BY <3>1, <3>2
  <2>3. \A i \in 1 .. l, k \in 1 .. n : M[i] # M[l + k]
    <3> TAKE i \in 1 .. l, k \in 1 .. n
    <3>1. M[i] \in A /\ M[l + k] = <<j, w[k]>>
      BY <1>10, <1>12, <1>13
    <3>2. QED
      BY <1>7, <3>1
  <2>4. ASSUME NEW i \in 1 .. l + n, NEW k \in 1 .. l + n, M[i] = M[k] PROVE i = k
    <3>1. (i \in 1 .. l \/ \E a \in 1 .. n : i = l + a) /\ (k \in 1 .. l \/ \E c \in 1 .. n : k = l + c)
      BY <1>10
    <3>2. CASE i \in 1 .. l /\ k \in 1 .. l
      BY <2>1, <2>4, <3>2
    <3>3. ASSUME i \in 1 .. l, NEW c \in 1 .. n, k = l + c PROVE FALSE
      BY <2>3, <2>4, <3>3
    <3>4. ASSUME k \in 1 .. l, NEW a \in 1 .. n, i = l + a PROVE FALSE
      BY <2>3, <2>4, <3>4
    <3>5. ASSUME NEW a \in 1 .. n, i = l + a, NEW c \in 1 .. n, k = l + c PROVE i = k
      BY <2>2, <2>4, <3>5
    <3>6. QED
      BY <3>1, <3>2, <3>3, <3>4, <3>5
  <2>5. QED
    BY <1>10, <2>4 DEF IsInjective
<1>16. \A k \in 1 .. l + n : z[k] = M[k][2]
  <2>1. \A k \in 1 .. l : z[k] = M[k][2]
    BY <1>9, <1>10, <1>11 DEF l
  <2>2. ASSUME NEW k \in 1 .. n PROVE z[l + k] = M[l + k][2]
    <3>1. z[l + k] = w[k] /\ M[l + k] = <<j, w[k]>>
      BY <1>10, <1>11, <1>13
    <3>2. QED
      BY <3>1
  <2>3. ASSUME NEW k \in 1 .. l + n PROVE z[k] = M[k][2]
    <3>1. k \in 1 .. l \/ \E c \in 1 .. n : k = l + c
      BY <1>10
    <3>2. QED
      BY <2>1, <2>2, <3>1
  <2>4. QED
    BY <2>3
<1>17. Listing(M, z, B)
  BY <1>10, <1>11, <1>14, <1>15, <1>16 DEF Listing
<1>18. QED
  BY <1>17 DEF z, B, w

\* A sequence of words without repetitions, one after the other, has such a list.
LEMMA FlattenLists ==
  ASSUME NEW V, NEW ss \in Seq(Seq(V)), \A i \in 1 .. Len(ss) : IsInjective(ss[i]), NEW b \in Nat
  PROVE  /\ FlattenSeq(ss) \in Seq(V)
         /\ \E L : Listing(L, FlattenSeq(ss), Entries(ss, Len(ss), b))
<1>1. Len(ss) \in Nat /\ \A i \in 1 .. Len(ss) : ss[i] \in Seq(V)
  BY ElementsAreMembers
<1>2. Listing(<<>>, <<>>, Entries(ss, 0, b))
  <2>1. Entries(ss, 0, b) = {}
    BY DEF Entries
  <2>2. <<>> \in Seq({}) /\ ToSet(<<>>) = {} /\ Len(<<>>) = 0 /\ IsInjective(<<>>)
    BY DEF ToSet, IsInjective
  <2>3. \A k \in 1 .. 0 : FALSE
    OBVIOUS
  <2> DEFINE e == <<>>
  <2>4. e \in Seq({}) /\ ToSet(e) = {} /\ Len(e) = 0 /\ IsInjective(e)
    BY <2>2
  <2> HIDE DEF e
  <2>5. Listing(e, e, Entries(ss, 0, b))
    BY <2>1, <2>3, <2>4 DEF Listing
  <2>6. QED
    BY <2>5 DEF e
<1>3. CASE ss = <<>>
  <2>1. FlattenSeq(ss) = <<>> /\ Len(ss) = 0
    BY <1>3 DEF FlattenSeq
  <2>2. QED
    BY <1>2, <2>1
<1>4. CASE ss # <<>>
  <2>1. PICK f : /\ FlattenSeq(ss) = f[Len(ss)] /\ f[1] = ss[1]
                 /\ \A i \in 2 .. Len(ss) : f[i] = f[i - 1] \o ss[i]
    BY <1>4, FlattenUnfolds
  <2> DEFINE n == Len(ss)
             Good(m) == f[m] \in Seq(V) /\ \E L : Listing(L, f[m], Entries(ss, m, b))
             P == {m \in Nat : Good(m + 1)}
  <2>2. n \in Nat /\ n >= 1
    BY <1>1, <1>4, ElementsAreMembers
  <2>3. 0 \in P
    <3>1. 0 + 1 = 1 /\ 1 \in 1 .. n
      BY <2>2
    <3>2. ss[1] \in Seq(V)
      BY <1>1, <3>1
    <3>3. <<>> \o ss[1] = ss[1] /\ <<>> \in Seq(V)
      BY <3>2
    <3>4. \E L : Listing(L, <<>> \o ss[0 + 1], Entries(ss, 0 + 1, b))
      BY <1>2, <3>1, <3>3, ListingGrows
    <3>5. \E L : Listing(L, f[1], Entries(ss, 1, b))
      BY <2>1, <3>1, <3>3, <3>4
    <3>6. QED
      BY <2>1, <3>1, <3>2, <3>5
  <2>4. ASSUME NEW m \in 0 .. (n - 1) - 1, m \in P PROVE m + 1 \in P
    <3>1. /\ m + 1 \in Nat /\ (m + 1) + 1 \in 2 .. n /\ (m + 1) + 1 \in 1 .. n
          /\ ((m + 1) + 1) - 1 = m + 1
      BY <2>2
    <3>2. Good(m + 1)
      BY <2>4
    <3>3. f[(m + 1) + 1] = f[m + 1] \o ss[(m + 1) + 1]
      BY <2>1, <3>1
    <3>4. f[(m + 1) + 1] \in Seq(V)
      BY <1>1, <3>1, <3>2, <3>3, ConcatProperties
    <3>5. \E L : Listing(L, f[m + 1] \o ss[(m + 1) + 1], Entries(ss, (m + 1) + 1, b))
      BY <3>1, <3>2, ListingGrows
    <3>6. QED
      BY <3>1, <3>3, <3>4, <3>5
  <2>5. n - 1 \in P
    <3>1. n - 1 \in Nat /\ n - 1 \in 0 .. n - 1
      BY <2>2
    <3> HIDE DEF P, n
    <3>2. QED
      BY <2>3, <2>4, <3>1, CountingUp
  <2>6. (n - 1) + 1 = n
    BY <2>2
  <2>7. Good(n)
    BY <2>5, <2>6
  <2>8. QED
    BY <2>1, <2>7
<1>5. QED
  BY <1>3, <1>4
-----------------------------------------------------------------------------
(* What the breadth first subgraph has come to.                            *)

\* The paths that are to be drawn: a word, a sense of it, a later word and a sense of that one
\* which the first sense reaches.
Routes(G, ws) ==
  {q \in (DOMAIN ws) \X Vertices \X (DOMAIN ws) \X Vertices :
     /\ q[1] < q[3] /\ q[2] \in ToSet(ws[q[1]]) /\ q[4] \in ToSet(ws[q[3]])
     /\ q[4] \in Reachable(G, q[2])}

Value(G, q) == Dst(G, q[2], q[4]) * (Unit \div (Dst(G, q[2], q[4]) + 1))

Values(G, ws) == [q \in Routes(G, ws) |-> Value(G, q)]

\* Sums of values; there are such functions.
Adding(G, ws, g) == SumsUp(g, Values(G, ws), Routes(G, ws))

\* A subgraph that has the paths of D, nothing else, and weighs what they are worth.
Carried(G, ws, d, D) ==
  /\ d = [V |-> d.V, w |-> d.w]
  /\ DOMAIN d.w \subseteq SUBSET Vertices /\ d.w \in [DOMAIN d.w -> Nat]
  /\ \A q \in D : q[4] \in Linked(DOMAIN d.w, q[2])[Dst(G, q[2], q[4])]
  /\ \A e \in DOMAIN d.w : \E q \in D : OnShortest(G, q[2], q[4], e)
  /\ \E g : Adding(G, ws, g) /\ Total(d.w, DOMAIN d.w) = g[D]

\* The paths of the words before a word, and of its senses before a sense.
Before(G, ws, i, k) ==
  {q \in Routes(G, ws) : q[1] < i \/ (q[1] = i /\ \E m \in 1 .. k - 1 : ws[i][m] = q[2])}

\* And those of that sense, but for the ends in X.
Under(G, ws, i, k, X) ==
  Before(G, ws, i, k) \cup
    {q \in Routes(G, ws) : q[1] = i /\ q[2] = ws[i][k] /\ <<q[3], q[4]>> \notin X}

\* The ends after a word.
LaterOf(ws, i) == Entries(SubSeq(ws, i + 1, Len(ws)), Len(ws) - i, i)

\* Words in which no sense is twice.
Plain(ws) == ws \in Seq(Seq(Vertices)) /\ \A i \in 1 .. Len(ws) : IsInjective(ws[i])

\* A route, taken apart.
LEMMA RouteParts ==
  ASSUME NEW G \in AllGraphs, NEW ws, Plain(ws), NEW q \in Routes(G, ws)
  PROVE  /\ q = <<q[1], q[2], q[3], q[4]>>
         /\ q[1] \in 1 .. Len(ws) /\ q[3] \in 1 .. Len(ws) /\ q[1] < q[3]
         /\ q[2] \in Vertices /\ q[4] \in Vertices
         /\ q[2] \in ToSet(ws[q[1]]) /\ q[4] \in ToSet(ws[q[3]])
         /\ q[4] \in Reachable(G, q[2]) /\ Dst(G, q[2], q[4]) \in 0 .. Size
<1>1. DOMAIN ws = 1 .. Len(ws)
  BY DEF Plain
<1>2. /\ q \in (DOMAIN ws) \X Vertices \X (DOMAIN ws) \X Vertices
      /\ q[1] < q[3] /\ q[2] \in ToSet(ws[q[1]]) /\ q[4] \in ToSet(ws[q[3]])
      /\ q[4] \in Reachable(G, q[2])
  BY DEF Routes
<1>3. q[2] \in Vertices
  BY <1>2
<1>4. Dst(G, q[2], q[4]) \in 0 .. Size
  BY <1>2, <1>3, DstIsLeast
<1>5. QED
  BY <1>1, <1>2, <1>4

\* There is a finite number of routes, each of some value.
LEMMA RoutesFinite ==
  ASSUME NEW G \in AllGraphs, NEW ws, Plain(ws)
  PROVE  /\ IsFiniteSet(Routes(G, ws)) /\ Values(G, ws) \in [Routes(G, ws) -> Nat]
         /\ \E g : Adding(G, ws, g)
<1> DEFINE A == DOMAIN ws
            S == (A \X Vertices) \X (A \X Vertices)
            T == A \X Vertices \X A \X Vertices
            f == [x \in S |-> <<x[1][1], x[1][2], x[2][1], x[2][2]>>]
<1>1. IsFiniteSet(A) /\ IsFiniteSet(Vertices)
  <2>1. A = 1 .. Len(ws) /\ Len(ws) \in Nat
    BY DEF Plain
  <2>2. QED
    BY <2>1, FS_Interval, KbSearchAssumption
<1> HIDE DEF A
<1>2. IsFiniteSet(S)
  <2>1. IsFiniteSet(A \X Vertices)
    BY <1>1, FS_Product
  <2>2. QED
    BY <2>1, FS_Product
<1>3. f \in Surjection(S, T)
  <2>1. f \in [S -> T]
    OBVIOUS
  <2>2. \A y \in T : \E x \in S : f[x] = y
    <3> TAKE y \in T
    <3> DEFINE x == <<<<y[1], y[2]>>, <<y[3], y[4]>>>>
    <3>1. x \in S
      OBVIOUS
    <3>2. f[x] = <<y[1], y[2], y[3], y[4]>>
      BY <3>1
    <3>3. QED
      BY <3>1, <3>2
  <2>3. QED
    BY <2>1, <2>2 DEF Surjection
<1>4. IsFiniteSet(T)
  BY <1>2, <1>3, FS_Surjection
<1>5. Routes(G, ws) \in SUBSET T
  BY DEF Routes, A
<1>6. IsFiniteSet(Routes(G, ws))
  BY <1>4, <1>5, FS_Subset
<1>7. Values(G, ws) \in [Routes(G, ws) -> Nat]
  <2>1. \A q \in Routes(G, ws) : Value(G, q) \in Nat
    <3> TAKE q \in Routes(G, ws)
    <3>1. PICK n \in Nat : n = Dst(G, q[2], q[4])
      BY RouteParts, SizeIsNumber
    <3>2. Unit \in Nat
      BY DisambGraphAssumption
    <3>3. Unit \div (n + 1) \in Nat
      BY <3>2
    <3>4. n * (Unit \div (n + 1)) \in Nat
      BY <3>3
    <3>5. QED
      BY <3>1, <3>4 DEF Value
  <2>2. QED
    BY <2>1 DEF Values
<1>8. \E g : Adding(G, ws, g)
  <2> DEFINE R == Routes(G, ws)
             F == Values(G, ws)
  <2> HIDE DEF R, F
  <2>1. IsFiniteSet(R) /\ F \in [R -> Nat]
    BY <1>6, <1>7 DEF R, F
  <2>2. PICK g : PicksOne(g, F, R)
    BY <2>1, SumExists
  <2>3. SumsUp(g, F, R)
    BY <2>1, <2>2, SumsInAnyOrder
  <2>4. QED
    BY <2>3 DEF Adding, R, F
<1>9. QED
  BY <1>6, <1>7, <1>8

\* At first there is nothing.
LEMMA NothingCarried ==
  ASSUME NEW G \in AllGraphs, NEW ws, Plain(ws)
  PROVE  Carried(G, ws, [V |-> {}, w |-> <<>>], {})
<1> DEFINE d == [V |-> {}, w |-> <<>>]
<1>1. d = [V |-> d.V, w |-> d.w] /\ d.w = <<>> /\ DOMAIN d.w = {} /\ d.w \in [DOMAIN d.w -> Nat]
  OBVIOUS
<1>2. PICK g : Adding(G, ws, g)
  BY RoutesFinite
<1>3. g[{}] = 0
  BY <1>2 DEF Adding, SumsUp
<1>4. Total(d.w, {}) = 0
  <2> DEFINE T == {}
             F == [x \in T |-> 0]
             h == [A \in SUBSET T |-> 0]
  <2>1. SumsUp(h, F, T)
    BY DEF SumsUp
  <2>2. IsFiniteSet(T) /\ F \in [T -> Nat] /\ {} \in SUBSET T /\ h[{}] = 0
    BY FS_EmptySet
  <2>3. F = d.w
    BY <1>1
  <2> HIDE DEF F, h, T
  <2>4. Total(F, {}) = 0
    BY <2>1, <2>2, TotalIsSum
  <2>5. QED
    BY <2>3, <2>4
<1> HIDE DEF d
<1>5. Carried(G, ws, d, {})
  BY <1>1, <1>2, <1>3, <1>4 DEF Carried
<1>6. QED
  BY <1>5 DEF d

\* The edges of one more path, and the number of its vertices that its weight is one over.
LEMMA PathCarried ==
  ASSUME NEW G \in AllGraphs, NEW ws, Plain(ws), NEW d, NEW D, D \subseteq Routes(G, ws),
         Carried(G, ws, d, D), NEW q \in Routes(G, ws), q \notin D,
         NEW p, Rising(G, q[2], p), p[Len(p)] = q[4]
  PROVE  Carried(G, ws, AddEdges(d, Ties(p), Unit \div Len(p)), D \cup {q})
<1> DEFINE s == q[2]
           es == Ties(p)
           x == Unit \div Len(p)
           c == AddEdges(d, es, x)
           W == DOMAIN d.w
<1>1. s \in Vertices /\ q[4] \in Vertices /\ q[4] \in Reachable(G, s) /\ Dst(G, s, q[4]) \in 0 .. Size
  BY RouteParts
<1>2. /\ Len(p) - 1 \in Nat /\ es \subseteq SUBSET Vertices /\ IsFiniteSet(es)
      /\ Cardinality(es) = Len(p) - 1
  BY <1>1, TiesCounted
<1>3. Dst(G, s, q[4]) = Len(p) - 1 /\ Len(p) \in Nat \ {0}
  <2>1. Len(p) \in Nat /\ Len(p) >= 1
    BY DEF Rising
  <2>2. Len(p) \in 1 .. Len(p)
    BY <2>1
  <2>3. QED
    BY <2>1, <2>2 DEF Rising
<1>4. x \in Nat
  <2>1. Unit \in Nat
    BY DisambGraphAssumption
  <2>2. \A n \in Nat \ {0} : Unit \div n \in Nat
    BY <2>1
  <2>3. QED
    BY <1>3, <2>2
<1>5. W \subseteq SUBSET Vertices /\ d.w \in [W -> Nat] /\ IsFiniteSet(W)
  <2>1. W \in SUBSET SUBSET Vertices
    BY DEF Carried
  <2>2. IsFiniteSet(SUBSET Vertices)
    BY KbSearchAssumption, FS_SUBSET
  <2>3. IsFiniteSet(W)
    BY <2>1, <2>2, FS_Subset
  <2>4. QED
    BY <2>1, <2>3 DEF Carried
<1> HIDE DEF es, x
<1>6. /\ c = [V |-> c.V, w |-> c.w] /\ DOMAIN c.w = W \cup es
      /\ Raised(c.w, d.w, W, es, x)
  BY DEF AddEdges, Raised
<1> HIDE DEF c, W
<1>7. /\ c.w \in [W \cup es -> Nat]
      /\ Total(c.w, W \cup es) = Total(d.w, W) + Cardinality(es) * x
  <2> DEFINE f == c.w
             w == d.w
  <2>1. w \in [W -> Nat] /\ Raised(f, w, W, es, x)
    BY <1>5, <1>6
  <2> HIDE DEF f, w
  <2>2. IsFiniteSet(W) /\ IsFiniteSet(es)
    BY <1>2, <1>5
  <2>3. f \in [W \cup es -> Nat]
    BY <1>4, <2>1, <2>2, SumGrows
  <2>4. Total(f, W \cup es) = Total(w, W) + Cardinality(es) * x
    BY <1>4, <2>1, <2>2, SumGrows
  <2>5. QED
    BY <2>3, <2>4 DEF f, w
<1>8. \A r \in D \cup {q} : r[4] \in Linked(W \cup es, r[2])[Dst(G, r[2], r[4])]
  <2>1. ASSUME NEW r \in D
        PROVE  r[4] \in Linked(W \cup es, r[2])[Dst(G, r[2], r[4])]
    <3>1. r[2] \in Vertices /\ Dst(G, r[2], r[4]) \in 0 .. Size
      BY RouteParts
    <3>2. r[4] \in Linked(W, r[2])[Dst(G, r[2], r[4])]
      BY DEF Carried, W
    <3>3. W \subseteq W \cup es /\ W \cup es \subseteq SUBSET Vertices
      BY <1>2, <1>5
    <3>4. Linked(W, r[2])[Dst(G, r[2], r[4])] \subseteq Linked(W \cup es, r[2])[Dst(G, r[2], r[4])]
      BY <3>1, <3>3, LinkedGrows
    <3>5. QED
      BY <3>2, <3>4
  <2>2. q[4] \in Linked(W \cup es, s)[Dst(G, s, q[4])]
    <3>1. W \cup es \subseteq SUBSET Vertices /\ Ties(p) \subseteq W \cup es
      BY <1>2, <1>5 DEF es
    <3>2. p[Len(p)] \in Linked(W \cup es, s)[Dst(G, s, p[Len(p)])]
      BY <1>1, <3>1, TiesLink
    <3>3. QED
      BY <3>2
  <2>3. QED
    BY <2>1, <2>2
<1>9. \A e \in W \cup es : \E r \in D \cup {q} : OnShortest(G, r[2], r[4], e)
  <2>1. ASSUME NEW e \in es PROVE OnShortest(G, q[2], q[4], e)
    <3>1. OnShortest(G, s, p[Len(p)], e)
      BY <1>1, TiesAreShortest DEF es
    <3>2. QED
      BY <3>1
  <2>2. \A e \in W : \E r \in D : OnShortest(G, r[2], r[4], e)
    BY DEF Carried, W
  <2>3. QED
    BY <2>1, <2>2
<1>10. PICK g : Adding(G, ws, g) /\ Total(d.w, W) = g[D]
  BY DEF Carried, W
<1>11. g[D \cup {q}] = Value(G, q) + g[D]
  <2> DEFINE R == Routes(G, ws)
             F == Values(G, ws)
  <2>1. F[q] = Value(G, q) /\ SumsUp(g, F, R) /\ D \in SUBSET R /\ q \in R /\ q \notin D
    BY <1>10 DEF Adding, Values
  <2> HIDE DEF R, F
  <2>2. \A A \in SUBSET R, y \in R : y \notin A => g[A \cup {y}] = F[y] + g[A]
    BY <2>1, SumOfOneMore
  <2>3. g[D \cup {q}] = F[q] + g[D]
    BY <2>1, <2>2
  <2>4. QED
    BY <2>1, <2>3
<1>12. Value(G, q) = Cardinality(es) * x
  <2>1. Dst(G, q[2], q[4]) = Len(p) - 1 /\ Dst(G, q[2], q[4]) + 1 = Len(p)
    BY <1>3
  <2>2. QED
    BY <1>2, <2>1 DEF Value, x
<1>13. g[D] \in Nat /\ Value(G, q) \in Nat
  <2>1. g \in [SUBSET Routes(G, ws) -> Nat]
    BY <1>10 DEF Adding, SumsUp
  <2>2. Values(G, ws) \in [Routes(G, ws) -> Nat] /\ Values(G, ws)[q] = Value(G, q)
    BY RoutesFinite DEF Values
  <2>3. QED
    BY <2>1, <2>2
<1>14. Total(c.w, W \cup es) = g[D \cup {q}]
  BY <1>7, <1>10, <1>11, <1>12, <1>13
<1>15. Carried(G, ws, c, D \cup {q})
  <2>1. W \cup es \subseteq SUBSET Vertices
    BY <1>2, <1>5
  <2>2. QED
    BY <1>6, <1>7, <1>8, <1>9, <1>10, <1>14, <2>1 DEF Carried
<1>16. QED
  BY <1>15 DEF c, es, x

\* The ends after a word are the senses of later words.
LEMMA LaterEnds ==
  ASSUME NEW ws, Plain(ws), NEW i \in 1 .. Len(ws)
  PROVE  /\ \A j \in 1 .. Len(ws) : \A t : i < j /\ t \in ToSet(ws[j]) => <<j, t>> \in LaterOf(ws, i)
         /\ \A h \in LaterOf(ws, i) :
              /\ h = <<h[1], h[2]>> /\ h[1] \in 1 .. Len(ws) /\ i < h[1]
              /\ h[2] \in ToSet(ws[h[1]]) /\ h[2] \in Vertices
<1> DEFINE ss == SubSeq(ws, i + 1, Len(ws))
           n == Len(ws) - i
<1>1. /\ ss \in Seq(Seq(Vertices)) /\ Len(ss) = n /\ n \in Nat /\ DOMAIN ss = 1 .. n
      /\ \A l \in 1 .. n : ss[l] = ws[i + l] /\ i + l \in 1 .. Len(ws)
  BY DEF Plain
<1>2. \A j \in 1 .. Len(ws) : ws[j] \in Seq(Vertices) /\ ToSet(ws[j]) \subseteq Vertices
  <2> TAKE j \in 1 .. Len(ws)
  <2>1. ws[j] \in Seq(Vertices)
    BY DEF Plain
  <2>2. QED
    BY <2>1, ElementsAreMembers
<1> DEFINE P == UNION {ToSet(ss[l]) : l \in DOMAIN ss}
<1>3. LaterOf(ws, i) = {p \in Nat \X P : p[1] - i \in 1 .. n /\ p[2] \in ToSet(ss[p[1] - i])}
  BY DEF LaterOf, Entries
<1> HIDE DEF ss, n
<1>4. ASSUME NEW j \in 1 .. Len(ws), NEW t, i < j, t \in ToSet(ws[j])
      PROVE  <<j, t>> \in LaterOf(ws, i)
  <2>1. j \in Nat /\ j - i \in 1 .. n /\ i + (j - i) = j
    BY <1>4 DEF n, Plain
  <2>2. ToSet(ss[j - i]) = ToSet(ws[j])
    BY <1>1, <2>1
  <2>3. t \in P
    BY <1>1, <1>4, <2>1, <2>2
  <2> HIDE DEF P
  <2>4. QED
    BY <1>3, <1>4, <2>1, <2>2, <2>3
<1> HIDE DEF P
<1>5. ASSUME NEW h \in LaterOf(ws, i)
      PROVE  /\ h = <<h[1], h[2]>> /\ h[1] \in 1 .. Len(ws) /\ i < h[1]
             /\ h[2] \in ToSet(ws[h[1]]) /\ h[2] \in Vertices
  <2>1. /\ h = <<h[1], h[2]>> /\ h[1] \in Nat /\ h[1] - i \in 1 .. n /\ h[2] \in ToSet(ss[h[1] - i])
    BY <1>3
  <2>2. h[1] \in 1 .. Len(ws) /\ i < h[1] /\ i + (h[1] - i) = h[1]
    <3>1. \A l \in Nat, m \in Nat : l - i \in 1 .. m - i => l \in 1 .. m /\ i < l /\ i + (l - i) = l
      OBVIOUS
    <3>2. Len(ws) \in Nat /\ h[1] \in Nat /\ h[1] - i \in 1 .. Len(ws) - i
      BY <2>1 DEF n, Plain
    <3>3. QED
      BY <3>1, <3>2
  <2>3. ToSet(ss[h[1] - i]) = ToSet(ws[h[1]])
    BY <1>1, <2>1, <2>2
  <2>4. QED
    BY <1>2, <2>1, <2>2, <2>3
<1>6. QED
  BY <1>4, <1>5

\* The rest of a list.
LEMMA ListingTail ==
  ASSUME NEW V, NEW q \in Seq(V), q # <<>>, NEW X, NEW L, Listing(L, q, X)
  PROVE  /\ Head(L) \in X /\ Head(q) = Head(L)[2]
         /\ Listing(Tail(L), Tail(q), X \ {Head(L)})
<1>1. /\ L \in Seq(X) /\ ToSet(L) = X /\ Len(L) = Len(q) /\ IsInjective(L)
      /\ \A k \in 1 .. Len(q) : q[k] = L[k][2]
  BY DEF Listing
<1>2. /\ Len(q) \in Nat \ {0} /\ 1 \in 1 .. Len(q) /\ L # <<>> /\ Head(q) = q[1] /\ Head(L) = L[1]
      /\ DOMAIN L = 1 .. Len(q)
  BY <1>1
<1>3. /\ Head(L) \in X /\ Tail(L) \in Seq(X) /\ Len(Tail(L)) = Len(L) - 1
      /\ ToSet(L) = {Head(L)} \cup ToSet(Tail(L))
      /\ \A i \in 1 .. Len(Tail(L)) : Tail(L)[i] = L[i + 1] /\ i + 1 \in 1 .. Len(L)
  BY <1>1, <1>2, ElementsOfTail
<1>4. /\ Tail(q) \in Seq(V) /\ Len(Tail(q)) = Len(q) - 1
      /\ \A i \in 1 .. Len(Tail(q)) : Tail(q)[i] = q[i + 1] /\ i + 1 \in 1 .. Len(q)
  BY ElementsOfTail
<1> DEFINE M == Tail(L)
<1>5. DOMAIN M = 1 .. Len(M) /\ Len(M) \in Nat
  BY <1>3
<1> HIDE DEF M
<1>6. \A a, b \in 1 .. Len(q) : L[a] = L[b] => a = b
  BY <1>1, <1>2 DEF IsInjective
<1>7. IsInjective(M)
  <2>1. \A a, b \in 1 .. Len(M) : M[a] = M[b] => a = b
    <3> TAKE a, b \in 1 .. Len(M)
    <3>1. M[a] = L[a + 1] /\ M[b] = L[b + 1] /\ a + 1 \in 1 .. Len(q) /\ b + 1 \in 1 .. Len(q)
      BY <1>1, <1>3 DEF M
    <3>2. a \in Nat /\ b \in Nat
      BY <1>5
    <3>3. M[a] = M[b] => a + 1 = b + 1
      BY <1>6, <3>1
    <3>4. QED
      BY <3>2, <3>3
  <2>2. QED
    BY <1>5, <2>1 DEF IsInjective
<1>8. Head(L) \notin ToSet(M)
  <2> SUFFICES ASSUME Head(L) \in ToSet(M) PROVE FALSE
    OBVIOUS
  <2>1. PICK a \in 1 .. Len(M) : M[a] = Head(L)
    BY <1>5 DEF ToSet
  <2>2. L[a + 1] = L[1] /\ a + 1 \in 1 .. Len(q)
    BY <1>1, <1>2, <1>3, <2>1 DEF M
  <2>3. a + 1 = 1 /\ a \in 1 .. Len(M)
    BY <1>2, <1>6, <2>2
  <2>4. QED
    BY <2>3
<1>9. ToSet(M) = X \ {Head(L)}
  BY <1>1, <1>3, <1>8 DEF M
<1>10. M \in Seq(X \ {Head(L)})
  <2>1. \A a \in 1 .. Len(M) : M[a] \in ToSet(M)
    BY <1>5 DEF ToSet
  <2>2. M \in Seq(X)
    BY <1>3 DEF M
  <2>3. \A a \in 1 .. Len(M) : M[a] \in X \ {Head(L)}
    BY <1>9, <2>1
  <2>4. QED
    BY <2>2, <2>3
<1>11. \A k \in 1 .. Len(Tail(q)) : Tail(q)[k] = M[k][2]
  BY <1>1, <1>3, <1>4 DEF M
<1>12. Len(M) = Len(Tail(q))
  BY <1>1, <1>3, <1>4 DEF M
<1>13. Listing(M, Tail(q), X \ {Head(L)})
  BY <1>7, <1>9, <1>10, <1>11, <1>12 DEF Listing
<1>14. QED
  BY <1>1, <1>2, <1>3, <1>13 DEF M

\* What is drawn before the first sense, and between words.
LEMMA WordsDrawn ==
  ASSUME NEW G \in AllGraphs, NEW ws, Plain(ws), NEW i \in Nat \ {0}, NEW k \in Nat \ {0}
  PROVE  /\ Before(G, ws, 1, 1) = {}
         /\ i <= Len(ws) /\ k > Len(ws[i]) => Before(G, ws, i, k) = Before(G, ws, i + 1, 1)
         /\ i > Len(ws) => Before(G, ws, i, k) = Routes(G, ws)
<1>1. /\ Len(ws) \in Nat /\ \A j \in 1 .. Len(ws) : ws[j] \in Seq(Vertices) /\ Len(ws[j]) \in Nat
      /\ \A q \in Routes(G, ws) : q[1] \in 1 .. Len(ws) /\ q[2] \in ToSet(ws[q[1]])
  <2>1. \A j \in 1 .. Len(ws) : ws[j] \in Seq(Vertices)
    BY DEF Plain
  <2>2. \A q \in Routes(G, ws) : q[1] \in 1 .. Len(ws) /\ q[2] \in ToSet(ws[q[1]])
    BY RouteParts
  <2>3. Len(ws) \in Nat
    BY DEF Plain
  <2>4. QED
    BY <2>1, <2>2, <2>3
<1>2. Before(G, ws, 1, 1) = {}
  <2>1. 1 .. 1 - 1 = {} /\ \A l \in 1 .. Len(ws) : ~ (l < 1)
    BY <1>1
  <2>2. QED
    BY <1>1, <2>1 DEF Before
<1>3. ASSUME i <= Len(ws), k > Len(ws[i])
      PROVE  Before(G, ws, i, k) = Before(G, ws, i + 1, 1)
  <2>1. ASSUME NEW q \in Routes(G, ws)
        PROVE  (q[1] < i \/ (q[1] = i /\ \E m \in 1 .. k - 1 : ws[i][m] = q[2])) <=> q[1] < i + 1
    <3>1. PICK l \in 1 .. Len(ws) : l = q[1] /\ q[2] \in ToSet(ws[l])
      BY <1>1
    <3>2. l = i => \E m \in 1 .. k - 1 : ws[i][m] = q[2]
      <4> SUFFICES ASSUME l = i PROVE \E m \in 1 .. k - 1 : ws[i][m] = q[2]
        OBVIOUS
      <4>1. ws[i] \in Seq(Vertices) /\ Len(ws[i]) \in Nat /\ q[2] \in ToSet(ws[i])
        BY <1>1, <3>1
      <4>2. PICK m \in 1 .. Len(ws[i]) : ws[i][m] = q[2]
        BY <4>1 DEF ToSet
      <4>3. m \in 1 .. k - 1
        BY <1>3, <4>1
      <4>4. QED
        BY <4>2, <4>3
    <3>3. l < i + 1 <=> (l < i \/ l = i)
      BY <1>1
    <3>4. QED
      BY <3>1, <3>2, <3>3
  <2>2. 1 .. 1 - 1 = {}
    OBVIOUS
  <2>3. QED
    BY <2>1, <2>2 DEF Before
<1>4. i > Len(ws) => Before(G, ws, i, k) = Routes(G, ws)
  <2>1. i > Len(ws) => \A l \in 1 .. Len(ws) : l < i
    BY <1>1
  <2>2. QED
    BY <1>1, <2>1 DEF Before
<1>5. QED
  BY <1>2, <1>3, <1>4

\* And with the ends of one sense.
LEMMA EndsDrawn ==
  ASSUME NEW G \in AllGraphs, NEW ws, Plain(ws), NEW i \in 1 .. Len(ws), NEW k \in 1 .. Len(ws[i])
  PROVE  /\ Under(G, ws, i, k, LaterOf(ws, i)) = Before(G, ws, i, k)
         /\ Under(G, ws, i, k, {}) = Before(G, ws, i, k + 1)
<1>1. ASSUME NEW q \in Routes(G, ws), q[1] = i
      PROVE  <<q[3], q[4]>> \in LaterOf(ws, i)
  <2>1. q[3] \in 1 .. Len(ws) /\ i < q[3] /\ q[4] \in ToSet(ws[q[3]])
    BY <1>1, RouteParts
  <2>2. QED
    BY <2>1, LaterEnds
<1>2. Under(G, ws, i, k, LaterOf(ws, i)) = Before(G, ws, i, k)
  BY <1>1 DEF Under
<1>3. ws[i] \in Seq(Vertices) /\ Len(ws[i]) \in Nat /\ k \in Nat
  BY DEF Plain
<1>4. \A v : (\E m \in 1 .. (k + 1) - 1 : ws[i][m] = v) <=>
             (v = ws[i][k] \/ \E m \in 1 .. k - 1 : ws[i][m] = v)
  <2>1. 1 .. (k + 1) - 1 = (1 .. k - 1) \cup {k}
    BY <1>3
  <2>2. QED
    BY <2>1
<1>5. Under(G, ws, i, k, {}) \subseteq Before(G, ws, i, k + 1)
  BY <1>4 DEF Under, Before
<1>6. Before(G, ws, i, k + 1) \subseteq Under(G, ws, i, k, {})
  BY <1>4 DEF Under, Before
<1>7. QED
  BY <1>2, <1>5, <1>6

\* One end less is one path more, when there is a path.
Drawn(G, ws, i, k, X, h) ==
  LET q == <<i, ws[i][k], h[1], h[2]>> IN
  /\ h[2] \in Reachable(G, ws[i][k]) =>
       /\ q \in Routes(G, ws) /\ q \notin Under(G, ws, i, k, X)
       /\ Under(G, ws, i, k, X \ {h}) = Under(G, ws, i, k, X) \cup {q}
  /\ h[2] \notin Reachable(G, ws[i][k]) =>
       Under(G, ws, i, k, X \ {h}) = Under(G, ws, i, k, X)

LEMMA OneMoreDrawn ==
  ASSUME NEW G \in AllGraphs, NEW ws, Plain(ws), NEW i \in 1 .. Len(ws), NEW k \in 1 .. Len(ws[i]),
         NEW X, X \subseteq LaterOf(ws, i), NEW h \in X
  PROVE  Drawn(G, ws, i, k, X, h)
<1> DEFINE s == ws[i][k]
           q == <<i, s, h[1], h[2]>>
<1>1. ws[i] \in Seq(Vertices) /\ Len(ws[i]) \in Nat /\ k \in Nat /\ s \in Vertices /\ s \in ToSet(ws[i])
  BY ElementsAreMembers DEF Plain
<1>2. DOMAIN ws = 1 .. Len(ws)
  BY DEF Plain
<1>3. /\ h = <<h[1], h[2]>> /\ h[1] \in 1 .. Len(ws) /\ i < h[1]
      /\ h[2] \in ToSet(ws[h[1]]) /\ h[2] \in Vertices
  BY LaterEnds
<1> HIDE DEF s
<1>4. q[1] = i /\ q[2] = s /\ q[3] = h[1] /\ q[4] = h[2] /\ <<q[3], q[4]>> = h
  BY <1>3
<1>5. q \in Routes(G, ws) <=> h[2] \in Reachable(G, s)
  BY <1>1, <1>2, <1>3, <1>4 DEF Routes
<1>6. ASSUME NEW r \in Routes(G, ws), r[1] = i, r[2] = s, <<r[3], r[4]>> = h
      PROVE  r = q
  <2>1. r = <<r[1], r[2], r[3], r[4]>>
    BY RouteParts
  <2>2. h[1] = r[3] /\ h[2] = r[4]
    BY <1>6
  <2>3. QED
    BY <1>6, <2>1, <2>2
<1>7. q \notin Under(G, ws, i, k, X)
  <2>1. \A m \in 1 .. k - 1 : ws[i][m] # s
    <3> SUFFICES ASSUME NEW m \in 1 .. k - 1, ws[i][m] = s PROVE FALSE
      OBVIOUS
    <3>1. m \in 1 .. Len(ws[i]) /\ m # k /\ DOMAIN ws[i] = 1 .. Len(ws[i])
      BY <1>1
    <3>2. IsInjective(ws[i])
      BY DEF Plain
    <3>3. ws[i][m] = ws[i][k]
      BY DEF s
    <3>4. QED
      BY <3>1, <3>2, <3>3 DEF IsInjective
  <2>2. ~ (i < i)
    OBVIOUS
  <2> HIDE DEF q
  <2>3. QED
    BY <1>4, <2>1, <2>2 DEF Under, Before
<1> HIDE DEF q
<1>8. Under(G, ws, i, k, X \ {h}) =
        Under(G, ws, i, k, X) \cup
          {r \in Routes(G, ws) : r[1] = i /\ r[2] = s /\ <<r[3], r[4]>> = h}
  BY DEF Under, s
<1>9. ASSUME h[2] \in Reachable(G, s)
      PROVE  Under(G, ws, i, k, X \ {h}) = Under(G, ws, i, k, X) \cup {q}
  <2>1. {r \in Routes(G, ws) : r[1] = i /\ r[2] = s /\ <<r[3], r[4]>> = h} = {q}
    BY <1>4, <1>5, <1>6, <1>9
  <2>2. QED
    BY <1>8, <2>1
<1>10. ASSUME h[2] \notin Reachable(G, s)
       PROVE  Under(G, ws, i, k, X \ {h}) = Under(G, ws, i, k, X)
  <2>1. {r \in Routes(G, ws) : r[1] = i /\ r[2] = s /\ <<r[3], r[4]>> = h} = {}
    BY <1>5, <1>6, <1>10
  <2>2. QED
    BY <1>8, <2>1
<1>11. QED
  BY <1>5, <1>7, <1>9, <1>10 DEF s, q, Drawn

-----------------------------------------------------------------------------
(* The invariant of the breadth first subgraph.                            *)

\* The senses before a position are vertices of the subgraph.
Placed(ws, i, k, V) ==
  \A j \in 1 .. Len(ws) : \A m \in 1 .. Len(ws[j]) : j < i \/ (j = i /\ m < k) => ws[j][m] \in V

\* While a sense is searched from, targets are the ends whose paths are still to be drawn.
Drawing(G, ws, i, k, c, d) ==
  /\ i \in 1 .. Len(ws) /\ k \in 1 .. Len(ws[i]) /\ c.src = ws[i][k]
  /\ c.targets \in Seq(Vertices)
  /\ Placed(ws, i, k + 1, d.V)
  /\ \E L, X : /\ X \subseteq LaterOf(ws, i) /\ Listing(L, c.targets, X)
               /\ Carried(G, ws, d, Under(G, ws, i, k, X))

JoinInv ==
  /\ Plain(words)
  /\ phase = "dfs" => method # "bfs"
  /\ method = "bfs" =>
       /\ phase = "context" =>
            Placed(words, word, sense, dg.V) /\ Carried(graph, words, dg, Before(graph, words, word, sense))
       /\ phase = "search" /\ cmd.op = "dgraph" => Drawing(graph, words, word, sense, cmd, dg)
       /\ phase = "built" =>
            Senses \subseteq dg.V /\ Carried(graph, words, dg, Routes(graph, words))

\* It holds at first.
LEMMA JoinInit == DgInit => JoinInv
<1> SUFFICES ASSUME DgInit PROVE JoinInv
  OBVIOUS
<1>1. /\ phase \in {"prompt", "context"} /\ word = 1 /\ sense = 1 /\ dg = [V |-> {}, w |-> <<>>]
      /\ words \in Contexts \/ words = <<>>
  BY DEF DgInit
<1>2. graph \in AllGraphs
  BY KbSearchAssumption DEF DgInit, KbInit, AllGraphs
<1>3. Plain(words)
  <2>1. CASE words \in Contexts
    <3>1. words \in Seq(Seq(Vertices)) /\ \A i \in DOMAIN words : IsInjective(words[i])
      BY <2>1, DisambGraphAssumption
    <3>2. DOMAIN words = 1 .. Len(words)
      BY <3>1
    <3>3. QED
      BY <3>1, <3>2 DEF Plain
  <2>2. CASE words = <<>>
    BY <2>2 DEF Plain
  <2>3. QED
    BY <1>1, <2>1, <2>2
<1>4. Before(graph, words, word, sense) = {}
  BY <1>1, <1>2, <1>3, WordsDrawn
<1>5. Carried(graph, words, dg, Before(graph, words, word, sense))
  BY <1>1, <1>2, <1>3, <1>4, NothingCarried
<1>6. Placed(words, word, sense, dg.V)
  BY <1>1, <1>3 DEF Placed, Plain
<1>7. QED
  BY <1>1, <1>3, <1>5, <1>6 DEF JoinInv

\* A search from a sense begins with all senses of later words before it.
LEMMA SourceJoins ==
  ASSUME SearchTyped, JoinInv, NextSource
  PROVE  JoinInv'
<1>1. /\ phase = "context" /\ method = "bfs" /\ phase' = "search" /\ method' = method
      /\ word <= Len(words) /\ sense <= Len(words[word])
      /\ words' = words /\ word' = word /\ sense' = sense /\ graph' = graph
      /\ cmd' = [op |-> "dgraph", src |-> words[word][sense], asked |-> ToSet(Later),
                    targets |-> Later, limit |-> 0]
      /\ dg' = [dg EXCEPT !.V = @ \cup {words[word][sense]}]
  BY DEF NextSource, Begin
<1>2. Plain(words) /\ graph \in AllGraphs
  BY DEF JoinInv, SearchTyped
<1>3. word \in 1 .. Len(words) /\ words[word] \in Seq(Vertices) /\ sense \in 1 .. Len(words[word])
  BY <1>1, <1>2 DEF SearchTyped, Plain
<1>4. /\ Placed(words, word, sense, dg.V)
      /\ Carried(graph, words, dg, Before(graph, words, word, sense))
  BY <1>1 DEF JoinInv
<1>5. dg = [V |-> dg.V, w |-> dg.w]
  BY <1>4 DEF Carried
<1>6. dg'.w = dg.w /\ dg' = [V |-> dg'.V, w |-> dg'.w] /\ dg'.V = dg.V \cup {words[word][sense]}
  BY <1>1, <1>5
<1>7. Later \in Seq(Vertices) /\ \E L : Listing(L, Later, LaterOf(words, word))
  <2> DEFINE ss == SubSeq(words, word + 1, Len(words))
  <2>1. ss \in Seq(Seq(Vertices)) /\ Len(ss) = Len(words) - word /\ word \in Nat
    BY <1>2, <1>3 DEF Plain
  <2>2. \A l \in 1 .. Len(ss) : IsInjective(ss[l])
    BY <1>2, <1>3 DEF Plain
  <2>3. Later = FlattenSeq(ss) /\ LaterOf(words, word) = Entries(ss, Len(ss), word)
    BY <2>1 DEF Later, LaterOf
  <2> HIDE DEF ss
  <2>4. FlattenSeq(ss) \in Seq(Vertices)
    BY <2>1, <2>2, FlattenLists
  <2>5. \E L : Listing(L, FlattenSeq(ss), Entries(ss, Len(ss), word))
    BY <2>1, <2>2, FlattenLists
  <2>6. QED
    BY <2>3, <2>4, <2>5
<1>8. Carried(graph, words, dg', Under(graph, words, word, sense, LaterOf(words, word)))
  <2>1. Under(graph, words, word, sense, LaterOf(words, word)) = Before(graph, words, word, sense)
    BY <1>2, <1>3, EndsDrawn
  <2>2. QED
    BY <1>4, <1>6, <2>1 DEF Carried
<1>9. Placed(words, word, sense + 1, dg'.V)
  <2>1. \A m \in Nat : m < sense + 1 => m < sense \/ m = sense
    BY <1>3
  <2>2. QED
    BY <1>2, <1>4, <1>6, <2>1 DEF Placed, Plain
<1>10. Drawing(graph, words, word, sense, cmd', dg')
  BY <1>1, <1>3, <1>7, <1>8, <1>9 DEF Drawing
<1>11. QED
  BY <1>1, <1>2, <1>10 DEF JoinInv

\* The path to a target is drawn, if there is one.
LEMMA PathJoins ==
  ASSUME SearchTyped, DfsTyped, BfsInv, JoinInv, FillPath
  PROVE  JoinInv'
<1> DEFINE t == Head(cmd.targets)
           s == cmd.src
           i == word
           k == sense
<1>1. /\ phase = "search" /\ queue = <<>> /\ cmd.op = "dgraph" /\ cmd.targets # <<>>
      /\ cmd' = [cmd EXCEPT !.targets = Tail(@)]
      /\ dg' = IF Up(t)[Steps(t)] # s THEN dg
               ELSE AddEdges(dg, {{Up(t)[l], Up(t)[l + 1]} : l \in 0 .. Steps(t) - 1},
                             Unit \div (Steps(t) + 1))
      /\ UNCHANGED <<phase, graph, words, method, word, sense>>
  BY DEF FillPath, Searched
<1>2. method = "bfs" /\ Plain(words) /\ graph \in AllGraphs
  BY <1>1 DEF JoinInv, DfsTyped, SearchTyped
<1>3. Drawing(graph, words, i, k, cmd, dg)
  BY <1>1, <1>2 DEF JoinInv
<1>4. /\ i \in 1 .. Len(words) /\ k \in 1 .. Len(words[i]) /\ s = words[i][k]
      /\ cmd.targets \in Seq(Vertices) /\ Placed(words, i, k + 1, dg.V)
  BY <1>3 DEF Drawing
<1>5. /\ cmd'.op = "dgraph" /\ cmd'.src = s /\ cmd'.targets = Tail(cmd.targets)
      /\ Tail(cmd.targets) \in Seq(Vertices) /\ t \in Vertices
  <2>1. cmd = [op |-> cmd.op, src |-> cmd.src, asked |-> cmd.asked,
                 targets |-> cmd.targets, limit |-> cmd.limit]
    BY DEF SearchTyped
  <2>2. cmd'.op = cmd.op /\ cmd'.src = cmd.src /\ cmd'.targets = Tail(cmd.targets)
    BY <1>1, <2>1
  <2>3. QED
    BY <1>1, <1>4, <2>2, ElementsOfTail
<1>6. PICK L, X : /\ X \subseteq LaterOf(words, i) /\ Listing(L, cmd.targets, X)
                  /\ Carried(graph, words, dg, Under(graph, words, i, k, X))
  BY <1>3 DEF Drawing
<1> DEFINE h == Head(L)
<1>7. h \in X /\ t = h[2] /\ Listing(Tail(L), Tail(cmd.targets), X \ {h})
  BY <1>1, <1>4, <1>6, ListingTail
<1>8. s \in Vertices /\ Tree(graph, s, Reachable(graph, s), parent)
  <2>1. s \in Vertices /\ Tree(graph, s, seen, parent) /\ Closed(graph, seen)
    BY <1>1 DEF BfsInv
  <2>2. QED
    BY <1>2, <2>1, ClosedIsReachable
<1> DEFINE q == <<i, s, h[1], h[2]>>
           D == Under(graph, words, i, k, X)
           C == Under(graph, words, i, k, X \ {h})
<1>9. /\ t \in Reachable(graph, s) => q \in Routes(graph, words) /\ q \notin D /\ C = D \cup {q}
      /\ t \notin Reachable(graph, s) => C = D
  <2>1. h \in X /\ s = words[i][k] /\ t = h[2]
    BY <1>4, <1>7
  <2> HIDE DEF h, s, t, i, k
  <2>2. Drawn(graph, words, i, k, X, h)
    BY <1>2, <1>4, <1>6, <2>1, OneMoreDrawn
  <2>3. QED
    BY <2>1, <2>2 DEF Drawn
<1>10. parent \in [Vertices -> Vertices]
  BY <1>8 DEF Tree
<1>11. Carried(graph, words, dg', C) /\ dg.V \subseteq dg'.V
  <2>1. CASE t \notin Reachable(graph, s)
    <3>1. Up(t)[Steps(t)] # s
      BY <1>2, <1>5, <1>8, <2>1, UpIsShortest
    <3>2. dg' = dg
      BY <1>1, <3>1
    <3> HIDE DEF C, D, t, s
    <3>3. C = D
      BY <1>9, <2>1
    <3>4. QED
      BY <1>6, <3>2, <3>3 DEF D
  <2>2. CASE t \in Reachable(graph, s)
    <3>1. /\ Steps(t) = Dst(graph, s, t) /\ Up(t)[Steps(t)] = s
          /\ \E p : /\ Rising(graph, s, p) /\ p[Len(p)] = t /\ Len(p) = Steps(t) + 1
                    /\ Ties(p) = {{Up(t)[l], Up(t)[l + 1]} : l \in 0 .. Steps(t) - 1}
      BY <1>2, <1>5, <1>8, <2>2, UpIsShortest
    <3>2. PICK p : /\ Rising(graph, s, p) /\ p[Len(p)] = t /\ Len(p) = Steps(t) + 1
                   /\ Ties(p) = {{Up(t)[l], Up(t)[l + 1]} : l \in 0 .. Steps(t) - 1}
      BY <3>1
    <3>3. dg' = AddEdges(dg, Ties(p), Unit \div Len(p))
      BY <1>1, <3>1, <3>2
    <3>4. D \subseteq Routes(graph, words) /\ Carried(graph, words, dg, D)
      BY <1>6 DEF Under, Before
    <3>5. q[2] = s /\ q[4] = t
      BY <1>7
    <3> HIDE DEF C, D, t, s, q
    <3>6. q \in Routes(graph, words) /\ q \notin D /\ C = D \cup {q}
      BY <1>9, <2>2
    <3>7. Rising(graph, q[2], p) /\ p[Len(p)] = q[4]
      BY <3>2, <3>5
    <3>8. Carried(graph, words, AddEdges(dg, Ties(p), Unit \div Len(p)), D \cup {q})
      BY <1>2, <3>4, <3>6, <3>7, PathCarried
    <3>9. dg.V \subseteq dg'.V
      BY <3>3 DEF AddEdges
    <3>10. QED
      BY <3>3, <3>6, <3>8, <3>9
  <2>3. QED
    BY <2>1, <2>2
<1>12. Placed(words, i, k + 1, dg'.V)
  BY <1>4, <1>11 DEF Placed
<1>13. Drawing(graph, words, i, k, cmd', dg')
  <2>1. X \ {h} \subseteq LaterOf(words, i)
    BY <1>6
  <2> HIDE DEF h, s, t, i, k
  <2>2. \E M, Y : /\ Y \subseteq LaterOf(words, i) /\ Listing(M, cmd'.targets, Y)
                  /\ Carried(graph, words, dg', Under(graph, words, i, k, Y))
    BY <1>5, <1>7, <1>11, <2>1
  <2>3. QED
    BY <1>4, <1>5, <1>12, <2>2 DEF Drawing
<1>14. QED
  BY <1>1, <1>2, <1>5, <1>13 DEF JoinInv

\* When all have been, the next sense follows,
LEMMA SenseJoins ==
  ASSUME SearchTyped, DfsTyped, JoinInv, NextSense
  PROVE  JoinInv'
<1>1. /\ phase = "search" /\ cmd.op = "dgraph" /\ cmd.targets = <<>> /\ phase' = "context"
      /\ sense' = sense + 1 /\ UNCHANGED <<graph, words, method, word, dg>>
  BY DEF NextSense, Searched, kbVars
<1>2. method = "bfs" /\ Plain(words) /\ graph \in AllGraphs
  BY <1>1 DEF JoinInv, DfsTyped, SearchTyped
<1>3. Drawing(graph, words, word, sense, cmd, dg)
  BY <1>1, <1>2 DEF JoinInv
<1>4. /\ word \in 1 .. Len(words) /\ sense \in 1 .. Len(words[word])
      /\ Placed(words, word, sense + 1, dg.V)
  BY <1>3 DEF Drawing
<1>5. PICK L, X : /\ X \subseteq LaterOf(words, word) /\ Listing(L, cmd.targets, X)
                  /\ Carried(graph, words, dg, Under(graph, words, word, sense, X))
  BY <1>3 DEF Drawing
<1>6. X = {}
  <2>1. Len(L) = 0 /\ L \in Seq(X) /\ X = ToSet(L)
    BY <1>1, <1>5 DEF Listing
  <2>2. QED
    BY <2>1 DEF ToSet
<1>7. Under(graph, words, word, sense, {}) = Before(graph, words, word, sense + 1)
  BY <1>2, <1>4, EndsDrawn
<1>8. Carried(graph, words, dg, Before(graph, words, word, sense + 1))
  BY <1>5, <1>6, <1>7
<1>9. QED
  BY <1>1, <1>2, <1>4, <1>8 DEF JoinInv

\* after the last one the next word,
LEMMA WordJoins ==
  ASSUME SearchTyped, JoinInv, NextWord
  PROVE  JoinInv'
<1>1. /\ phase = "context" /\ method = "bfs" /\ phase' = "context"
      /\ word <= Len(words) /\ sense > Len(words[word]) /\ word' = word + 1 /\ sense' = 1
      /\ UNCHANGED <<graph, words, method, dg>>
  BY DEF NextWord, kbVars
<1>2. /\ Plain(words) /\ graph \in AllGraphs /\ word \in Nat \ {0} /\ sense \in Nat \ {0}
      /\ Placed(words, word, sense, dg.V)
      /\ Carried(graph, words, dg, Before(graph, words, word, sense))
  BY <1>1 DEF JoinInv, SearchTyped
<1>3. Before(graph, words, word, sense) = Before(graph, words, word + 1, 1)
  BY <1>1, <1>2, WordsDrawn
<1>4. Placed(words, word + 1, 1, dg.V)
  <2> SUFFICES ASSUME NEW j \in 1 .. Len(words), NEW m \in 1 .. Len(words[j]),
                      j < word + 1 \/ (j = word + 1 /\ m < 1)
               PROVE  words[j][m] \in dg.V
    BY DEF Placed
  <2>1. Len(words) \in Nat /\ words[j] \in Seq(Vertices) /\ Len(words[j]) \in Nat
    BY <1>2 DEF Plain
  <2>2. j < word \/ j = word
    BY <1>2, <2>1
  <2>3. j = word => m < sense
    BY <1>1, <1>2, <2>1
  <2>4. QED
    BY <1>2, <2>2, <2>3 DEF Placed
<1>5. QED
  BY <1>1, <1>2, <1>3, <1>4 DEF JoinInv

\* and after the last word all has been drawn.
LEMMA AllJoined ==
  ASSUME SearchTyped, JoinInv, BuiltBfs
  PROVE  JoinInv'
<1>1. /\ phase = "context" /\ method = "bfs" /\ phase' = "built" /\ word > Len(words)
      /\ UNCHANGED <<graph, words, method, dg>>
  BY DEF BuiltBfs, kbVars, dgVars
<1>2. /\ Plain(words) /\ graph \in AllGraphs /\ word \in Nat \ {0} /\ sense \in Nat \ {0}
      /\ Placed(words, word, sense, dg.V)
      /\ Carried(graph, words, dg, Before(graph, words, word, sense))
  BY <1>1 DEF JoinInv, SearchTyped
<1>3. Before(graph, words, word, sense) = Routes(graph, words)
  BY <1>1, <1>2, WordsDrawn
<1>4. Senses \subseteq dg.V
  <2> SUFFICES ASSUME NEW j \in DOMAIN words, NEW v \in ToSet(words[j]) PROVE v \in dg.V
    BY DEF Senses
  <2>1. Len(words) \in Nat /\ j \in 1 .. Len(words) /\ words[j] \in Seq(Vertices)
    BY <1>2 DEF Plain
  <2>2. PICK m \in 1 .. Len(words[j]) : words[j][m] = v
    BY <2>1 DEF ToSet
  <2>3. j < word
    BY <1>1, <1>2, <2>1
  <2>4. QED
    BY <1>2, <2>1, <2>2, <2>3 DEF Placed
<1>5. Senses' = Senses
  BY <1>1 DEF Senses
<1>6. QED
  BY <1>1, <1>2, <1>3, <1>4, <1>5 DEF JoinInv

\* Other steps leave the subgraph alone, and have no part in a search for it but to go on.
LEMMA OthersJoin ==
  ASSUME SearchTyped, JoinInv, KbNext /\ UNCHANGED dgVars
  PROVE  JoinInv'
<1>1. UNCHANGED <<words, method, word, sense, dg>>
  BY DEF dgVars
<1>2. graph' = graph
  BY GraphStays DEF DgNext
<1>3. \/ phase' \in {"prompt", "exit"}
      \/ phase' = "search" /\ cmd'.op # "dgraph"
      \/ phase' = phase /\ phase = "search" /\ cmd' = cmd
  <2>1. CASE ShowNeighbours
    BY <2>1 DEF ShowNeighbours, Answered
  <2>2. CASE ShowPath
    BY <2>2 DEF ShowPath, Ask, Answered, Begin
  <2>3. CASE SPaths
    BY <2>3 DEF SPaths, Ask, Answered, Begin
  <2>4. CASE SubG
    BY <2>4 DEF SubG, Ask, Answered, Begin
  <2>5. CASE Quit \/ SubGDone
    BY <2>5 DEF Quit, SubGDone
  <2>6. CASE ExamineEdge \/ NextVertex \/ TreeEdge \/ Terminate \/ NonTreeEdge \/ WalkUp
    BY <2>6 DEF ExamineEdge, NextVertex, TreeEdge, Terminate, NonTreeEdge, WalkUp, Examining, Searched
  <2>7. CASE NextTarget \/ PathDone
    <3>1. /\ phase = "search" /\ cmd.op # "dgraph"
          /\ phase' \in {"prompt", "exit"} \/ (phase' = phase /\ (cmd' = cmd \/ cmd' = [cmd EXCEPT !.targets = Tail(@)]))
      <4>1. CASE NextTarget
        BY <4>1 DEF NextTarget, Searched
      <4>2. CASE PathDone
        <5>1. phase = "search" /\ at # Unknown
          BY <4>2 DEF PathDone, Searched
        <5>2. cmd.op # "dgraph"
          BY <5>1 DEF SearchTyped
        <5>3. QED
          BY <4>2, <5>1, <5>2 DEF PathDone
      <4>3. QED
        BY <2>7, <4>1, <4>2
    <3>2. cmd = [op |-> cmd.op, src |-> cmd.src, asked |-> cmd.asked,
                 targets |-> cmd.targets, limit |-> cmd.limit]
      BY DEF SearchTyped
    <3>3. cmd' = [cmd EXCEPT !.targets = Tail(@)] => cmd'.op = cmd.op
      BY <3>2
    <3>4. QED
      BY <3>1, <3>3
  <2>8. QED
    BY <2>1, <2>2, <2>3, <2>4, <2>5, <2>6, <2>7 DEF KbNext, Step
<1>4. Senses' = Senses
  BY <1>1 DEF Senses
<1>5. QED
  BY <1>1, <1>2, <1>3, <1>4 DEF JoinInv

\* So every step keeps the invariant,
LEMMA JoinKept ==
  ASSUME SearchTyped, DfsTyped, BfsInv, JoinInv, [DgNext]_allVars
  PROVE  JoinInv'
<1>1. CASE NextSource \/ FillPath \/ NextSense \/ NextWord \/ BuiltBfs
  BY <1>1, SourceJoins, PathJoins, SenseJoins, WordJoins, AllJoined
<1>2. CASE StartDfs \/ DfsTreeEdge \/ DfsOtherEdge \/ DfsFinish \/ DfsDone \/ BuiltDfs
  <2>1. UNCHANGED <<words, method>> /\ method # "bfs"
    BY <1>2 DEF StartDfs, DfsTreeEdge, DfsOtherEdge, DfsFinish, DfsDone, BuiltDfs, JoinInv
  <2>2. QED
    BY <2>1 DEF JoinInv
<1>3. CASE KbNext /\ UNCHANGED dgVars
  BY <1>3, OthersJoin
<1>4. CASE UNCHANGED allVars
  <2>1. UNCHANGED <<phase, graph, cmd, words, method, word, sense, dg>>
    BY <1>4 DEF allVars, kbVars, dgVars
  <2>2. Senses' = Senses
    BY <2>1 DEF Senses
  <2>3. QED
    BY <2>1, <2>2 DEF JoinInv
<1>5. QED
  BY <1>1, <1>2, <1>3, <1>4 DEF DgNext, DgStep

\* and it always holds.
LEMMA JoinInvariance == DgSpec => [](SearchesInv /\ JoinInv)
<1>1. DgInit => SearchesInv /\ JoinInv
  BY SearchInit, DfsInit, JoinInit DEF SearchesInv
<1>2. SearchesInv /\ JoinInv /\ [DgNext]_allVars => SearchesInv' /\ JoinInv'
  <2> SUFFICES ASSUME SearchesInv, JoinInv, [DgNext]_allVars PROVE SearchesInv' /\ JoinInv'
    OBVIOUS
  <2>1. SearchTyped /\ BfsInv /\ SearchInv /\ DfsTyped /\ DepthIsThatOfPath /\ DfsInv
    BY DEF SearchesInv, SearchInv
  <2>2. SearchInv' /\ DfsTyped' /\ DepthIsThatOfPath' /\ DfsInv' /\ JoinInv'
    BY <2>1, SearchKept, DfsTypedKept, DepthKept, DfsInvKept, JoinKept
  <2>3. QED
    BY <2>2 DEF SearchesInv
<1>3. QED
  BY <1>1, <1>2, PTL DEF DgSpec

\* The weights are the sum that BfsWeights says.
LEMMA WeightsFollow ==
  ASSUME graph \in AllGraphs, Plain(words), Carried(graph, words, dg, Routes(graph, words))
  PROVE  BfsWeights
<1> DEFINE R == Routes(graph, words)
<1>1. IsFiniteSet(R) /\ Values(graph, words) \in [R -> Nat]
  BY RoutesFinite
<1>2. PICK g : Adding(graph, words, g) /\ Total(dg.w, DOMAIN dg.w) = g[R]
  BY DEF Carried
<1>3. \A q \in R : Worth(q) = Value(graph, q)
  BY SameAsNear DEF Worth, Value
<1>4. \A q \in R : Worth(q) \in Nat
  <2>1. \A q \in R : Values(graph, words)[q] \in Nat /\ Values(graph, words)[q] = Value(graph, q)
    BY <1>1 DEF Values
  <2>2. QED
    BY <1>3, <2>1
<1>5. [q \in R |-> Worth(q)] = Values(graph, words)
  BY <1>3 DEF Values
<1>6. R = {q \in (DOMAIN words) \X Vertices \X (DOMAIN words) \X Vertices :
             /\ q[1] < q[3] /\ q[2] \in ToSet(words[q[1]]) /\ q[4] \in ToSet(words[q[3]])
             /\ Reaches(q[2], q[4])}
  BY SameAsNear DEF Routes
<1>7. SumsUp(g, [q \in R |-> Worth(q)], R)
  BY <1>2, <1>5 DEF Adding
<1> HIDE DEF R
<1>8. MapThenSumSet(LAMBDA q : LET n == Dist(q[2], q[4]) IN n * (Unit \div (n + 1)), R) = g[R]
  BY <1>1, <1>4, <1>7, WorthIsSum
<1>9. MapThenSumSet(LAMBDA e : dg.w[e], DOMAIN dg.w) = g[R]
  BY <1>2 DEF Total
<1>10. QED
  BY <1>6, <1>8, <1>9 DEF BfsWeights

\* It has what is said of the breadth first subgraph.
LEMMA BfsFollows == SearchesInv /\ JoinInv => BfsJoinsSenses
<1> SUFFICES ASSUME SearchesInv, JoinInv, phase = "built", method = "bfs"
             PROVE  /\ Senses \subseteq dg.V
                    /\ \A p \in SensePairs :
                         Reaches(p[1], p[2]) => p[2] \in Joined(p[1])[Dist(p[1], p[2])]
                    /\ \A e \in DOMAIN dg.w : \E p \in SensePairs, u, v \in e :
                         /\ Edge(u, v) /\ Reaches(p[1], u) /\ Reaches(v, p[2])
                         /\ Dist(p[1], u) + 1 + Dist(v, p[2]) = Dist(p[1], p[2])
                    /\ BfsWeights
  BY DEF BfsJoinsSenses
<1>1. graph \in AllGraphs /\ Plain(words) /\ Senses \subseteq dg.V
      /\ Carried(graph, words, dg, Routes(graph, words))
  BY DEF SearchesInv, SearchInv, SearchTyped, JoinInv
<1> DEFINE R == Routes(graph, words)
<1>2. DOMAIN words = 1 .. Len(words) /\ \A j \in 1 .. Len(words) : ToSet(words[j]) \subseteq Vertices
  <2> \A j \in 1 .. Len(words) : words[j] \in Seq(Vertices)
    BY <1>1 DEF Plain
  <2> QED
    BY <1>1, ElementsAreMembers DEF Plain
<1>3. \A v : Joined(v) = Linked(DOMAIN dg.w, v)
  BY DEF Joined, Linked, Size
<1>4. ASSUME NEW p \in SensePairs, Reaches(p[1], p[2])
      PROVE  p[2] \in Joined(p[1])[Dist(p[1], p[2])]
  <2>1. PICK i \in DOMAIN words, j \in DOMAIN words :
          i < j /\ p \in ToSet(words[i]) \X ToSet(words[j])
    BY DEF SensePairs
  <2> DEFINE q == <<i, p[1], j, p[2]>>
  <2>2. q \in R
    BY <1>2, <1>4, <2>1, SameAsNear DEF Routes
  <2>3. q[4] \in Linked(DOMAIN dg.w, q[2])[Dst(graph, q[2], q[4])]
    BY <1>1, <2>2 DEF Carried
  <2>4. q[2] = p[1] /\ q[4] = p[2]
    OBVIOUS
  <2> HIDE DEF q
  <2>5. QED
    BY <1>3, <2>3, <2>4, SameAsNear
<1>5. ASSUME NEW e \in DOMAIN dg.w
      PROVE  \E p \in SensePairs, u, v \in e :
               /\ Edge(u, v) /\ Reaches(p[1], u) /\ Reaches(v, p[2])
               /\ Dist(p[1], u) + 1 + Dist(v, p[2]) = Dist(p[1], p[2])
  <2>1. PICK q \in R : OnShortest(graph, q[2], q[4], e)
    BY <1>1 DEF Carried
  <2> DEFINE p == <<q[2], q[4]>>
  <2>2. p \in SensePairs
    <3>1. /\ q[1] \in DOMAIN words /\ q[3] \in DOMAIN words /\ q[1] < q[3]
          /\ q[2] \in ToSet(words[q[1]]) /\ q[4] \in ToSet(words[q[3]])
      BY <1>1, <1>2, RouteParts
    <3> DEFINE r == <<q[1], q[3]>>
    <3>2. r \in {y \in (DOMAIN words) \X (DOMAIN words) : y[1] < y[2]}
      BY <3>1
    <3>3. p \in ToSet(words[r[1]]) \X ToSet(words[r[2]])
      BY <3>1
    <3> HIDE DEF p, r
    <3>4. QED
      BY <3>2, <3>3 DEF SensePairs
  <2>3. PICK u \in e, v \in e :
          /\ v \in ToSet(graph[u]) /\ u \in Reachable(graph, q[2]) /\ q[4] \in Reachable(graph, v)
          /\ Dst(graph, q[2], u) + 1 + Dst(graph, v, q[4]) = Dst(graph, q[2], q[4])
    BY <2>1 DEF OnShortest
  <2>4. p[1] = q[2] /\ p[2] = q[4]
    OBVIOUS
  <2> HIDE DEF p
  <2>5. /\ Edge(u, v) /\ Reaches(p[1], u) /\ Reaches(v, p[2])
        /\ Dist(p[1], u) + 1 + Dist(v, p[2]) = Dist(p[1], p[2])
    BY <2>3, <2>4, SameAsNear, EdgeIsInRow
  <2>6. QED
    BY <2>2, <2>5
<1>6. BfsWeights
  BY <1>1, WeightsFollow
<1>7. QED
  BY <1>1, <1>4, <1>5, <1>6

\* The breadth first subgraph (DisambGraph::build_dgraph_bfs, fill_graph) has every sense;
\* wherever a sense reaches one of a later word it joins the two as closely as the knowledge
\* base does; it has no edge that is not on a shortest path between two of them; and all edges
\* together weigh what the paths do, one over the number of its vertices for each edge of a
\* path, whatever paths share.
THEOREM BreadthFirstJoins == DgSpec => []BfsJoinsSenses
BY JoinInvariance, BfsFollows, PTL

=============================================================================
