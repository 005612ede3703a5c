------------------------------- MODULE KbStore -------------------------------
(***************************************************************************)
(* How a knowledge base comes into being and where it goes: compile_kb     *)
(* reads relations (Kb::read_from_txt), convert2.0 reads a graph of the    *)
(* format before 2.0 (Kb16, Kb::create_from_kbgraph16), both write the     *)
(* binary image (Kb::write_to_stream), every other program reads it        *)
(* (Kb::read_from_stream), and compile_kb -t writes it as text again.      *)
(*                                                                         *)
(* A graph is a set of names and a function from pairs of names to weight  *)
(* and types: numbering of vertices and the order of the rows are left     *)
(* out.  An image is what was written and how much of it reached the disk, *)
(* since write_to_binfile does not look at the stream after writing.       *)
(***************************************************************************)
EXTENDS Integers, Sequences, SequencesExt, FiniteSets

CONSTANTS Names,     \* of vertices, relation types and sources
          Texts,     \* files of relations: sequences of lines
          Options,   \* command lines of compile_kb
          OldGraphs, \* graphs in the format before 2.0
          None,      \* a field that a line does not have
          Width      \* bits of etype_t::value_type; 32 in the program

\* A line: u:, v:, t:, s:, w: (zero if there is none) and d:.
Lines ==
  [comment : BOOLEAN, bad : BOOLEAN, u : Names \cup {None}, v : Names \cup {None},
   t : Names \cup {None}, s : Names \cup {None}, w : Nat, d : {None, "0", "1", "bad"}]

\* Two vertices of an old graph may have one name, an edge has two vertices; first and
\* later are the formats that its identifiers name.
OldFormat(o) ==
  /\ o.sources \subseteq Names
  /\ o.rtypes \in Seq(Names) /\ Len(o.rtypes) <= Width
  /\ \A x \in DOMAIN o.name : o.name[x] \in Names
  /\ o.edges \in Seq([u : DOMAIN o.name, v : DOMAIN o.name, w : Nat,
                      types : SUBSET (0 .. Len(o.rtypes) - 1)])
  /\ \A i \in DOMAIN o.edges : o.edges[i].u # o.edges[i].v

ASSUME KbStoreAssumption ==
  /\ Width \in Nat \ {0}
  /\ None \notin Names /\ None \notin OldGraphs
  /\ Texts \subseteq Seq(Lines)
  /\ \A o \in OldGraphs : OldFormat(o)

VARIABLES
  pc,     \* "text", "old", "built", "disk", "loaded", "failed" or "aborted"
  opt,    \* keep_directed, keep_reltypes, filter_src and the sources, swallow
  text, line, \* the file and how much of it is read
  pre,    \* precsr_t: V, prop (m_eMap with eProp) and rtypes
  old,    \* the Kb16; None when compile_kb runs
  kb,     \* the Kb: V, prop, rtypes, sources
  intact, \* the parts of kb that are as they were written
  cut,    \* the image ends in or before this part; sized: behind its number of elements
  origin  \* history: the pairs that compile_kb -t has written

vars == <<pc, opt, text, line, pre, old, kb, intact, cut, origin>>

NoGraph == [V |-> {}, prop |-> <<>>, rtypes |-> <<>>, sources |-> {}]
Pairs(g) == DOMAIN g.prop

\* The parts of an image, in the order of Kb::write_to_stream.
Parts == <<"id1", "sources", "rtypes", "map", "id2", "sizes", "id3", "rows", "columns",
           "backward", "names", "props", "id4", "notes">>
Position(p) == CHOOSE i \in DOMAIN Parts : Parts[i] = p
Complete == [at |-> Len(Parts) + 1, sized |-> FALSE]

Init ==
  /\ \/ pc = "text" /\ text \in Texts /\ old = None
     \/ pc = "old" /\ text = <<>> /\ old \in OldGraphs
  /\ opt \in Options
  /\ line = 1
  /\ pre = NoGraph /\ kb = NoGraph
  /\ intact = ToSet(Parts)
  /\ cut = Complete
  /\ origin = None

-----------------------------------------------------------------------------
(* Relation types (etype_t).  A mask is the set of its bits.               *)

TypeIndex(rt, t) == CHOOSE i \in DOMAIN rt : rt[i] = t
Known(rt, t)     == \E i \in DOMAIN rt : rt[i] = t

\* add_type counts positions from one; a shift by the width or more is undefined: the
\* processor shifts by the rest, the compiler may fold it to zero.
Shifted(pos) == IF pos < Width THEN {{pos}} ELSE {{pos % Width}, {}}

\* stradd appends the name before it looks at the number of types.
Registered(rt, t) == IF Known(rt, t) THEN rt ELSE Append(rt, t)
TooMany(rt, t)    == ~ Known(rt, t) /\ Len(rt) + 1 > Width

\* Mutant: positions are counted from one when the names are read too.
TypeNamesFromOne(rt, mask) == {rt[b] : b \in {b \in mask : b \in DOMAIN rt}}

\* tvector counts positions from zero, and there are none without names.
TypeNames(rt, mask) ==
  IF rt = <<>> THEN {} ELSE {rt[b + 1] : b \in {b \in mask : b < Len(rt)}}

-----------------------------------------------------------------------------
(* precsr_t::insert_edge.                                                  *)

EdgeProp(g, u, v) == IF <<u, v>> \in Pairs(g) THEN g.prop[<<u, v>>] ELSE [w |-> 0, types |-> {}]

\* Mutant: an edge that is there keeps its weight.
InsertFirst(g, u, v, w, mask) ==
  [g EXCEPT !.V = @ \cup {u, v},
            !.prop = [p \in Pairs(g) \cup {<<u, v>>} |->
                        IF p = <<u, v>>
                        THEN [w |-> IF p \in Pairs(g) THEN g.prop[p].w ELSE w,
                              types |-> EdgeProp(g, u, v).types \cup mask]
                        ELSE g.prop[p]]]

Insert(g, u, v, w, mask) ==
  [g EXCEPT !.V = @ \cup {u, v},
            !.prop = [p \in Pairs(g) \cup {<<u, v>>} |->
                        IF p = <<u, v>>
                        THEN [w |-> w, types |-> EdgeProp(g, u, v).types \cup mask]
                        ELSE g.prop[p]]]

-----------------------------------------------------------------------------
(* Reading relations.                                                      *)

\* parse_line: tokens that are not of the form x:y, unknown keys, no end of the
\* relation; the value of d is only looked at if directions are kept.
Fails(l) == l.bad \/ l.u = None \/ l.v = None \/ (opt.directed /\ l.d = "bad")
Directed(l) == opt.directed /\ l.d = "1"

Allowed(l) == opt.filter => l.s \in opt.sources

Weight(l) == IF l.w = 0 THEN 1 ELSE l.w
TypeOf(l) == IF opt.types THEN l.t ELSE None

Reading == pc = "text" /\ line <= Len(text)
Passed  == Reading /\ ~ text[line].comment
Taken   == Passed /\ ~ Fails(text[line]) /\ Allowed(text[line]) /\ text[line].u # text[line].v

NextLine == line' = line + 1 /\ UNCHANGED <<opt, text, old, intact, cut, origin>>

\* Comments, relations of other sources and self loops.
Skip ==
  /\ Reading
  /\ text[line].comment \/ (~ Fails(text[line]) /\ ~ Taken)
  /\ NextLine /\ UNCHANGED <<pc, pre, kb>>

AddSource(l) == kb' = IF l.s = None THEN kb ELSE [kb EXCEPT !.sources = @ \cup {l.s}]

Relate ==
  /\ Taken
  /\ LET l  == text[line]
         t  == TypeOf(l)
         rt == IF t = None THEN pre.rtypes ELSE Registered(pre.rtypes, t)
     IN /\ t = None \/ ~ TooMany(pre.rtypes, t)
        /\ \E mask \in IF t = None THEN {{}} ELSE Shifted(TypeIndex(rt, t)) :
             LET there == Insert(pre, l.u, l.v, Weight(l), mask) IN
             pre' = [(IF Directed(l) THEN there ELSE Insert(there, l.v, l.u, Weight(l), mask))
                       EXCEPT !.rtypes = rt]
        /\ AddSource(l)
  /\ NextLine /\ UNCHANGED pc

\* What is thrown for a line ends the program, unless malformed input is swallowed.
Caught == pc' = IF opt.swallow THEN pc ELSE "failed"

Malformed ==
  /\ Passed /\ Fails(text[line])
  /\ Caught
  /\ NextLine /\ UNCHANGED <<pre, kb>>

\* One type too many: the edge of the line is inserted, without a type, and neither the
\* opposite edge.
Overflow ==
  /\ Taken
  /\ LET l == text[line] IN
       /\ TypeOf(l) # None /\ TooMany(pre.rtypes, TypeOf(l))
       /\ pre' = [Insert(pre, l.u, l.v, Weight(l), {}) EXCEPT !.rtypes = Append(@, TypeOf(l))]
       /\ AddSource(l)
  /\ Caught /\ NextLine

\* The graph moves to the Kb; the names of the types stay behind in csr_pre.
EndOfText ==
  /\ pc = "text" /\ line > Len(text)
  /\ kb' = [kb EXCEPT !.V = pre.V, !.prop = pre.prop]
  /\ pc' = "built"
  /\ UNCHANGED <<opt, text, line, pre, old, intact, cut, origin>>

-----------------------------------------------------------------------------
(* Converting an old graph.                                                *)

\* Kb16::read_from_stream compares the identifiers behind the maps with that of the
\* format it has chosen by the first one.
Readable(o) == o.later = IF o.first = "v1" THEN "v1" ELSE "16"

\* The edges are inserted by the names of their ends, which a word and a concept may
\* share; edges of the first format have no types.
ConvertEdge ==
  /\ pc = "old" /\ Readable(old) /\ line <= Len(old.edges)
  /\ LET e == old.edges[line] IN
       pre' = Insert(pre, old.name[e.u], old.name[e.v], e.w, e.types)
  /\ line' = line + 1
  /\ UNCHANGED <<pc, opt, text, old, kb, intact, cut, origin>>

Converted ==
  /\ pc = "old" /\ Readable(old) /\ line > Len(old.edges)
  /\ kb' = [pre EXCEPT !.rtypes = old.rtypes, !.sources = old.sources]
  /\ pc' = "built"
  /\ UNCHANGED <<opt, text, line, pre, old, intact, cut, origin>>

ConvertFails ==
  /\ pc = "old" /\ ~ Readable(old)
  /\ pc' = "failed"
  /\ UNCHANGED <<opt, text, line, pre, old, kb, intact, cut, origin>>

-----------------------------------------------------------------------------
(* The image.                                                              *)

\* The program ends with status 0, whatever reached the disk.
Write ==
  /\ pc = "built"
  /\ cut' \in {Complete} \cup [at : DOMAIN Parts, sized : BOOLEAN]
  /\ pc' = "disk"
  /\ text' = <<>> /\ line' = 1 /\ pre' = NoGraph /\ old' = None /\ origin' = None
  /\ UNCHANGED <<opt, kb, intact>>

\* What has been read whole; what has the right number of elements.
Whole(p) == Position(p) < cut.at
Sized(p) == Whole(p) \/ (Position(p) = cut.at /\ cut.sized)

\* The variable id keeps the identifier when nothing more can be read, so that only the
\* first comparison can fail.
Identified == Whole("id1")

\* Mutant: only the vertices are compared.
AssertedVertices == Whole("sizes") /\ Sized("rows")

\* The two assertions: rows tell the number of vertices, columns that of edges.  Without
\* the sizes, what the uninitialised ones are compared with is too large for any vector.
Asserted == Whole("sizes") /\ Sized("rows") /\ (Sized("columns") \/ Pairs(kb) = {})

Read(p) == Whole(p) \/ (p = "columns" /\ Pairs(kb) = {})

Load ==
  /\ pc = "disk" /\ Identified /\ Asserted
  /\ intact' = {p \in ToSet(Parts) : Read(p)}
  /\ pc' = "loaded"
  /\ UNCHANGED <<opt, text, line, pre, old, kb, cut, origin>>

\* Memory runs out over a size that was not read, or a name.
LoadThrows ==
  /\ pc = "disk" /\ cut # Complete
  /\ ~ Identified \/ ~ Whole("sizes") \/ ~ Whole("names") \/ ~ Whole("notes")
  /\ pc' = "failed"
  /\ UNCHANGED <<opt, text, line, pre, old, kb, intact, cut, origin>>

LoadAborts ==
  /\ pc = "disk" /\ Identified /\ ~ Asserted
  /\ pc' = "aborted"
  /\ UNCHANGED <<opt, text, line, pre, old, kb, intact, cut, origin>>

-----------------------------------------------------------------------------
(* compile_kb -t, compiled again.                                          *)

Dumped(u, v, s) ==
  [comment |-> FALSE, bad |-> FALSE, u |-> u, v |-> v, t |-> None, s |-> s, w |-> 0, d |-> "1"]

\* Mutant: an edge is written by its types only.
DumpTyped(g) ==
  SetToSeq(UNION {{Dumped(p[1], p[2], s) : s \in TypeNames(g.rtypes, g.prop[p].types)} :
                  p \in Pairs(g)})

\* write_to_textstream: a line for every type of an edge, as its source.
Dump(g) ==
  SetToSeq(UNION {LET names == TypeNames(g.rtypes, g.prop[p].types) IN
                  {Dumped(p[1], p[2], s) : s \in IF names = {} THEN {None} ELSE names} :
                  p \in Pairs(g)})

DumpText ==
  /\ pc = "loaded" /\ cut = Complete
  /\ text' = Dump(kb) /\ line' = 1
  /\ origin' = Pairs(kb)
  /\ opt' \in Options
  /\ pre' = NoGraph /\ kb' = NoGraph
  /\ pc' = "text"
  /\ UNCHANGED <<old, intact, cut>>

Next ==
  \/ Skip \/ Relate \/ Malformed \/ Overflow \/ EndOfText
  \/ ConvertEdge \/ Converted \/ ConvertFails
  \/ Write \/ Load \/ LoadThrows \/ LoadAborts
  \/ DumpText

Spec == Init /\ [][Next]_vars

-----------------------------------------------------------------------------
(* Properties.                                                             *)

\* A graph names the ends of its edges, and its types fit into a mask.
EdgeProps == [w : Nat, types : SUBSET (0 .. Width - 1)]
GraphOK(g) ==
  /\ DOMAIN g = DOMAIN NoGraph
  /\ g.V \subseteq Names /\ g.sources \subseteq Names
  /\ g.rtypes \in Seq(Names)
  /\ Pairs(g) \subseteq g.V \X g.V /\ IsFiniteSet(Pairs(g))
  /\ g.prop \in [Pairs(g) -> EdgeProps]

TypeOK ==
  /\ pc \in {"text", "old", "built", "disk", "loaded", "failed", "aborted"}
  /\ opt \in Options
  /\ text \in Seq(Lines)
  /\ old \in OldGraphs \cup {None}
  /\ line \in 1 .. (IF old = None THEN Len(text) ELSE Len(old.edges)) + 1
  /\ GraphOK(pre) /\ GraphOK(kb)
  /\ intact \subseteq ToSet(Parts)
  /\ cut \in [at : 1 .. Len(Parts) + 1, sized : BOOLEAN]

\* The lines that count, and the edges that a line means.
Counted == {i \in DOMAIN text :
              LET l == text[i] IN ~ l.comment /\ ~ Fails(l) /\ Allowed(l) /\ l.u # l.v}
Means(l) == {<<l.u, l.v>>} \cup IF Directed(l) THEN {} ELSE {<<l.v, l.u>>}
\* The first line of a type for which no bit is left; its exception, if swallowed, leaves
\* one edge of the line behind, without the opposite one.
TooLate(i) ==
  LET before == {TypeOf(text[j]) : j \in {j \in Counted : j < i}} \ {None} IN
  TypeOf(text[i]) \notin before \cup {None} /\ Cardinality(before) >= Width

Gives(i) == IF TooLate(i) THEN {<<text[i].u, text[i].v>>} ELSE Means(text[i])

\* What the lines D give together, the types being registered in rt: an edge has the weight
\* of the last line that gives it and the bits of the types of all, whatever the last shift
\* makes of them.
IsGraphOf(g, rt, D) ==
  /\ Pairs(g) = UNION {Gives(i) : i \in D}
  /\ \A p \in Pairs(g) :
       LET about   == {i \in D : p \in Gives(i)}
           typed   == {i \in about : TypeOf(text[i]) # None /\ ~ TooLate(i)}
           bits(i) == Shifted(TypeIndex(rt, TypeOf(text[i])))
       IN /\ \E i \in about : g.prop[p].w = Weight(text[i]) /\ \A j \in about : j <= i
          /\ \A i \in typed : \E mask \in bits(i) : mask \subseteq g.prop[p].types
          /\ g.prop[p].types \subseteq UNION {UNION bits(i) : i \in typed}

Compiled == pc = "built" /\ old = None

\* The graph that read_from_txt builds line by line is the one that the relations mean
\* together: their edges, in both directions unless the relation is directed, each with
\* the weight of the last relation about it and the types of all, and no other edge or
\* type.  Only the first relation of a type too many, under --minput, leaves its edge
\* without the opposite, and no other relation loses one.
RelationsKept == Compiled => IsGraphOf(kb, pre.rtypes, Counted)

\* The names of the ends of an old edge.
Ends(o, e) == <<o.name[e.u], o.name[e.v]>>

\* convert2.0 keeps the edges of the old graph and makes no others: two vertices with one
\* name become one, whose edges keep the types of all of them under the names of the
\* types; an edge from a vertex to itself, which both readers refuse, comes about in this
\* way only.
ConversionKeeps ==
  pc = "built" /\ old # None =>
    /\ \A i \in DOMAIN old.edges :
         LET e == old.edges[i] IN
         /\ Ends(old, e) \in Pairs(kb)
         /\ \A b \in e.types : old.rtypes[b + 1] \in TypeNames(kb.rtypes, kb.prop[Ends(old, e)].types)
    /\ \A p \in Pairs(kb) : \E i \in DOMAIN old.edges :
         LET e == old.edges[i] IN Ends(old, e) = p /\ (p[1] = p[2] => e.u # e.v)

\* An image that ends too early, after a disk was full, is refused by the assertions if
\* it ends before its columns: a loaded graph has the names, the rows and the number of
\* edges it was written with (Kb::read_from_stream; the identifiers show nothing of it).
CutRefused ==
  pc = "loaded" /\ Pairs(kb) # {} =>
    {"sources", "rtypes", "map", "sizes", "rows"} \subseteq intact /\ Sized("columns")

\* A graph that compile_kb -t has written and compile_kb reads again has the same edges,
\* directed ones as directed, apart from loops; unless the sources are filtered, among
\* which the types are now.
DumpKeepsEdges ==
  Compiled /\ origin # None /\ ~ opt.filter =>
    LET plain == {p \in origin : p[1] # p[2]} IN
    Pairs(kb) = plain \cup IF opt.directed THEN {} ELSE {<<p[2], p[1]>> : p \in plain}

=============================================================================
