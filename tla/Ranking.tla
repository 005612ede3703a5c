------------------------------ MODULE Ranking -------------------------------
(***************************************************************************)
(* dispatch_run_cs (ukb_wsd.cc): how a context that CtxParser has accepted *)
(* is disambiguated.  The methods differ in the vector of ranks a target   *)
(* word gets: from a PageRank over the whole graph or over a subgraph, one *)
(* for the context or one for every target word, in which the word itself  *)
(* does not take part.                                                     *)
(*                                                                         *)
(* A vector of ranks is its provenance: the computation that filled it.    *)
(* The program keeps one vector for all words of a context and fills it    *)
(* again and again, so that what is in it when a word is ranked is the     *)
(* question.                                                               *)
(***************************************************************************)
EXTENDS Naturals, Sequences, FiniteSets

CONSTANTS Synsets,  \* vertices of the knowledge base
          Contexts, \* accepted contexts: [words, tokens]
          Ties,     \* glVars::output::ties
          Mono      \* glVars::output::monosemous

\* A word has its target flag, whether its control number is 3 or 4 ("nopv"), its weight
\* and the weights of its links; a token its word and whether it is a target.
\* (UniqueWords and Rankable of CtxParser.)
IsSequence(s) == Len(s) \in Nat /\ DOMAIN s = 1 .. Len(s)
IsOver(f, S)  == f = [x \in S |-> f[x]]

ASSUME RankingAssumption ==
  /\ Ties \in BOOLEAN /\ Mono \in BOOLEAN
  /\ \A c \in Contexts :
       /\ IsSequence(c.words) /\ IsSequence(c.tokens)
       /\ \A i \in DOMAIN c.words :
            /\ c.words[i].tgt \in BOOLEAN /\ c.words[i].nopv \in BOOLEAN
            /\ DOMAIN c.words[i].links \subseteq Synsets
            /\ \E v \in DOMAIN c.words[i].links : c.words[i].links[v] # 0
            /\ c.words[i].tgt <=> \E t \in DOMAIN c.tokens : /\ c.tokens[t].idx = i
                                                            /\ c.tokens[t].tgt
       /\ \A t \in DOMAIN c.tokens : c.tokens[t].idx \in DOMAIN c.words

Methods     == {"bfs", "dfs", "ppr", "ppr_w2w", "static"}
RankMethods == {"ppr", "ppr_w2w", "static", "degree"}

\* The provenance of a vector: nothing yet, or a computation and the words that
\* personalised it.
Vector(how, who) == [by |-> how, words |-> who]
NoRanks == Vector("nothing", {})
Static  == Vector("static", {})
Degree  == Vector("degree", {})

\* What a word gets from a place in a vector that is not its synset's.
Garbage == Vector("garbage", {})

VARIABLES
  method,  \* opt_dmethod
  drank,   \* dgraph_rank_method
  warn,    \* glVars::debug::warning, set by --verbose
  cs,      \* the context
  pc,      \* "dispatch", then the loop the program is in, then "print", "done"
  cw,      \* the word the loop is at
  dg,      \* the synsets of the context that are vertices of the DisambGraph
  ranks,   \* the vector
  mranks,  \* m_ranks of every word
  sorted,  \* m_syns and m_ranks have been sorted (m_V never is)
  disamb,  \* m_disamb
  out      \* the tokens that were printed

optVars == <<method, drank, warn, cs>>
vars == <<optVars, pc, cw, dg, ranks, mranks, sorted, disamb, out>>

Word(i)     == cs.words[i]
Size        == Len(cs.words)
Links(i)    == DOMAIN Word(i).links
Monosemous(i) == Cardinality(Links(i)) = 1
HasTgtWords == \E i \in 1 .. Size : Word(i).tgt

Init ==
  /\ method \in Methods
  /\ drank \in RankMethods
  /\ warn \in BOOLEAN
  /\ cs \in Contexts
  /\ pc = "dispatch"
  /\ cw = 1
  /\ dg = {}
  /\ ranks = NoRanks
  /\ mranks = [i \in 1 .. Size |-> NoRanks]
  /\ sorted = [i \in 1 .. Size |-> FALSE]
  /\ disamb = [i \in 1 .. Size |-> Monosemous(i)]
  /\ out = {}

-----------------------------------------------------------------------------
(* The personalisation vector.                                             *)

\* Mutant: the word that is ranked takes part.
OthersAll(k) == 1 .. Size

\* The words that pv_from_cs_onlyC goes through, whatever their control numbers.
Others(k) == (1 .. Size) \ {k}

\* Whether it enters links (their number is its result), the PageRank that
\* follows, and the synsets that got more than zero.
Inserted(k) == Others(k) # {}
Ppr(k) == Vector("ppr", Others(k))

Support(k) ==
  {v \in Synsets : \E i \in Others(k) : /\ v \in Links(i)
                                       /\ Word(i).w # 0
                                       /\ Word(i).links[v] # 0}

\* Mutant: an empty subgraph is not noticed.
DgraphPprOkAlways(k) == HasTgtWords /\ Inserted(k)

\* dgraph_ppr: false if the vector vanishes when it is carried over to the subgraph.
DgraphPprOk(k) == HasTgtWords /\ Inserted(k) /\ Support(k) \cap dg # {}

-----------------------------------------------------------------------------
(* A word is ranked and disambiguated.                                     *)

\* Mutant: the test for equal ranks is dropped.
DisambCwordAlways(i, r) ==
  /\ disamb' = [disamb EXCEPT ![i] = TRUE]
  /\ sorted' = [sorted EXCEPT ![i] = ~ Monosemous(i)]

\* disamb_cword: the synsets are sorted unless all ranks are equal, as those are that
\* were never set.
DisambCword(i, r) ==
  \/ /\ Monosemous(i)
     /\ disamb' = [disamb EXCEPT ![i] = TRUE]
     /\ UNCHANGED sorted
  \/ /\ ~ Monosemous(i)
     /\ r # NoRanks
     /\ disamb' = [disamb EXCEPT ![i] = TRUE]
     /\ sorted' = [sorted EXCEPT ![i] = TRUE]
  \/ /\ ~ Monosemous(i)
     /\ UNCHANGED <<disamb, sorted>>

\* rank_synsets with the ranks of the whole graph: without a vector nothing happens,
\* and the vertices of m_V are those of m_syns until these are sorted.
RankKb(i, r) == IF r = NoRanks THEN mranks[i] ELSE IF sorted[i] THEN Garbage ELSE r

\* rank_synsets with those of a subgraph: zero for a synset that is not in it, and what
\* lies behind the vector for one that is, if the vector was never filled.
RankDgraph(i, r) ==
  IF Links(i) \cap dg = {} THEN NoRanks ELSE IF r = NoRanks THEN Garbage ELSE r

Rank(i, r) ==
  /\ mranks' = [mranks EXCEPT ![i] = r]
  /\ DisambCword(i, r)

Loop(l) == pc' = l /\ cw' = 1
Finish  == pc' = "print" /\ cw' = 1

-----------------------------------------------------------------------------
(* dispatch_run_cs and the functions it calls, up to their loops.          *)

StaticCsent ==
  /\ pc = "dispatch"
  /\ method = "static"
  /\ ranks' = Static
  /\ Loop("kb")
  /\ UNCHANGED <<optVars, dg, mranks, sorted, disamb, out>>

\* A context of one word falls back to static.
DgraphSingle ==
  /\ pc = "dispatch"
  /\ method \in {"bfs", "dfs"}
  /\ Size = 1
  /\ ranks' = Static
  /\ Loop("kb")
  /\ UNCHANGED <<optVars, dg, mranks, sorted, disamb, out>>

PprCsent ==
  /\ pc = "dispatch"
  /\ method = "ppr"
  /\ ranks' = IF Inserted(0) THEN Ppr(0) ELSE NoRanks
  /\ IF ~ Inserted(0) /\ warn THEN Finish ELSE Loop("kb")
  /\ UNCHANGED <<optVars, dg, mranks, sorted, disamb, out>>

PprW2wCsent ==
  /\ pc = "dispatch"
  /\ method = "ppr_w2w"
  /\ Loop("kb_w2w")
  /\ UNCHANGED <<optVars, dg, ranks, mranks, sorted, disamb, out>>

ContextSynsets == UNION {Links(i) : i \in 1 .. Size}

\* build_dgraph: the breadth first search adds every synset it starts from, the depth
\* first search those at the ends of the paths it finds, two at least.
BuildDgraph ==
  /\ pc = "dispatch"
  /\ method \in {"bfs", "dfs"}
  /\ Size # 1
  /\ dg' \in IF method = "bfs" THEN {ContextSynsets}
             ELSE {S \in SUBSET ContextSynsets : Cardinality(S) # 1}
  /\ Loop(IF drank = "ppr_w2w" THEN "dg_w2w" ELSE "rank")
  /\ UNCHANGED <<optVars, ranks, mranks, sorted, disamb, out>>

\* rank_dgraph: one vector for the context.
RankContext ==
  /\ pc = "rank"
  /\ LET ok == CASE drank = "ppr"    -> DgraphPprOk(0)
                 [] drank = "static" -> dg # {}
                 [] drank = "degree" -> TRUE
     IN /\ ranks' = IF ~ ok THEN ranks
                    ELSE CASE drank = "ppr"    -> Ppr(0)
                           [] drank = "static" -> Static
                           [] drank = "degree" -> Degree
        /\ IF ~ ok /\ warn THEN Finish ELSE Loop("dg")
  /\ UNCHANGED <<optVars, dg, mranks, sorted, disamb, out>>

-----------------------------------------------------------------------------
(* The loops over the unique words.                                        *)

Looping(l) == pc = l /\ cw <= Size
Advance    == cw' = cw + 1 /\ UNCHANGED pc

SkipWord ==
  /\ \E l \in {"kb", "kb_w2w", "dg", "dg_w2w"} : Looping(l)
  /\ ~ Word(cw).tgt
  /\ Advance
  /\ UNCHANGED <<optVars, dg, ranks, mranks, sorted, disamb, out>>

\* disamb_csentence_kb
KbWord ==
  /\ Looping("kb")
  /\ Word(cw).tgt
  /\ Rank(cw, RankKb(cw, ranks))
  /\ Advance
  /\ UNCHANGED <<optVars, dg, ranks, out>>

\* disamb_csentence_dgraph
DgraphWord ==
  /\ Looping("dg")
  /\ Word(cw).tgt
  /\ Rank(cw, RankDgraph(cw, ranks))
  /\ Advance
  /\ UNCHANGED <<optVars, dg, ranks, out>>

\* Mutant: the loop ends at the first word that needs no ranks.
KbW2wWordBreaks ==
  /\ Looping("kb_w2w")
  /\ Word(cw).tgt
  /\ IF ~ Monosemous(cw) /\ Inserted(cw)
       THEN ranks' = Ppr(cw) /\ Rank(cw, RankKb(cw, Ppr(cw))) /\ Advance
       ELSE DisambCword(cw, mranks[cw]) /\ Finish /\ UNCHANGED <<ranks, mranks>>
  /\ UNCHANGED <<optVars, dg, out>>

\* ppr_w2w_csent: a monosemous word, or one without others, is not ranked.
KbW2wWord ==
  /\ Looping("kb_w2w")
  /\ Word(cw).tgt
  /\ IF ~ Monosemous(cw) /\ Inserted(cw)
       THEN ranks' = Ppr(cw) /\ Rank(cw, RankKb(cw, Ppr(cw)))
       ELSE DisambCword(cw, mranks[cw]) /\ UNCHANGED <<ranks, mranks>>
  /\ Advance
  /\ UNCHANGED <<optVars, dg, out>>

\* dgraph_w2w_csent: if the subgraph cannot rank the word the program returns, but only
\* if it has warned; else it goes on with the vector as it is.
DgraphW2wWord ==
  /\ Looping("dg_w2w")
  /\ Word(cw).tgt
  /\ IF DgraphPprOk(cw)
       THEN ranks' = Ppr(cw) /\ Rank(cw, RankDgraph(cw, Ppr(cw))) /\ Advance
       ELSE /\ UNCHANGED ranks
            /\ IF warn THEN Finish /\ UNCHANGED <<mranks, sorted, disamb>>
               ELSE Rank(cw, RankDgraph(cw, ranks)) /\ Advance
  /\ UNCHANGED <<optVars, dg, out>>

EndLoop ==
  /\ pc \in {"kb", "kb_w2w", "dg", "dg_w2w"}
  /\ cw > Size
  /\ Finish
  /\ UNCHANGED <<optVars, dg, ranks, mranks, sorted, disamb, out>>

-----------------------------------------------------------------------------
(* print_csent.                                                            *)

IsPrinted(t) == LET i == cs.tokens[t].idx IN
  /\ cs.tokens[t].tgt
  /\ disamb[i] \/ Ties
  /\ ~ Monosemous(i) \/ Mono

\* (The order is that of the tokens.)
PrintCsent ==
  /\ pc = "print"
  /\ out' = {t \in DOMAIN cs.tokens : IsPrinted(t)}
  /\ pc' = "done"
  /\ UNCHANGED <<optVars, cw, dg, ranks, mranks, sorted, disamb>>

Next ==
  \/ StaticCsent \/ DgraphSingle \/ PprCsent \/ PprW2wCsent
  \/ BuildDgraph \/ RankContext
  \/ SkipWord \/ KbWord \/ DgraphWord \/ KbW2wWord \/ DgraphW2wWord \/ EndLoop
  \/ PrintCsent

Spec == Init /\ [][Next]_vars

-----------------------------------------------------------------------------
(* Properties.                                                             *)

\* The words that personalise a vector: all but word i are what the documentation of
\* the methods names, but for those that it says are "not used in PageRank calculation"
\* (README, control numbers 3 and 4; csentence.h: "Does not affect initial PV
\* calculation").  The code uses them.
Documented(i)   == {j \in 1 .. Size : j # i /\ ~ Word(j).nopv}
Undocumented(i) == {j \in 1 .. Size : j # i /\ Word(j).nopv}
AllBut(i)       == Documented(i) \cup Undocumented(i)

\* The vector that the method promises for word i, if such words are counted in.
OwnVector(i) ==
  IF method = "static" \/ (method \in {"bfs", "dfs"} /\ (Size = 1 \/ drank = "static")) THEN Static
  ELSE IF method = "ppr" \/ (method # "ppr_w2w" /\ drank = "ppr") THEN Vector("ppr", AllBut(0))
  ELSE IF method = "ppr_w2w" \/ drank = "ppr_w2w" THEN Vector("ppr", AllBut(i))
  ELSE Degree

\* The subgraph has no place for the personalisation vector of word i.
Unplaced(i) ==
  /\ method \in {"bfs", "dfs"}
  /\ Size # 1
  /\ \/ drank = "ppr" /\ Support(0) \cap dg = {}
     \/ drank = "ppr_w2w" /\ Support(i) \cap dg = {}

\* What such a word finds in the vector: the ranks of the last target before it that had
\* a place, or what lies behind a vector that was never filled.
PlacedBefore(i) == {j \in 1 .. i - 1 : Word(j).tgt /\ ~ Unplaced(j)}

IsLeftover(i, r) ==
  IF PlacedBefore(i) = {} THEN r = Garbage
  ELSE \E j \in PlacedBefore(i) : r = OwnVector(j) /\ \A k \in PlacedBefore(i) : k <= j

\* The type invariant; a word that is not a target is never ranked.
TypeOK ==
  /\ method \in Methods
  /\ drank \in RankMethods
  /\ warn \in BOOLEAN
  /\ cs \in Contexts
  /\ pc \in {"dispatch", "rank", "kb", "kb_w2w", "dg", "dg_w2w", "print", "done"}
  /\ cw \in 1 .. Size + 1
  /\ dg \subseteq Synsets
  /\ sorted \in [1 .. Size -> BOOLEAN]
  /\ disamb \in [1 .. Size -> BOOLEAN]
  /\ IsOver(mranks, 1 .. Size)
  /\ \A i \in 1 .. Size : mranks[i] # NoRanks => Word(i).tgt

\* The one vector serves all words, but every word is ranked by its own computation
\* (word by word: by one without the word itself, of all others), and once, because a
\* word that has been sorted cannot be ranked again.  Two things are not as documented:
\* nopv words personalise the ranks of the others; and where a subgraph has no place for
\* the vector of a word the program leaves it without ranks only if it warns (--verbose).
\* Else it ranks the word by what another word has left in the vector.
OwnRanks ==
  \A i \in 1 .. Size :
    mranks[i] # NoRanks =>
      IF Unplaced(i) THEN ~ warn /\ IsLeftover(i, mranks[i]) ELSE mranks[i] = OwnVector(i)

\* Without --ties an answer of several synsets has been sorted by its ranks, and not
\* left as the dictionary lists it.
AnswersHaveReason ==
  ~ Ties => \A t \in out :
    LET i == cs.tokens[t].idx IN
    Monosemous(i) \/ (sorted[i] /\ mranks[i] # NoRanks)

\* No target is passed over: in the end every one that has synsets to choose from and
\* other words to be ranked by has ranks, unless a subgraph has no place for its
\* vector, or for that of a word before it when warnings are on.
AllRanked ==
  pc = "done" => \A i \in 1 .. Size :
    \/ ~ Word(i).tgt \/ Monosemous(i) \/ Size = 1
    \/ method \in {"bfs", "dfs"} /\ Links(i) \cap dg = {}
    \/ \E j \in 1 .. i : Unplaced(j)
    \/ mranks[i] # NoRanks

=============================================================================
