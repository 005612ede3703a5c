--------------------------- MODULE RankingProofs ----------------------------
(***************************************************************************)
(* Proofs about Ranking, for every set of contexts: the type invariant,    *)
(* that every word is ranked by its own computation, although one vector   *)
(* serves them all, or by which other one, that no answer is given without *)
(* ranks, and that no word is passed over.                                 *)
(*                                                                         *)
(* The inductive invariant says which vector belongs to which loop         *)
(* (Vectors), and that the words a loop has not reached have not been      *)
(* ranked (Untouched), so that none of them is sorted when it is.          *)
(***************************************************************************)
EXTENDS Ranking, TLAPS

Subgraph == method \in {"bfs", "dfs"}

\* What the words before word i have left in the vector of dgraph_w2w_csent.
Carried(i, r) == IF PlacedBefore(i) = {} THEN r = NoRanks ELSE IsLeftover(i, r)

\* The vector of a loop is the own one of its words, or the subgraph has no place for it; a
\* word by word loop fills it for each word that has.
Vectors ==
  /\ pc = "kb" => /\ ~ Subgraph \/ Size = 1
                  /\ ranks = NoRanks \/ \A i \in 1 .. Size : ranks = OwnVector(i)
  /\ pc = "kb_w2w" => method = "ppr_w2w"
  /\ pc = "rank" => Subgraph /\ Size # 1 /\ drank # "ppr_w2w" /\ ranks = NoRanks
  /\ pc = "dg" => /\ Subgraph /\ Size # 1 /\ drank # "ppr_w2w"
                  /\ \A i \in 1 .. Size :
                       IF Unplaced(i) THEN ranks = NoRanks /\ ~ warn
                       ELSE \/ ranks = OwnVector(i)
                            \/ ranks = NoRanks /\ (dg = {} \/ ~ HasTgtWords)
  /\ pc = "dg_w2w" => Subgraph /\ Size # 1 /\ drank = "ppr_w2w" /\ Carried(cw, ranks)

\* Nobody has ranked the words that are still to come.
Untouched ==
  /\ pc \in {"dispatch", "rank"} => cw = 1 /\ ranks = NoRanks
  /\ pc \in {"dispatch", "rank", "kb", "kb_w2w", "dg", "dg_w2w"} =>
       \A i \in 1 .. Size : i >= cw => mranks[i] = NoRanks /\ sorted[i] = FALSE

\* Ranks that word i may have.
IsOwn(i, r) ==
  r # NoRanks => IF Unplaced(i) THEN ~ warn /\ IsLeftover(i, r) ELSE r = OwnVector(i)

IInv == TypeOK /\ Vectors /\ Untouched /\ OwnRanks

-----------------------------------------------------------------------------

\* A context is a sequence of words, of which there are some number.
LEMMA SizeIsNat ==
  ASSUME TypeOK PROVE Size \in Nat
BY RankingAssumption DEF TypeOK, Size, IsSequence

\* Nothing but the word itself is left out of its vector.
LEMMA OthersAllBut ==
  \A i \in 1 .. Size : Others(i) = AllBut(i)
BY DEF Others, AllBut, Documented, Undocumented

LEMMA OthersOfNobody ==
  ASSUME TypeOK PROVE Others(0) = AllBut(0)
BY SizeIsNat DEF Others, AllBut, Documented, Undocumented

\* No word's own vector is empty.
LEMMA OwnIsSome == \A i : OwnVector(i) # NoRanks
BY DEF OwnVector, Static, Degree, Vector, NoRanks

\* A vector of no words supports nothing.
LEMMA NoSupport ==
  ASSUME NEW k, ~ Inserted(k) PROVE Support(k) = {}
BY DEF Inserted, Support

\* Ranks of a subgraph: the vector itself, nothing, or what lies behind no vector.
LEMMA RankDgraphCases ==
  ASSUME NEW i, NEW r
  PROVE  \/ RankDgraph(i, r) = NoRanks
         \/ RankDgraph(i, r) = Garbage /\ r = NoRanks /\ Links(i) \cap dg # {}
         \/ RankDgraph(i, r) = r
BY DEF RankDgraph

\* What disamb_cword does to the flags of words.
LEMMA DisambTyped ==
  ASSUME TypeOK, NEW i \in 1 .. Size, NEW r, DisambCword(i, r)
  PROVE  /\ disamb' \in [1 .. Size -> BOOLEAN]
         /\ sorted' \in [1 .. Size -> BOOLEAN]
         /\ \A j \in 1 .. Size : j # i => sorted'[j] = sorted[j]
BY DEF TypeOK, DisambCword

\* The options do not change.
LEMMA SameOptions ==
  ASSUME UNCHANGED <<optVars, dg>>
  PROVE  /\ Size' = Size /\ Subgraph' = Subgraph /\ HasTgtWords' = HasTgtWords
         /\ \A i : Word(i)' = Word(i) /\ OwnVector(i)' = OwnVector(i) /\ Unplaced(i)' = Unplaced(i)
         /\ \A i : PlacedBefore(i)' = PlacedBefore(i)
<1>1. method' = method /\ drank' = drank /\ warn' = warn /\ cs' = cs /\ dg' = dg
  BY DEF optVars
<1>2. /\ Size' = Size /\ Subgraph' = Subgraph /\ HasTgtWords' = HasTgtWords
      /\ \A i : Word(i)' = Word(i)
  BY <1>1 DEF Size, Subgraph, HasTgtWords, Word
<1>3. \A i : AllBut(i)' = AllBut(i)
  BY <1>2 DEF AllBut, Documented, Undocumented
<1>4. \A i : OwnVector(i)' = OwnVector(i)
  BY <1>1, <1>2, <1>3 DEF OwnVector
<1>5. \A i : Unplaced(i)' = Unplaced(i)
  BY <1>1, <1>2 DEF Unplaced, Support, Others, Links
<1>6. \A i : PlacedBefore(i)' = PlacedBefore(i)
  BY <1>2, <1>5 DEF PlacedBefore
<1> QED BY <1>2, <1>4, <1>5, <1>6

\* Nor do the ranks that words may have.
LEMMA OwnRanksKept ==
  ASSUME UNCHANGED <<optVars, dg, mranks>>, OwnRanks PROVE OwnRanks'
<1>1. Size' = Size /\ warn' = warn
  BY SameOptions DEF optVars
<1> SUFFICES ASSUME NEW i \in 1 .. Size, mranks[i] # NoRanks
             PROVE  IF Unplaced(i)' THEN ~ warn /\ IsLeftover(i, mranks[i])' ELSE mranks[i] = OwnVector(i)'
    BY <1>1 DEF OwnRanks
<1>2. IF Unplaced(i) THEN ~ warn /\ IsLeftover(i, mranks[i]) ELSE mranks[i] = OwnVector(i)
  BY DEF OwnRanks
<1>3. Unplaced(i)' = Unplaced(i) /\ OwnVector(i)' = OwnVector(i)
  BY SameOptions
<1>4. IsLeftover(i, mranks[i]) => IsLeftover(i, mranks[i])'
  BY SameOptions DEF IsLeftover
<1> QED BY <1>2, <1>3, <1>4

\* What the loop has carried to the word that it goes on to.
LEMMA CarriedOn ==
  ASSUME UNCHANGED <<optVars, dg>>, NEW i, i = cw', NEW r, r = ranks', Carried(i, r)
  PROVE  Carried(cw, ranks)'
<1>1. PlacedBefore(cw)' = PlacedBefore(i)
  <2>1. PlacedBefore(cw)' = PlacedBefore(i)'
    BY DEF PlacedBefore
  <2> QED BY <2>1, SameOptions
<1>2. \A j : OwnVector(j)' = OwnVector(j)
  BY SameOptions
<1> QED BY <1>1, <1>2 DEF Carried, IsLeftover

-----------------------------------------------------------------------------

\* A step that leaves the words alone and enters or leaves a loop.
LEMMA InitIInv == Init => IInv
<1> SUFFICES ASSUME Init PROVE IInv
    OBVIOUS
<1>0. Size \in Nat
  BY RankingAssumption DEF Init, Size, IsSequence
<1>1. TypeOK
  BY <1>0 DEF Init, TypeOK, Monosemous, IsOver
<1>2. Vectors
  BY DEF Init, Vectors
<1>3. Untouched
  BY DEF Init, Untouched
<1>4. OwnRanks
  BY DEF Init, OwnRanks
<1> QED BY <1>1, <1>2, <1>3, <1>4 DEF IInv

\* The steps before the loops.
LEMMA DispatchStep ==
  ASSUME IInv, StaticCsent \/ DgraphSingle \/ PprCsent \/ PprW2wCsent
  PROVE  IInv'
<1>0. /\ TypeOK /\ Vectors /\ Untouched /\ OwnRanks /\ Size \in Nat /\ pc = "dispatch"
  BY SizeIsNat DEF IInv, StaticCsent, DgraphSingle, PprCsent, PprW2wCsent
<1>1. UNCHANGED <<optVars, dg, mranks, sorted, disamb, out>>
  BY DEF StaticCsent, DgraphSingle, PprCsent, PprW2wCsent
<1>2. pc' \in {"kb", "kb_w2w", "print"} /\ cw' = 1
  BY DEF StaticCsent, DgraphSingle, PprCsent, PprW2wCsent, Loop, Finish
<1>3. TypeOK'
  BY <1>0, <1>1, <1>2 DEF TypeOK, optVars, Size, Word
<1>4. pc' = "kb_w2w" => method = "ppr_w2w"
  BY DEF StaticCsent, DgraphSingle, PprCsent, PprW2wCsent, Loop, Finish
<1>5. pc' = "kb" => /\ ~ Subgraph \/ Size = 1
                    /\ ranks' = NoRanks \/ \A i \in 1 .. Size : ranks' = OwnVector(i)
  <2>1. CASE StaticCsent
    BY <2>1 DEF StaticCsent, OwnVector, Subgraph
  <2>2. CASE DgraphSingle
    BY <2>2 DEF DgraphSingle, OwnVector
  <2>3. CASE PprCsent
    <3>1. Ppr(0) = Vector("ppr", AllBut(0))
      BY <1>0, OthersOfNobody DEF Ppr
    <3> QED BY <2>3, <3>1 DEF PprCsent, OwnVector, Subgraph
  <2>4. CASE PprW2wCsent
    BY <2>4 DEF PprW2wCsent, Loop
  <2> QED BY <2>1, <2>2, <2>3, <2>4
<1>6. Vectors'
  BY <1>1, <1>2, <1>4, <1>5, SameOptions DEF Vectors, optVars
<1>7. Untouched'
  BY <1>0, <1>1, <1>2, SameOptions DEF Untouched
<1>8. OwnRanks'
  BY <1>0, <1>1, OwnRanksKept
<1> QED BY <1>3, <1>6, <1>7, <1>8 DEF IInv

\* The subgraph is built before anything is ranked.
LEMMA BuildStep ==
  ASSUME IInv, BuildDgraph PROVE IInv'
<1>0. TypeOK /\ Untouched /\ Size \in Nat /\ pc = "dispatch" /\ Size # 1
  BY SizeIsNat DEF IInv, BuildDgraph
<1>1. UNCHANGED <<optVars, ranks, mranks, sorted, disamb, out>> /\ Subgraph
  BY DEF BuildDgraph, Subgraph
<1>2. /\ pc' = IF drank = "ppr_w2w" THEN "dg_w2w" ELSE "rank"
      /\ cw' = 1
  BY DEF BuildDgraph, Loop
<1>3. Size' = Size /\ Subgraph' /\ drank' = drank /\ \A i : Word(i)' = Word(i)
  BY <1>1 DEF optVars, Size, Subgraph, Word
<1>4. \A i \in 1 .. Size : mranks[i] = NoRanks /\ sorted[i] = FALSE
  BY <1>0 DEF Untouched
<1>5. dg' \subseteq Synsets
  <2>1. ContextSynsets \subseteq Synsets
    <3> SUFFICES ASSUME NEW i \in 1 .. Size PROVE Links(i) \subseteq Synsets
        BY DEF ContextSynsets
    <3>1. cs \in Contexts /\ i \in DOMAIN cs.words
      BY <1>0, RankingAssumption DEF TypeOK, Size, IsSequence
    <3> QED BY <3>1, RankingAssumption DEF Links, Word
  <2> QED BY <2>1 DEF BuildDgraph
<1>6. TypeOK'
  BY <1>0, <1>1, <1>2, <1>3, <1>5 DEF TypeOK, optVars
<1>7. ranks = NoRanks
  BY <1>0 DEF Untouched
<1>8. Vectors'
  <2>1. drank = "ppr_w2w" => Carried(cw, ranks)'
    <3>1. PlacedBefore(cw)' = {}
      BY <1>2 DEF PlacedBefore
    <3>2. ranks' = NoRanks
      BY <1>1, <1>7
    <3> QED BY <3>1, <3>2 DEF Carried
  <2> QED BY <1>0, <1>1, <1>2, <1>3, <1>7, <2>1 DEF Vectors
<1>9. Untouched'
  BY <1>0, <1>1, <1>2, <1>3, <1>4, <1>7 DEF Untouched
<1>10. OwnRanks'
  BY <1>1, <1>3, <1>4 DEF OwnRanks
<1> QED BY <1>6, <1>8, <1>9, <1>10 DEF IInv

\* One vector for a context that has a subgraph.
LEMMA RankContextStep ==
  ASSUME IInv, RankContext PROVE IInv'
<1>0. /\ TypeOK /\ Vectors /\ Untouched /\ OwnRanks /\ Size \in Nat
      /\ pc = "rank" /\ Subgraph /\ Size # 1 /\ drank # "ppr_w2w" /\ ranks = NoRanks
  BY SizeIsNat DEF IInv, RankContext, Vectors
<1>1. UNCHANGED <<optVars, dg, mranks, sorted, disamb, out>>
  BY DEF RankContext
<1>2. pc' \in {"dg", "print"} /\ cw' = 1
  BY DEF RankContext, Loop, Finish
<1>3. TypeOK'
  BY <1>0, <1>1, <1>2 DEF TypeOK, optVars, Size, Word
<1>4. Untouched'
  BY <1>0, <1>1, <1>2, SameOptions DEF Untouched
<1>5. OwnRanks'
  BY <1>0, <1>1, OwnRanksKept
<1>6. ASSUME pc' = "dg", NEW i \in 1 .. Size
      PROVE  IF Unplaced(i) THEN ranks' = NoRanks /\ ~ warn
             ELSE \/ ranks' = OwnVector(i)
                  \/ ranks' = NoRanks /\ (dg = {} \/ ~ HasTgtWords)
  <2>0. method \in {"bfs", "dfs"} /\ drank \in {"ppr", "static", "degree"}
    BY <1>0 DEF TypeOK, RankMethods, Subgraph
  <2>1. CASE drank = "ppr"
    <3>1. OwnVector(i) = Ppr(0)
      BY <1>0, <2>0, <2>1, OthersOfNobody DEF OwnVector, Ppr
    <3>2. Unplaced(i) <=> Support(0) \cap dg = {}
      BY <1>0, <2>0, <2>1 DEF Unplaced
    <3>3. CASE DgraphPprOk(0)
      BY <2>1, <3>1, <3>2, <3>3 DEF RankContext, DgraphPprOk
    <3>4. CASE ~ DgraphPprOk(0)
      <4>1. ranks' = NoRanks /\ ~ warn
        BY <1>0, <1>6, <2>1, <3>4 DEF RankContext, Finish
      <4>2. ~ HasTgtWords \/ Support(0) \cap dg = {}
        BY <3>4, NoSupport DEF DgraphPprOk
      <4> QED BY <3>2, <4>1, <4>2
    <3> QED BY <3>3, <3>4
  <2>2. CASE drank = "static"
    <3>1. OwnVector(i) = Static /\ ~ Unplaced(i)
      BY <2>0, <2>2 DEF OwnVector, Unplaced
    <3>2. CASE dg # {}
      BY <2>2, <3>1, <3>2 DEF RankContext
    <3>3. CASE dg = {}
      BY <1>0, <1>6, <2>2, <3>1, <3>3 DEF RankContext, Finish
    <3> QED BY <3>2, <3>3
  <2>3. CASE drank = "degree"
    <3>1. OwnVector(i) = Degree /\ ~ Unplaced(i)
      BY <1>0, <2>0, <2>3 DEF OwnVector, Unplaced
    <3> QED BY <2>3, <3>1 DEF RankContext
  <2> QED BY <2>0, <2>1, <2>2, <2>3
<1>7. Vectors'
  BY <1>0, <1>1, <1>2, <1>6, SameOptions DEF Vectors, optVars
<1> QED BY <1>3, <1>4, <1>5, <1>7 DEF IInv

-----------------------------------------------------------------------------

\* The loop goes on behind a word that was ranked as it should be, or left alone.
LEMMA WordRanked ==
  ASSUME IInv, pc \in {"kb", "kb_w2w", "dg", "dg_w2w"}, cw <= Size, Word(cw).tgt,
         UNCHANGED <<optVars, dg, out>>, Advance,
         NEW r, mranks' = [mranks EXCEPT ![cw] = r],
         DisambCword(cw, r),
         IsOwn(cw, r),
         pc \in {"kb", "dg"} => ranks' = ranks,
         NEW v, v = ranks', NEW n, n = cw + 1, pc = "dg_w2w" => Carried(n, v)
  PROVE  IInv'
<1>0. /\ TypeOK /\ Vectors /\ Untouched /\ OwnRanks /\ Size \in Nat
      /\ cw \in 1 .. Size /\ cw' = cw + 1 /\ pc' = pc
  BY SizeIsNat DEF IInv, TypeOK, Advance
<1>1. /\ Size' = Size /\ Subgraph' = Subgraph /\ HasTgtWords' = HasTgtWords
      /\ \A i : Word(i)' = Word(i) /\ OwnVector(i)' = OwnVector(i) /\ Unplaced(i)' = Unplaced(i)
      /\ method' = method /\ drank' = drank /\ warn' = warn /\ dg' = dg /\ cs' = cs
  BY SameOptions DEF optVars
<1>2. /\ disamb' \in [1 .. Size -> BOOLEAN] /\ sorted' \in [1 .. Size -> BOOLEAN]
      /\ \A j \in 1 .. Size : j # cw => sorted'[j] = sorted[j]
  BY <1>0, DisambTyped
<1>3. /\ IsOver(mranks', 1 .. Size)
      /\ mranks'[cw] = r
      /\ \A j \in 1 .. Size : j # cw => mranks'[j] = mranks[j]
  BY <1>0 DEF TypeOK, IsOver
<1>4. TypeOK'
  <2>1. \A i \in 1 .. Size : mranks'[i] # NoRanks => Word(i).tgt
    BY <1>0, <1>3 DEF TypeOK
  <2>2. cw' \in 1 .. Size + 1
    BY <1>0
  <2> QED BY <1>0, <1>1, <1>2, <1>3, <2>1, <2>2 DEF TypeOK
<1>5. Vectors'
  <2>1. pc = "dg_w2w" => Carried(cw, ranks)'
    BY <1>0, CarriedOn
  <2> QED BY <1>0, <1>1, <2>1 DEF Vectors
<1>6. Untouched'
  <2>1. \A i \in 1 .. Size : i >= cw' => mranks'[i] = NoRanks /\ sorted'[i] = FALSE
    BY <1>0, <1>2, <1>3 DEF Untouched
  <2> QED BY <1>0, <1>1, <2>1 DEF Untouched
<1>7. OwnRanks'
  <2> SUFFICES ASSUME NEW i \in 1 .. Size, NEW q, q = mranks'[i], q # NoRanks
               PROVE  IF Unplaced(i) THEN ~ warn /\ IsLeftover(i, q)' ELSE q = OwnVector(i)
      BY <1>1 DEF OwnRanks, IsLeftover
  <2>1. IsOwn(i, q)
    BY <1>0, <1>3 DEF OwnRanks, IsOwn
  <2>2. IsLeftover(i, q) => IsLeftover(i, q)'
    BY SameOptions DEF IsLeftover
  <2> QED BY <2>1, <2>2 DEF IsOwn
<1> QED BY <1>4, <1>5, <1>6, <1>7 DEF IInv

\* A word that has not been ranked is not sorted, and its ranks are those of the vector.
LEMMA KbStep ==
  ASSUME IInv, KbWord PROVE IInv'
<1>0. /\ TypeOK /\ Vectors /\ Untouched /\ Size \in Nat /\ pc = "kb"
      /\ cw \in 1 .. Size
  BY SizeIsNat DEF IInv, TypeOK, KbWord, Looping
<1>1. mranks[cw] = NoRanks /\ sorted[cw] = FALSE
  BY <1>0 DEF Untouched
<1>2. RankKb(cw, ranks) = ranks
  BY <1>1 DEF RankKb
<1>3. (ranks = NoRanks \/ ranks = OwnVector(cw)) /\ ~ Unplaced(cw)
  BY <1>0 DEF Vectors, Unplaced, Subgraph
<1>4. PICK r : r = ranks
  OBVIOUS
<1>5. mranks' = [mranks EXCEPT ![cw] = r] /\ DisambCword(cw, r)
  BY <1>2, <1>4 DEF KbWord, Rank
<1>6. IsOwn(cw, r)
  BY <1>3, <1>4 DEF IsOwn
<1> QED BY <1>0, <1>5, <1>6, WordRanked DEF KbWord, Looping

\* With a subgraph, a word without synsets in it gets nothing, and one without a vector
\* can only get what lies behind it if the subgraph had no place for the vector.
LEMMA DgStep ==
  ASSUME IInv, DgraphWord PROVE IInv'
<1>0. /\ TypeOK /\ Vectors /\ Size \in Nat /\ pc = "dg" /\ Word(cw).tgt
      /\ cw \in 1 .. Size
  BY SizeIsNat DEF IInv, TypeOK, DgraphWord, Looping
<1>1. PICK r : r = RankDgraph(cw, ranks)
  OBVIOUS
<1>2. /\ IF Unplaced(cw) THEN ranks = NoRanks /\ ~ warn
         ELSE \/ ranks = OwnVector(cw)
              \/ ranks = NoRanks /\ (dg = {} \/ ~ HasTgtWords)
      /\ drank # "ppr_w2w"
  BY <1>0 DEF Vectors
<1>3. HasTgtWords
  BY <1>0 DEF HasTgtWords
<1>4. \/ r = NoRanks
      \/ r = Garbage /\ ranks = NoRanks /\ dg # {}
      \/ r = ranks
  BY <1>1, RankDgraphCases
<1>5. IsOwn(cw, r)
  <2>1. CASE Unplaced(cw)
    <3>1. PlacedBefore(cw) = {}
      BY <1>2, <2>1 DEF PlacedBefore, Unplaced
    <3> QED BY <1>2, <1>4, <2>1, <3>1 DEF IsOwn, IsLeftover
  <2>2. CASE ~ Unplaced(cw)
    BY <1>2, <1>3, <1>4, <2>2, OwnIsSome DEF IsOwn
  <2> QED BY <2>1, <2>2
<1>6. mranks' = [mranks EXCEPT ![cw] = r] /\ DisambCword(cw, r)
  BY <1>1 DEF DgraphWord, Rank
<1> QED BY <1>0, <1>5, <1>6, WordRanked DEF DgraphWord, Looping

\* Word by word over the whole graph.
LEMMA KbW2wStep ==
  ASSUME IInv, KbW2wWord PROVE IInv'
<1>0. /\ TypeOK /\ Vectors /\ Untouched /\ Size \in Nat /\ pc = "kb_w2w"
      /\ cw \in 1 .. Size /\ method = "ppr_w2w"
  BY SizeIsNat DEF IInv, TypeOK, Vectors, KbW2wWord, Looping
<1>1. mranks[cw] = NoRanks /\ sorted[cw] = FALSE
  BY <1>0 DEF Untouched
<1>2. OwnVector(cw) = Vector("ppr", AllBut(cw)) /\ ~ Unplaced(cw)
  BY <1>0 DEF OwnVector, Unplaced
<1>3. Ppr(cw) = OwnVector(cw)
  BY <1>0, <1>2, OthersAllBut DEF Ppr
<1>4. CASE ~ Monosemous(cw) /\ Inserted(cw)
  <2>1. PICK r : r = Ppr(cw)
    OBVIOUS
  <2>2. Ppr(cw) # NoRanks
    BY DEF Ppr, NoRanks, Vector
  <2>3. RankKb(cw, Ppr(cw)) = r
    BY <1>1, <2>1, <2>2 DEF RankKb
  <2>4. mranks' = [mranks EXCEPT ![cw] = r] /\ DisambCword(cw, r)
    BY <1>4, <2>3 DEF KbW2wWord, Rank
  <2>5. IsOwn(cw, r)
    BY <1>2, <1>3, <2>1 DEF IsOwn
  <2> QED BY <1>0, <2>4, <2>5, WordRanked DEF KbW2wWord, Looping
<1>5. CASE ~ (~ Monosemous(cw) /\ Inserted(cw))
  <2>1. PICK r : r = mranks[cw]
    OBVIOUS
  <2>2. mranks' = [mranks EXCEPT ![cw] = r] /\ DisambCword(cw, r)
    BY <1>0, <1>5, <2>1 DEF KbW2wWord, TypeOK, IsOver
  <2>3. IsOwn(cw, r)
    BY <1>1, <2>1 DEF IsOwn
  <2> QED BY <1>0, <2>2, <2>3, WordRanked DEF KbW2wWord, Looping
<1> QED BY <1>4, <1>5

\* A step that ends the loops.
LEMMA FinishStep ==
  ASSUME IInv, UNCHANGED <<optVars, dg, mranks, sorted, disamb>>,
         pc' \in {"print", "done"}, cw' \in {1, cw}
  PROVE  IInv'
<1>0. TypeOK /\ OwnRanks /\ Size \in Nat
  BY SizeIsNat DEF IInv
<1>1. TypeOK'
  BY <1>0 DEF TypeOK, optVars, Size, Word
<1>2. Vectors'
  BY DEF Vectors
<1>3. Untouched'
  BY DEF Untouched
<1>4. OwnRanks'
  BY <1>0, OwnRanksKept
<1> QED BY <1>1, <1>2, <1>3, <1>4 DEF IInv

\* Word by word over a subgraph.
LEMMA DgW2wStep ==
  ASSUME IInv, DgraphW2wWord PROVE IInv'
<1>0. /\ TypeOK /\ Vectors /\ Size \in Nat /\ pc = "dg_w2w" /\ Word(cw).tgt
      /\ cw \in 1 .. Size /\ Subgraph /\ Size # 1 /\ drank = "ppr_w2w" /\ Carried(cw, ranks)
  BY SizeIsNat DEF IInv, TypeOK, Vectors, DgraphW2wWord, Looping
<1>1. Ppr(cw) = OwnVector(cw)
  BY <1>0, OthersAllBut DEF Ppr, OwnVector, Subgraph
<1>2. Unplaced(cw) <=> Support(cw) \cap dg = {}
  BY <1>0 DEF Unplaced, Subgraph
<1>3. CASE DgraphPprOk(cw)
  <2>0. ~ Unplaced(cw)
    BY <1>2, <1>3 DEF DgraphPprOk
  <2>1. PICK r : r = RankDgraph(cw, Ppr(cw))
    OBVIOUS
  <2>2. Ppr(cw) # NoRanks
    BY DEF Ppr, NoRanks, Vector
  <2>3. IsOwn(cw, r)
    BY <1>1, <2>0, <2>1, <2>2, RankDgraphCases DEF IsOwn
  <2>4. /\ mranks' = [mranks EXCEPT ![cw] = r] /\ DisambCword(cw, r) /\ Advance
        /\ ranks' = Ppr(cw)
    BY <1>3, <2>1 DEF DgraphW2wWord, Rank
  <2>5. PICK v, n : v = ranks' /\ n = cw + 1
    OBVIOUS
  <2>6. Carried(n, v)
    <3>1. cw \in PlacedBefore(n) /\ \A k \in PlacedBefore(n) : k <= cw
      BY <1>0, <2>0, <2>5 DEF PlacedBefore
    <3>2. v = OwnVector(cw)
      BY <1>1, <2>4, <2>5
    <3> QED BY <3>1, <3>2 DEF Carried, IsLeftover
  <2> QED BY <1>0, <2>3, <2>4, <2>5, <2>6, WordRanked DEF DgraphW2wWord, Looping
<1>4. CASE ~ DgraphPprOk(cw) /\ warn
  BY <1>4, FinishStep DEF DgraphW2wWord, Finish
<1>5. CASE ~ DgraphPprOk(cw) /\ ~ warn
  <2>1. Unplaced(cw)
    <3>1. HasTgtWords
      BY <1>0 DEF HasTgtWords
    <3> QED BY <1>2, <1>5, <3>1, NoSupport DEF DgraphPprOk
  <2>2. PICK r : r = RankDgraph(cw, ranks)
    OBVIOUS
  <2>3. /\ mranks' = [mranks EXCEPT ![cw] = r] /\ DisambCword(cw, r) /\ Advance
        /\ ranks' = ranks
    BY <1>5, <2>2 DEF DgraphW2wWord, Rank
  <2>4. IsOwn(cw, r)
    <3>1. \/ r = NoRanks
          \/ r = Garbage /\ ranks = NoRanks
          \/ r = ranks
      BY <2>2 DEF RankDgraph
    <3>2. CASE PlacedBefore(cw) = {}
      BY <1>0, <1>5, <2>1, <3>1, <3>2 DEF IsOwn, Carried, IsLeftover
    <3>3. CASE PlacedBefore(cw) # {}
      <4>1. IsLeftover(cw, ranks) /\ ranks # NoRanks
        BY <1>0, <3>3, OwnIsSome DEF Carried, IsLeftover
      <4> QED BY <1>5, <2>1, <3>1, <4>1 DEF IsOwn
    <3> QED BY <3>2, <3>3
  <2>5. PICK v, n : v = ranks' /\ n = cw + 1
    OBVIOUS
  <2>6. Carried(n, v)
    <3>1. PlacedBefore(n) = PlacedBefore(cw)
      BY <1>0, <2>1, <2>5 DEF PlacedBefore
    <3>2. v = ranks
      BY <2>3, <2>5
    <3> QED BY <1>0, <3>1, <3>2 DEF Carried, IsLeftover
  <2> QED BY <1>0, <2>3, <2>4, <2>5, <2>6, WordRanked DEF DgraphW2wWord, Looping
<1> QED BY <1>3, <1>4, <1>5

\* A word that is no target is passed over.
LEMMA SkipStep ==
  ASSUME IInv, SkipWord PROVE IInv'
<1>0. /\ TypeOK /\ Vectors /\ Untouched /\ OwnRanks /\ Size \in Nat
      /\ cw \in 1 .. Size /\ cw' = cw + 1 /\ pc' = pc
      /\ UNCHANGED <<optVars, dg, ranks, mranks, sorted, disamb, out>>
  BY SizeIsNat DEF IInv, TypeOK, SkipWord, Looping, Advance
<1>1. TypeOK'
  BY <1>0 DEF TypeOK, optVars, Size, Word
<1>2. Vectors'
  <2>1. PICK v, n : v = ranks' /\ n = cw'
    OBVIOUS
  <2>2. ASSUME pc = "dg_w2w" PROVE Carried(n, v)
    <3>1. PlacedBefore(n) = PlacedBefore(cw)
      <4>1. ~ Word(cw).tgt /\ n = cw + 1
        BY <1>0, <2>1 DEF SkipWord
      <4> QED BY <1>0, <4>1 DEF PlacedBefore
    <3> QED BY <1>0, <2>1, <2>2, <3>1 DEF Vectors, Carried, IsLeftover
  <2>3. pc = "dg_w2w" => Carried(cw, ranks)'
    BY <1>0, <2>1, <2>2, CarriedOn
  <2> QED BY <1>0, <2>3, SameOptions DEF Vectors, optVars
<1>3. Untouched'
  <2>1. pc \notin {"dispatch", "rank"}
    BY DEF SkipWord, Looping
  <2> QED BY <1>0, <2>1, SameOptions DEF Untouched
<1>4. OwnRanks'
  BY <1>0, OwnRanksKept
<1> QED BY <1>1, <1>2, <1>3, <1>4 DEF IInv

\* A step keeps the inductive invariant.
LEMMA StepIInv == IInv /\ [Next]_vars => IInv'
<1> SUFFICES ASSUME IInv, [Next]_vars PROVE IInv'
    OBVIOUS
<1>1. CASE StaticCsent \/ DgraphSingle \/ PprCsent \/ PprW2wCsent
  BY <1>1, DispatchStep
<1>2. CASE BuildDgraph
  BY <1>2, BuildStep
<1>3. CASE RankContext
  BY <1>3, RankContextStep
<1>4. CASE SkipWord
  BY <1>4, SkipStep
<1>5. CASE KbWord
  BY <1>5, KbStep
<1>6. CASE DgraphWord
  BY <1>6, DgStep
<1>7. CASE KbW2wWord
  BY <1>7, KbW2wStep
<1>8. CASE DgraphW2wWord
  BY <1>8, DgW2wStep
<1>9. CASE EndLoop
  BY <1>9, FinishStep DEF EndLoop, Finish
<1>10. CASE PrintCsent
  BY <1>10, FinishStep DEF PrintCsent
<1>11. CASE UNCHANGED vars
  <2>1. UNCHANGED <<optVars, pc, cw, dg, ranks, mranks, sorted, disamb, out>>
    BY <1>11 DEF vars
  <2>2. TypeOK /\ Vectors /\ Untouched /\ OwnRanks
    BY DEF IInv
  <2>3. TypeOK'
    BY <2>1, <2>2 DEF TypeOK, optVars, Size, Word
  <2>4. Vectors'
    <3>1. PICK v, n : v = ranks' /\ n = cw'
      OBVIOUS
    <3>2. pc = "dg_w2w" => Carried(cw, ranks)'
      BY <2>1, <2>2, <3>1, CarriedOn DEF Vectors
    <3> QED BY <2>1, <2>2, <3>2, SameOptions DEF Vectors, optVars
  <2>5. Untouched'
    BY <2>1, <2>2, SameOptions DEF Untouched
  <2>6. OwnRanks'
    BY <2>1, <2>2, OwnRanksKept
  <2> QED BY <2>3, <2>4, <2>5, <2>6 DEF IInv
<1> QED BY <1>1, <1>2, <1>3, <1>4, <1>5, <1>6, <1>7, <1>8, <1>9, <1>10, <1>11 DEF Next

\* The inductive invariant holds always.
THEOREM Invariance == Spec => []IInv
<1> QED BY InitIInv, StepIInv, PTL DEF Spec

\* The variables keep their types, and only targets are ranked (ukb_wsd.cc).
THEOREM TypesHold == Spec => []TypeOK
<1>1. IInv => TypeOK
  BY DEF IInv
<1> QED BY <1>1, Invariance, PTL

\* Whatever the context, a word is ranked by its own computation, or has no ranks; but
\* without warnings, and a place in the subgraph for its vector, it is ranked by the one of
\* the last target before it that had a place, or by none.
THEOREM RanksAreOwn == Spec => []OwnRanks
<1>1. IInv => OwnRanks
  BY DEF IInv
<1> QED BY <1>1, Invariance, PTL

-----------------------------------------------------------------------------
(* Answers.                                                                *)

\* A word is disambiguated by its ranks if at all, and only such words are printed.
Reasons ==
  /\ \A i \in 1 .. Size : disamb[i] => Monosemous(i) \/ (sorted[i] /\ mranks[i] # NoRanks)
  /\ ~ Ties => \A t \in out : t \in DOMAIN cs.tokens /\ disamb[cs.tokens[t].idx]

\* A step that leaves the words alone.
LEMMA ReasonsKept ==
  ASSUME Reasons, UNCHANGED <<cs, mranks, sorted, disamb, out>> PROVE Reasons'
BY DEF Reasons, Size, Monosemous, Links, Word

\* The step that ranks a word: it has not been sorted before, so that it does not lose
\* the ranks it has been sorted by.
LEMMA ReasonsRanked ==
  ASSUME IInv, Reasons, pc \in {"kb", "kb_w2w", "dg", "dg_w2w"}, cw <= Size,
         cs' = cs, out' = out,
         NEW r, mranks' = [mranks EXCEPT ![cw] = r], DisambCword(cw, r)
  PROVE  Reasons'
<1>0. /\ Size \in Nat /\ cw \in 1 .. Size /\ Size' = Size /\ sorted[cw] = FALSE
      /\ \A i : Monosemous(i)' <=> Monosemous(i)
      /\ IsOver(mranks, 1 .. Size)
  BY SizeIsNat DEF IInv, TypeOK, Untouched, Size, Monosemous, Links, Word
<1>1. disamb \in [1 .. Size -> BOOLEAN] /\ sorted \in [1 .. Size -> BOOLEAN]
  BY DEF IInv, TypeOK
<1>2. mranks'[cw] = r /\ \A i \in 1 .. Size : i # cw => mranks'[i] = mranks[i]
  BY <1>0 DEF IsOver
<1>3. disamb[cw] => Monosemous(cw)
  BY <1>0 DEF Reasons
<1>4. /\ \A i \in 1 .. Size : i # cw => disamb'[i] = disamb[i] /\ sorted'[i] = sorted[i]
      /\ disamb'[cw] => Monosemous(cw) \/ (sorted'[cw] /\ r # NoRanks)
      /\ \A i \in 1 .. Size : disamb[i] => disamb'[i]
  BY <1>0, <1>1, <1>3 DEF DisambCword
<1>5. \A i \in 1 .. Size : disamb'[i] => Monosemous(i) \/ (sorted'[i] /\ mranks'[i] # NoRanks)
  BY <1>0, <1>2, <1>4 DEF Reasons
<1>6. ~ Ties => \A t \in out : t \in DOMAIN cs.tokens /\ disamb'[cs.tokens[t].idx]
  <2> SUFFICES ASSUME ~ Ties, NEW t \in out
               PROVE  t \in DOMAIN cs.tokens /\ disamb'[cs.tokens[t].idx]
    OBVIOUS
  <2>1. t \in DOMAIN cs.tokens /\ disamb[cs.tokens[t].idx]
    BY DEF Reasons
  <2>2. cs.tokens[t].idx \in 1 .. Size
    BY <2>1, RankingAssumption DEF IInv, TypeOK, Size, IsSequence
  <2> QED BY <2>1, <2>2, <1>4
<1> QED BY <1>0, <1>5, <1>6 DEF Reasons

\* A step keeps the reasons.
LEMMA StepReasons == IInv /\ Reasons /\ [Next]_vars => Reasons'
<1> SUFFICES ASSUME IInv, Reasons, [Next]_vars PROVE Reasons'
    OBVIOUS
<1>1. CASE \/ StaticCsent \/ DgraphSingle \/ PprCsent \/ PprW2wCsent \/ BuildDgraph
           \/ RankContext \/ SkipWord \/ EndLoop
  BY <1>1, ReasonsKept DEF optVars, StaticCsent, DgraphSingle, PprCsent, PprW2wCsent,
       BuildDgraph, RankContext, SkipWord, EndLoop
<1>2. CASE KbWord
  <2>1. PICK r : r = RankKb(cw, ranks)
    OBVIOUS
  <2> QED BY <1>2, <2>1, ReasonsRanked DEF KbWord, Rank, Looping, optVars
<1>3. CASE DgraphWord
  <2>1. PICK r : r = RankDgraph(cw, ranks)
    OBVIOUS
  <2> QED BY <1>3, <2>1, ReasonsRanked DEF DgraphWord, Rank, Looping, optVars
<1>4. CASE KbW2wWord /\ ~ Monosemous(cw) /\ Inserted(cw)
  <2>1. PICK r : r = RankKb(cw, Ppr(cw))
    OBVIOUS
  <2> QED BY <1>4, <2>1, ReasonsRanked DEF KbW2wWord, Rank, Looping, optVars
<1>5. CASE KbW2wWord /\ ~ (~ Monosemous(cw) /\ Inserted(cw))
  <2>1. PICK r : r = mranks[cw]
    OBVIOUS
  <2>2. IsOver(mranks, 1 .. Size)
    BY DEF IInv, TypeOK
  <2>3. mranks' = [mranks EXCEPT ![cw] = r] /\ DisambCword(cw, r)
    BY <1>5, <2>1, <2>2 DEF KbW2wWord, IsOver
  <2> QED BY <1>5, <2>3, ReasonsRanked DEF KbW2wWord, Looping, optVars
<1>6. CASE DgraphW2wWord /\ DgraphPprOk(cw)
  <2>1. PICK r : r = RankDgraph(cw, Ppr(cw))
    OBVIOUS
  <2> QED BY <1>6, <2>1, ReasonsRanked DEF DgraphW2wWord, Rank, Looping, optVars
<1>7. CASE DgraphW2wWord /\ ~ DgraphPprOk(cw) /\ warn
  BY <1>7, ReasonsKept DEF DgraphW2wWord, optVars
<1>8. CASE DgraphW2wWord /\ ~ DgraphPprOk(cw) /\ ~ warn
  <2>1. PICK r : r = RankDgraph(cw, ranks)
    OBVIOUS
  <2> QED BY <1>8, <2>1, ReasonsRanked DEF DgraphW2wWord, Rank, Looping, optVars
<1>9. CASE PrintCsent
  <2>1. UNCHANGED <<cs, mranks, sorted, disamb>> /\ out' = {t \in DOMAIN cs.tokens : IsPrinted(t)}
    BY <1>9 DEF PrintCsent, optVars
  <2>2. ~ Ties => \A t \in out' : t \in DOMAIN cs.tokens /\ disamb[cs.tokens[t].idx]
    BY <2>1 DEF IsPrinted
  <2> QED BY <2>1, <2>2 DEF Reasons, Size, Monosemous, Links, Word
<1>10. CASE UNCHANGED vars
  BY <1>10, ReasonsKept DEF vars, optVars
<1> QED BY <1>1, <1>2, <1>3, <1>4, <1>5, <1>6, <1>7, <1>8, <1>9, <1>10 DEF Next

\* Without --ties, whatever is printed for a word of several synsets is the choice of the
\* word's own ranks, and never the first synset of the dictionary for want of ranks.
THEOREM AnswersHold == Spec => []AnswersHaveReason
<1>1. Init => Reasons
  BY DEF Init, Reasons
<1>2. IInv /\ Reasons => AnswersHaveReason
  <2> SUFFICES ASSUME IInv, Reasons, ~ Ties, NEW t \in out
               PROVE  LET i == cs.tokens[t].idx IN
                      Monosemous(i) \/ (sorted[i] /\ mranks[i] # NoRanks)
      BY DEF AnswersHaveReason
  <2>1. t \in DOMAIN cs.tokens /\ disamb[cs.tokens[t].idx]
    BY DEF Reasons
  <2>2. cs.tokens[t].idx \in 1 .. Size
    BY <2>1, RankingAssumption DEF IInv, TypeOK, Size, IsSequence
  <2> QED BY <2>1, <2>2 DEF Reasons
<1> QED BY <1>1, <1>2, InitIInv, StepIInv, StepReasons, PTL DEF Spec

-----------------------------------------------------------------------------
(* No word is passed over.                                                 *)

\* A word that has been ranked, or need not or cannot be.
Settled(i) ==
  \/ ~ Word(i).tgt \/ Monosemous(i) \/ Size = 1
  \/ Subgraph /\ Links(i) \cap dg = {}
  \/ \E j \in 1 .. i : Unplaced(j)
  \/ mranks[i] # NoRanks

\* The words that a loop has passed are settled, and all of them when it has ended; the
\* loop over the whole graph has a vector.
Passed ==
  /\ pc \in {"kb", "kb_w2w", "dg", "dg_w2w"} => \A i \in 1 .. Size : i < cw => Settled(i)
  /\ pc \in {"print", "done"} => \A i \in 1 .. Size : Settled(i)
  /\ pc = "kb" => ranks # NoRanks \/ Size = 0

\* A word stays settled while the options and its ranks do.
LEMMA SettledKept ==
  ASSUME UNCHANGED <<optVars, dg>>, NEW i, mranks'[i] = mranks[i], Settled(i)
  PROVE  Settled(i)'
<1>1. /\ Size' = Size /\ Subgraph' = Subgraph /\ Word(i)' = Word(i)
      /\ \A j : Unplaced(j)' = Unplaced(j)
  BY SameOptions
<1>2. Links(i)' = Links(i) /\ Monosemous(i)' = Monosemous(i)
  BY <1>1 DEF Links, Monosemous
<1> QED BY <1>1, <1>2 DEF Settled

\* A vector of others is none of nobody.
LEMMA NoOthers ==
  ASSUME Size \in Nat, NEW k \in 0 .. Size, ~ Inserted(k)
  PROVE  IF k = 0 THEN Size = 0 ELSE Size = 1
<1>1. (1 .. Size) \ {k} = {}
  BY DEF Inserted, Others
<1>2. CASE k = 0
  <2>1. Size # 0 => 1 \in (1 .. Size) \ {k}
    BY <1>2
  <2> QED BY <1>1, <1>2, <2>1
<1>3. CASE k # 0
  <2>1. Size # 1 => \E j \in (1 .. Size) \ {k} : TRUE
    <3>1. CASE k = 1
      <4>1. Size # 1 => 2 \in (1 .. Size) \ {k}
        BY <1>3, <3>1
      <4> QED BY <4>1
    <3>2. CASE k # 1
      <4>1. 1 \in (1 .. Size) \ {k}
        BY <1>3, <3>2
      <4> QED BY <4>1
    <3> QED BY <3>1, <3>2
  <2> QED BY <1>1, <1>3, <2>1
<1> QED BY <1>2, <1>3

\* A subgraph that has no vector for a target word has no place for it.
LEMMA NotOk ==
  ASSUME NEW i \in 1 .. Size, Word(i).tgt, NEW k, ~ DgraphPprOk(k)
  PROVE  Support(k) \cap dg = {}
<1>1. HasTgtWords
  BY DEF HasTgtWords
<1> QED BY <1>1, NoSupport DEF DgraphPprOk

\* The loop goes on behind a word that is settled by its step.
LEMMA PassedOn ==
  ASSUME IInv, Passed, pc \in {"kb", "kb_w2w", "dg", "dg_w2w"}, cw <= Size,
         UNCHANGED <<optVars, dg>>, Advance, pc = "kb" => ranks' = ranks,
         NEW w, w = cw, Settled(w)',
         \A j \in 1 .. Size : j # w => mranks'[j] = mranks[j]
  PROVE  Passed'
<1>0. Size \in Nat /\ cw \in 1 .. Size /\ cw' = cw + 1 /\ pc' = pc /\ Size' = Size
  BY SizeIsNat, SameOptions DEF IInv, TypeOK, Advance
<1>1. ASSUME NEW i \in 1 .. Size, i < cw' PROVE Settled(i)'
  <2>1. CASE i = w
    BY <2>1, Zenon
  <2>2. CASE i # w
    <3>1. i < cw
      BY <1>0, <1>1, <2>2
    <3>2. Settled(i)
      BY <3>1 DEF Passed
    <3>3. mranks'[i] = mranks[i]
      BY <2>2
    <3> QED BY <3>2, <3>3, SettledKept
  <2> QED BY <2>1, <2>2
<1>2. pc' = "kb" => ranks' # NoRanks \/ Size' = 0
  BY <1>0 DEF Passed
<1>3. pc' \notin {"print", "done"}
  BY <1>0
<1> QED BY <1>0, <1>1, <1>2, <1>3, Zenon DEF Passed

\* The loops end when all words are settled.
LEMMA PassedAll ==
  ASSUME UNCHANGED <<optVars, dg, mranks>>, pc' \in {"print", "done"},
         \A i \in 1 .. Size : Settled(i)
  PROVE  Passed'
<1>1. Size' = Size
  BY SameOptions
<1>2. \A i \in 1 .. Size : Settled(i)'
  BY SettledKept
<1>3. pc' \notin {"kb", "kb_w2w", "dg", "dg_w2w"}
  OBVIOUS
<1> QED BY <1>1, <1>2, <1>3 DEF Passed

\* A loop begins with no word passed.
LEMMA PassedNone ==
  ASSUME IInv, cw' = 1, pc' \in {"rank", "kb", "kb_w2w", "dg", "dg_w2w"},
         pc' = "kb" => ranks' # NoRanks \/ Size' = 0
  PROVE  Passed'
<1>1. \A i \in 1 .. Size' : ~ i < cw'
  OBVIOUS
<1>2. pc' \notin {"print", "done"}
  OBVIOUS
<1> QED BY <1>1, <1>2 DEF Passed

\* Vectors are no vector of nothing.
LEMMA VectorsFilled ==
  /\ Static # NoRanks /\ Degree # NoRanks /\ Garbage # NoRanks
  /\ \A k : Ppr(k) # NoRanks
BY DEF Static, Degree, Garbage, NoRanks, Ppr, Vector

\* A word with synsets in the subgraph gets ranks from it, whatever the vector.
LEMMA RankedByDgraph ==
  ASSUME NEW i, NEW r, Links(i) \cap dg # {} PROVE RankDgraph(i, r) # NoRanks
BY VectorsFilled DEF RankDgraph

\* A word whose ranks a loop over a subgraph has set is settled.
LEMMA SettledByDgraph ==
  ASSUME IInv, Subgraph, UNCHANGED <<optVars, dg>>, NEW w \in 1 .. Size, NEW r,
         mranks' = [mranks EXCEPT ![w] = RankDgraph(w, r)]
  PROVE  /\ Settled(w)'
         /\ \A j \in 1 .. Size : j # w => mranks'[j] = mranks[j]
<1>0. IsOver(mranks, 1 .. Size)
  BY DEF IInv, TypeOK
<1>1. /\ mranks'[w] = RankDgraph(w, r)
      /\ \A j \in 1 .. Size : j # w => mranks'[j] = mranks[j]
  <2> PICK x : x = RankDgraph(w, r)
    OBVIOUS
  <2> QED BY <1>0 DEF IsOver
<1>2. CASE Links(w) \cap dg = {}
  <2>1. Links(w)' = Links(w) /\ dg' = dg /\ Subgraph'
    BY SameOptions DEF Links, optVars
  <2>2. Links(w)' \cap dg' = {}
    BY <1>2, <2>1
  <2> QED BY <1>1, <2>1, <2>2 DEF Settled
<1>3. CASE Links(w) \cap dg # {}
  <2>1. mranks'[w] # NoRanks
    BY <1>1, <1>3, RankedByDgraph
  <2> QED BY <1>1, <2>1 DEF Settled
<1> QED BY <1>2, <1>3

\* One vector for the context: there is none only if nothing can be ranked by it.
LEMMA PassedRankContext ==
  ASSUME IInv, RankContext PROVE Passed'
<1>0. /\ TypeOK /\ Subgraph /\ Size \in Nat /\ pc = "rank" /\ drank # "ppr_w2w" /\ Size # 1
      /\ UNCHANGED <<optVars, dg, mranks>>
  BY SizeIsNat DEF IInv, RankContext, Vectors
<1>1. CASE Loop("dg")
  BY <1>1, PassedNone DEF Loop
<1>2. CASE Finish
  <2>1. drank = "ppr" => ~ DgraphPprOk(0)
    BY <1>2 DEF RankContext, Finish, Loop
  <2>2. drank = "static" => dg = {}
    BY <1>2 DEF RankContext, Finish, Loop
  <2>3. drank # "degree"
    BY <1>2 DEF RankContext, Finish, Loop
  <2>4. drank \in {"ppr", "static"}
    BY <1>0, <2>3 DEF TypeOK, RankMethods
  <2>5. ASSUME NEW i \in 1 .. Size PROVE Settled(i)
    <3>1. CASE ~ Word(i).tgt
      BY <3>1 DEF Settled
    <3>2. CASE drank = "static"
      BY <1>0, <2>2, <3>2 DEF Settled
    <3>3. CASE Word(i).tgt /\ drank = "ppr"
      <4>1. Support(0) \cap dg = {}
        BY <2>1, <3>3, NotOk
      <4>2. Unplaced(i)
        BY <1>0, <3>3, <4>1 DEF Unplaced, Subgraph
      <4>3. i \in 1 .. i
        BY <1>0
      <4> QED BY <4>2, <4>3 DEF Settled
    <3> QED BY <2>4, <3>1, <3>2, <3>3
  <2> QED BY <1>0, <1>2, <2>5, PassedAll DEF Finish
<1> QED BY <1>1, <1>2 DEF RankContext

\* Every word of the loop over the whole graph gets the vector.
LEMMA PassedKb ==
  ASSUME IInv, Passed, KbWord PROVE Passed'
<1>0. /\ TypeOK /\ Untouched /\ Size \in Nat /\ pc = "kb" /\ cw \in 1 .. Size
      /\ IsOver(mranks, 1 .. Size) /\ UNCHANGED <<optVars, dg, ranks>>
  BY SizeIsNat DEF IInv, TypeOK, KbWord, Looping
<1> PICK w : w = cw
  OBVIOUS
<1>1. sorted[cw] = FALSE /\ ranks # NoRanks
  BY <1>0 DEF Untouched, Passed
<1> PICK r : r = RankKb(w, ranks)
  OBVIOUS
<1>2. r # NoRanks
  BY <1>1 DEF RankKb
<1>3. mranks' = [mranks EXCEPT ![w] = r]
  BY DEF KbWord, Rank
<1>4. mranks'[w] # NoRanks /\ \A j \in 1 .. Size : j # w => mranks'[j] = mranks[j]
  BY <1>0, <1>2, <1>3 DEF IsOver
<1>5. Settled(w)'
  BY <1>0, <1>4 DEF Settled
<1>6. cw <= Size /\ Advance /\ ranks' = ranks
  BY <1>0 DEF KbWord
<1> QED BY <1>0, <1>4, <1>5, <1>6, PassedOn

\* A word of the loop that ranks word by word is ranked, has one synset or is alone.
LEMMA PassedKbW2w ==
  ASSUME IInv, Passed, KbW2wWord PROVE Passed'
<1>0. /\ TypeOK /\ Untouched /\ Size \in Nat /\ pc = "kb_w2w" /\ cw \in 1 .. Size
      /\ IsOver(mranks, 1 .. Size) /\ UNCHANGED <<optVars, dg>> /\ Advance /\ cw <= Size
  BY SizeIsNat DEF IInv, TypeOK, KbW2wWord, Looping
<1> PICK w : w = cw
  OBVIOUS
<1>1. CASE ~ Monosemous(cw) /\ Inserted(cw)
  <2>1. sorted[cw] = FALSE
    BY <1>0 DEF Untouched
  <2> PICK r : r = RankKb(w, Ppr(w))
    OBVIOUS
  <2>2. r # NoRanks
    BY <2>1, VectorsFilled DEF RankKb
  <2>3. mranks' = [mranks EXCEPT ![w] = r]
    BY <1>1 DEF KbW2wWord, Rank
  <2>4. mranks'[w] # NoRanks /\ \A j \in 1 .. Size : j # w => mranks'[j] = mranks[j]
    BY <1>0, <2>2, <2>3 DEF IsOver
  <2>5. Settled(w)'
    BY <1>0, <2>4 DEF Settled
  <2> QED BY <1>0, <2>4, <2>5, PassedOn
<1>2. CASE ~ (~ Monosemous(cw) /\ Inserted(cw))
  <2>1. mranks' = mranks
    BY <1>2 DEF KbW2wWord
  <2>2. Monosemous(cw) \/ Size = 1
    BY <1>0, <1>2, NoOthers
  <2>3. Settled(w)
    BY <2>2 DEF Settled
  <2>4. Settled(w)'
    BY <1>0, <2>1, <2>3, SettledKept
  <2> QED BY <1>0, <2>1, <2>4, PassedOn
<1> QED BY <1>1, <1>2

\* With a subgraph, a word that cannot be ranked ends the loop, if there are warnings,
\* and settles those behind it.
LEMMA PassedDgW2w ==
  ASSUME IInv, Passed, DgraphW2wWord PROVE Passed'
<1>0. /\ TypeOK /\ Vectors /\ Size \in Nat /\ pc = "dg_w2w" /\ cw \in 1 .. Size
      /\ UNCHANGED <<optVars, dg>> /\ cw <= Size /\ Word(cw).tgt
      /\ Subgraph /\ drank = "ppr_w2w" /\ Size # 1
  BY SizeIsNat DEF IInv, TypeOK, Vectors, DgraphW2wWord, Looping
<1> PICK w : w = cw
  OBVIOUS
<1>1. CASE DgraphPprOk(cw)
  <2>1. mranks' = [mranks EXCEPT ![w] = RankDgraph(w, Ppr(w))] /\ Advance
    BY <1>1 DEF DgraphW2wWord, Rank
  <2>2. /\ Settled(w)'
        /\ \A j \in 1 .. Size : j # w => mranks'[j] = mranks[j]
    BY <1>0, <2>1, SettledByDgraph
  <2> QED BY <1>0, <2>1, <2>2, PassedOn
<1>2. CASE ~ DgraphPprOk(cw) /\ ~ warn
  <2>1. mranks' = [mranks EXCEPT ![w] = RankDgraph(w, ranks)] /\ Advance
    BY <1>2 DEF DgraphW2wWord, Rank
  <2>2. /\ Settled(w)'
        /\ \A j \in 1 .. Size : j # w => mranks'[j] = mranks[j]
    BY <1>0, <2>1, SettledByDgraph
  <2> QED BY <1>0, <2>1, <2>2, PassedOn
<1>3. CASE ~ DgraphPprOk(cw) /\ warn
  <2>1. UNCHANGED <<optVars, dg, mranks>> /\ pc' \in {"print", "done"}
    BY <1>0, <1>3 DEF DgraphW2wWord, Finish
  <2>2. Unplaced(cw)
    BY <1>0, <1>3, NotOk DEF Unplaced, Subgraph
  <2>3. ASSUME NEW i \in 1 .. Size PROVE Settled(i)
    <3>1. CASE i < cw
      BY <1>0, <3>1 DEF Passed
    <3>2. CASE ~ i < cw
      <4>1. cw \in 1 .. i
        BY <1>0, <3>2
      <4> QED BY <2>2, <4>1 DEF Settled
    <3> QED BY <3>1, <3>2
  <2> QED BY <2>1, <2>3, PassedAll
<1> QED BY <1>1, <1>2, <1>3

\* Every step settles the words that it passes.
LEMMA StepPassed == IInv /\ Passed /\ [Next]_vars => Passed'
<1> SUFFICES ASSUME IInv, Passed, [Next]_vars PROVE Passed'
  OBVIOUS
<1>0. TypeOK /\ Size \in Nat /\ cw \in 1 .. Size + 1
  BY SizeIsNat DEF IInv, TypeOK
<1>1. CASE StaticCsent \/ DgraphSingle
  <2>1. cw' = 1 /\ pc' = "kb" /\ ranks' = Static
    BY <1>1 DEF StaticCsent, DgraphSingle, Loop
  <2> QED BY <2>1, VectorsFilled, PassedNone
<1>2. CASE PprCsent
  <2>1. UNCHANGED <<optVars, dg, mranks>>
    BY <1>2 DEF PprCsent
  <2>2. CASE Inserted(0)
    <3>1. cw' = 1 /\ pc' = "kb" /\ ranks' = Ppr(0)
      BY <1>2, <2>2 DEF PprCsent, Loop
    <3> QED BY <3>1, VectorsFilled, PassedNone
  <2>3. CASE ~ Inserted(0)
    <3>1. Size = 0 /\ Size' = 0
      BY <1>0, <2>1, <2>3, NoOthers, SameOptions
    <3>2. CASE Loop("kb")
      BY <3>1, <3>2, PassedNone DEF Loop
    <3>3. CASE Finish
      <4>1. \A i \in 1 .. Size : Settled(i)
        BY <3>1
      <4> QED BY <2>1, <3>3, <4>1, PassedAll DEF Finish
    <3> QED BY <1>2, <3>2, <3>3 DEF PprCsent
  <2> QED BY <2>2, <2>3
<1>3. CASE PprW2wCsent
  BY <1>3, PassedNone DEF PprW2wCsent, Loop
<1>4. CASE BuildDgraph
  BY <1>4, PassedNone DEF BuildDgraph, Loop
<1>5. CASE RankContext
  BY <1>5, PassedRankContext
<1>6. CASE SkipWord
  <2> PICK w : w = cw
    OBVIOUS
  <2>1. /\ pc \in {"kb", "kb_w2w", "dg", "dg_w2w"} /\ cw <= Size /\ Advance
        /\ UNCHANGED <<optVars, dg, ranks, mranks>> /\ ~ Word(cw).tgt
    BY <1>6 DEF SkipWord, Looping
  <2>2. Settled(w)
    BY <2>1 DEF Settled
  <2>3. Settled(w)'
    BY <2>1, <2>2, SettledKept
  <2> QED BY <2>1, <2>3, PassedOn
<1>7. CASE KbWord
  BY <1>7, PassedKb
<1>8. CASE DgraphWord
  <2> PICK w : w = cw
    OBVIOUS
  <2>1. /\ pc = "dg" /\ cw <= Size /\ Advance /\ UNCHANGED <<optVars, dg, ranks>>
        /\ mranks' = [mranks EXCEPT ![w] = RankDgraph(w, ranks)]
    BY <1>8 DEF DgraphWord, Looping, Rank
  <2>2. w \in 1 .. Size /\ Subgraph
    BY <1>0, <2>1 DEF IInv, Vectors
  <2>3. /\ Settled(w)'
        /\ \A j \in 1 .. Size : j # w => mranks'[j] = mranks[j]
    BY <2>1, <2>2, SettledByDgraph
  <2> QED BY <2>1, <2>3, PassedOn
<1>9. CASE KbW2wWord
  BY <1>9, PassedKbW2w
<1>10. CASE DgraphW2wWord
  BY <1>10, PassedDgW2w
<1>11. CASE EndLoop
  <2>1. /\ UNCHANGED <<optVars, dg, mranks>> /\ pc' = "print" /\ cw > Size
        /\ pc \in {"kb", "kb_w2w", "dg", "dg_w2w"}
    BY <1>11 DEF EndLoop, Finish
  <2>2. \A i \in 1 .. Size : i < cw
    BY <1>0, <2>1
  <2>3. \A i \in 1 .. Size : Settled(i)
    BY <2>1, <2>2 DEF Passed
  <2> QED BY <2>1, <2>3, PassedAll
<1>12. CASE PrintCsent \/ (UNCHANGED vars /\ pc \in {"print", "done"})
  <2>1. /\ UNCHANGED <<optVars, dg, mranks>> /\ pc' \in {"print", "done"}
        /\ pc \in {"print", "done"}
    BY <1>12 DEF PrintCsent, vars
  <2>2. \A i \in 1 .. Size : Settled(i)
    BY <2>1 DEF Passed
  <2> QED BY <2>1, <2>2, PassedAll
<1>13. CASE UNCHANGED vars /\ pc \notin {"print", "done"}
  <2>1. UNCHANGED <<optVars, dg, mranks>> /\ pc' = pc /\ cw' = cw /\ ranks' = ranks
    BY <1>13 DEF vars
  <2>2. Size' = Size
    BY <2>1, SameOptions
  <2>3. \A i \in 1 .. Size : Settled(i) => Settled(i)'
    BY <2>1, SettledKept
  <2> QED BY <1>13, <2>1, <2>2, <2>3 DEF Passed
<1> QED BY <1>1, <1>2, <1>3, <1>4, <1>5, <1>6, <1>7, <1>8, <1>9, <1>10, <1>11, <1>12, <1>13 DEF Next

\* Whatever the context, every target with a choice of synsets and with other words to be
\* ranked by has ranks in the end, unless a subgraph has no place for its vector, or, with
\* warnings, for that of a word before it.
THEOREM AllAreRanked == Spec => []AllRanked
<1>1. Init => Passed
  BY DEF Init, Passed
<1>2. Passed => AllRanked
  BY DEF Passed, AllRanked, Settled, Subgraph
<1> QED BY <1>1, <1>2, InitIInv, StepIInv, StepPassed, PTL DEF Spec

=============================================================================
