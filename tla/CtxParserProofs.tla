-------------------------- MODULE CtxParserProofs ---------------------------
(***************************************************************************)
(* Proofs about CtxParser, for every knowledge base, dictionary, set of    *)
(* weights and length of a context: the types, the uniqueness of words,    *)
(* the order of tokens, and that an accepted context can be ranked.        *)
(*                                                                         *)
(* The unique words and the tokens only change in push_cw, so the argument *)
(* is one lemma about PushCw for each of these invariants and, for the     *)
(* actions that call it, that they call it with a word that fits.          *)
(***************************************************************************)
EXTENDS CtxParser, FoldLemmas, FiniteSetTheorems, SequenceTheorems, TLAPS

\* The position no token has reached yet: that of the nopv word that is open,
\* of the token in hand, or of the next token.
Frontier == IF open THEN last.id ELSE IF pc = "token" THEN n ELSE n + 1

\* What the loop keeps between its steps: a word that is open is a nopv word
\* behind all the tokens that were pushed, and waits for the token in hand.
Loop ==
  /\ pc = "flush" => open /\ last.id < n
  /\ open => /\ pc \in {"next", "flush", "error"}
             /\ last \in Words
             /\ last.type \in Nopv
             /\ last.id <= n
  /\ pc \in {"flush", "token"} => n >= 1 /\ tok \in Tokens
  /\ \A i \in DOMAIN tokens : tokens[i].id < Frontier

\* The weight of a context is the weight of its words.
Weighed ==
  /\ weight # 0 => \E i \in DOMAIN vuniq : vuniq[i].w # 0
  /\ pc = "done" /\ vuniq # <<>> => weight # 0

IInv == /\ TypeOK
        /\ Loop
        /\ UniqueWords
        /\ TokensInOrder
        /\ Rankable
        /\ Weighed

-----------------------------------------------------------------------------
(* Links.                                                                  *)

\* The links of a word: a function from concepts to integers.
WordLinks == UNION {[S -> Int] : S \in SUBSET (Kb \cup Concepts)}

\* A function from concepts to weights is a set of links ...
LEMMA LinksIntro ==
  ASSUME NEW S \in SUBSET (Kb \cup Concepts), NEW l \in [S -> Weights]
  PROVE  l \in Links
BY DEF Links

\* ... and the other way round.
LEMMA LinksElim ==
  ASSUME NEW l \in Links
  PROVE  /\ DOMAIN l \subseteq Kb \cup Concepts
         /\ l \in [DOMAIN l -> Weights]
<1>1. PICK S \in SUBSET (Kb \cup Concepts) : l \in [S -> Weights]
  BY DEF Links
<1> QED  BY <1>1

\* A word that was just opened has no links.
LEMMA NoLinksTyped == NoLinks \in Links /\ NoLinks \in WordLinks
<1>1. NoLinks \in [{} -> Weights] /\ NoLinks \in [{} -> Int]
  BY DEF NoLinks
<1> QED  BY <1>1, LinksIntro DEF WordLinks

\* What set_concepts keeps are links to the graph.
LEMMA InKbTyped ==
  ASSUME NEW l \in Links
  PROVE  InKb(l) \in WordLinks /\ DOMAIN InKb(l) \subseteq Kb
<1>1. InKb(l) \in [DOMAIN l \cap Kb -> Weights] /\ DOMAIN InKb(l) = DOMAIN l \cap Kb
  BY LinksElim DEF InKb
<1>2. Weights \subseteq Int
  BY ParserAssumption
<1>3. InKb(l) \in [DOMAIN l \cap Kb -> Int]
  BY <1>1, <1>2
<1>4. DOMAIN l \cap Kb \in SUBSET (Kb \cup Concepts)
  OBVIOUS
<1> QED  BY <1>1, <1>3, <1>4 DEF WordLinks

\* A concept token adds a link.
LEMMA AddedLink ==
  ASSUME NEW l \in Links, NEW x \in Concepts, NEW w \in Weights
  PROVE  [c \in DOMAIN l \cup {x} |-> IF c = x THEN w ELSE l[c]] \in Links
<1> DEFINE S == DOMAIN l \cup {x}
           m == [c \in S |-> IF c = x THEN w ELSE l[c]]
<1>1. S \in SUBSET (Kb \cup Concepts)
  BY LinksElim
<1>2. m \in [S -> Weights]
  BY LinksElim
<1> QED  BY <1>1, <1>2, LinksIntro

\* The weights of a context are not negative, so those that sum up to zero are zero.
LEMMA NothingLinked ==
  ASSUME NEW l \in Links, ~ HasWeight(InKb(l))
  PROVE  \A c \in DOMAIN l \cap Kb : l[c] = 0
<1> DEFINE T == DOMAIN l \cap Kb
<1>1. IsFiniteSet(T)
  BY ParserAssumption, FS_Subset
<1>2. PICK m : m = InKb(l)
  OBVIOUS
<1>3. m \in [T -> Nat] /\ \A c \in T : m[c] = l[c]
  BY <1>2, LinksElim, ParserAssumption DEF InKb
<1>4. SumFunction(m) = 0
  BY <1>2 DEF HasWeight
<1> HIDE DEF T
<1>5. \A c \in T : m[c] <= 0
  BY <1>1, <1>3, <1>4, SumHasMember
<1>6. \A c \in T : l[c] = 0
  BY <1>3, <1>5
<1> QED  BY <1>6 DEF T

\* What the dictionary or a concept token links a word to.
LEMMA LinkedTyped ==
  ASSUME NEW t \in Tokens, Resolvable(t)
  PROVE  /\ Linked(t) \in WordLinks
         /\ DOMAIN Linked(t) \subseteq Kb
         /\ HasWeight(Linked(t))
<1>1. CASE t.type = Concept
  <2>1. PICK x : x = t.lemma
    OBVIOUS
  <2>2. PICK l : l = [c \in {x} |-> 1]
    OBVIOUS
  <2>3. x \in Kb /\ Linked(t) = l /\ DOMAIN l = {x}
    BY <1>1, <2>1, <2>2 DEF Linked, Resolvable
  <2>4. l \in [{x} -> Nat] /\ l \in [{x} -> Int] /\ l[x] = 1 /\ x \in {x}
    BY <2>2
  <2>f. IsFiniteSet({x})
    BY FS_Singleton
  <2>5. 1 <= SumFunction(l) /\ SumFunction(l) \in Nat
    BY <2>4, <2>f, SumHasMember, SumIsNumber
  <2>6. {x} \in SUBSET (Kb \cup Concepts)
    BY <2>3
  <2> QED  BY <2>3, <2>4, <2>5, <2>6 DEF HasWeight, WordLinks
<1>2. CASE t.type # Concept
  <2>1. t.lemma \in Lemmas
    BY <1>2 DEF Tokens
  <2>2. PICK l : l = Dict[t.lemma]
    OBVIOUS
  <2>3. IsEntries(l) /\ HasWeight(l) /\ Linked(t) = l
    BY <1>2, <2>1, <2>2, ParserAssumption DEF Resolvable, Linked
  <2>4. DOMAIN l \in SUBSET (Kb \cup Concepts) /\ l \in [DOMAIN l -> Int]
    BY <2>3 DEF IsEntries
  <2> QED  BY <2>3, <2>4 DEF IsEntries, WordLinks
<1> QED  BY <1>1, <1>2

-----------------------------------------------------------------------------
(* push_cw.                                                                *)

\* Known words have an index.
LEMMA IndexOfKnown ==
  ASSUME NEW key, Known(key)
  PROVE  Index(key) \in DOMAIN vuniq /\ vuniq[Index(key)].key = key
BY DEF Known, Index

\* The weights of words and the positions of tokens are numbers.
LEMMA WeightIsNat ==
  ASSUME NEW s \in Seq(Words), NEW j \in DOMAIN s
  PROVE  s[j].w \in Nat
<1>1. j \in 1 .. Len(s)
  BY LenProperties
<1>2. s[j] \in Words
  BY <1>1, ElementOfSeq
<1> QED  BY <1>2 DEF Words

\* The same of tokens.
LEMMA PositionIsNat ==
  ASSUME NEW s \in Seq(Pushes), NEW i \in DOMAIN s
  PROVE  s[i].id \in Nat
<1>1. i \in 1 .. Len(s)
  BY LenProperties
<1>2. s[i] \in Pushes
  BY <1>1, ElementOfSeq
<1> QED  BY <1>2 DEF Pushes

\* Both, of the variables.
LEMMA Numbers ==
  ASSUME TypeOK
  PROVE  /\ \A j \in DOMAIN vuniq : vuniq[j].w \in Nat
         /\ \A i \in DOMAIN tokens : tokens[i].id \in Nat
BY WeightIsNat, PositionIsNat DEF TypeOK

\* push_cw appends one token, and touches or appends one word.
LEMMA PushShape ==
  ASSUME TypeOK, NEW cw \in Words, NEW f \in Links, PushCw(cw, f)
  PROVE  /\ vuniq' \in Seq(Words)
         /\ tokens' \in Seq(Pushes)
         /\ weight' \in Nat
         /\ Len(tokens') = Len(tokens) + 1
         /\ \A i \in DOMAIN tokens : tokens'[i] = tokens[i]
         /\ tokens'[Len(tokens) + 1].id = cw.id
         /\ tokens'[Len(tokens) + 1].type = cw.type
         /\ tokens'[Len(tokens) + 1].idx \in DOMAIN vuniq'
         /\ tokens'[Len(tokens) + 1].follow = f
         /\ vuniq' # <<>>
         /\ \/ /\ Known(cw.key)
               /\ tokens'[Len(tokens) + 1].idx = Index(cw.key)
               /\ Len(vuniq') = Len(vuniq)
               /\ \A j \in DOMAIN vuniq :
                    /\ vuniq'[j].key = vuniq[j].key
                    /\ vuniq'[j].links = vuniq[j].links
                    /\ vuniq'[j].type = IF j = Index(cw.key) /\ cw.type \in Tgt
                                          THEN cw.type ELSE vuniq[j].type
                    /\ vuniq'[j].w = IF j = Index(cw.key)
                                       THEN vuniq[j].w + cw.w ELSE vuniq[j].w
            \/ /\ ~ Known(cw.key)
               /\ tokens'[Len(tokens) + 1].idx = Len(vuniq) + 1
               /\ Len(vuniq') = Len(vuniq) + 1
               /\ vuniq'[Len(vuniq) + 1] = cw
               /\ \A j \in DOMAIN vuniq : vuniq'[j] = vuniq[j]
<1> DEFINE i == IF Known(cw.key) THEN Index(cw.key) ELSE Len(vuniq) + 1
           p == [id |-> cw.id, type |-> cw.type, idx |-> i, follow |-> f]
<1>0. /\ vuniq \in Seq(Words)
      /\ tokens \in Seq(Pushes)
      /\ weight \in Nat
      /\ Len(vuniq) \in Nat /\ DOMAIN vuniq = 1 .. Len(vuniq)
      /\ Len(tokens) \in Nat /\ DOMAIN tokens = 1 .. Len(tokens)
      /\ cw.w \in Nat /\ cw.type \in Types /\ cw.id \in 1 .. MaxTokens
  BY LenProperties DEF TypeOK, Words
<1>1. i \in 1 .. Len(vuniq) + 1
  BY <1>0, IndexOfKnown
<1>2. p \in Pushes
  BY <1>0, <1>1 DEF Pushes
<1>3. tokens' = Append(tokens, p)
  BY DEF PushCw
<1>4. /\ tokens' \in Seq(Pushes)
      /\ Len(tokens') = Len(tokens) + 1
      /\ tokens'[Len(tokens) + 1] = p
      /\ \A j \in DOMAIN tokens : tokens'[j] = tokens[j]
  BY <1>0, <1>2, <1>3, AppendProperties
<1>5. weight' \in Nat
  BY <1>0 DEF PushCw
<1>6. CASE Known(cw.key)
  <2>1. i = Index(cw.key) /\ i \in DOMAIN vuniq
    BY <1>6, IndexOfKnown
  <2>2. vuniq' = [vuniq EXCEPT ![i].type = IF cw.type \in Tgt THEN cw.type ELSE @,
                               ![i].w = @ + cw.w]
    BY <1>6 DEF PushCw
  <2> HIDE DEF i, p
  <2>3. \A j \in DOMAIN vuniq : vuniq[j] \in Words
    BY <1>0, ElementOfSeq
  <2>4. DOMAIN vuniq' = DOMAIN vuniq
    BY <2>2
  <2>5. \A j \in DOMAIN vuniq : j # i => vuniq'[j] = vuniq[j]
    BY <2>2
  <2> DEFINE old == vuniq[i]
             ty  == IF cw.type \in Tgt THEN cw.type ELSE old.type
  <2>6. vuniq'[i] = [old EXCEPT !.type = ty, !.w = old.w + cw.w]
    BY <2>1, <2>2
  <2>61. old \in Words
    BY <2>1, <2>3
  <2>62. ty \in Types /\ old.w + cw.w \in Nat
    BY <1>0, <2>61 DEF Words
  <2> HIDE DEF old, ty
  <2>7. /\ vuniq'[i].key = old.key
        /\ vuniq'[i].links = old.links
        /\ vuniq'[i].type = ty
        /\ vuniq'[i].w = old.w + cw.w
        /\ vuniq'[i] \in Words
    BY <2>6, <2>61, <2>62 DEF Words
  <2> USE DEF old, ty
  <2>8. \A j \in DOMAIN vuniq : vuniq'[j] \in Words
    BY <2>3, <2>5, <2>7
  <2>9. vuniq' \in [1 .. Len(vuniq) -> Words]
    BY <1>0, <2>2, <2>4, <2>8
  <2>10. vuniq' \in Seq(Words) /\ Len(vuniq') = Len(vuniq)
    BY <1>0, <2>9, <2>4, LenProperties, SMTT(30) DEF Seq
  <2>11. p.id = cw.id /\ p.type = cw.type /\ p.idx = i /\ p.follow = f
    BY DEF p
  <2>12. vuniq' # <<>>
    BY <2>1, <2>10, <1>0, EmptySeq
  <2> QED  BY <1>0, <1>4, <1>5, <1>6, <2>1, <2>4, <2>5, <2>7, <2>10, <2>11, <2>12
<1>7. CASE ~ Known(cw.key)
  <2>1. i = Len(vuniq) + 1 /\ vuniq' = Append(vuniq, cw)
    BY <1>7 DEF PushCw
  <2> HIDE DEF i, p
  <2>2. /\ vuniq' \in Seq(Words)
        /\ Len(vuniq') = Len(vuniq) + 1
        /\ vuniq'[Len(vuniq) + 1] = cw
        /\ \A j \in DOMAIN vuniq : vuniq'[j] = vuniq[j]
    BY <1>0, <2>1, AppendProperties
  <2>3. DOMAIN vuniq' = 1 .. Len(vuniq) + 1
    BY <2>2, LenProperties
  <2>4. p.id = cw.id /\ p.type = cw.type /\ p.idx = i /\ p.follow = f
    BY DEF p
  <2>5. vuniq' # <<>>
    BY <2>2, <1>0, EmptySeq
  <2>6. tokens'[Len(tokens) + 1].idx = Len(vuniq) + 1
    BY <1>4, <2>1, <2>4
  <2>7. tokens'[Len(tokens) + 1].idx \in DOMAIN vuniq'
    BY <1>0, <2>3, <2>6
  <2> QED  BY <1>4, <1>5, <1>7, <2>2, <2>4, <2>5, <2>6, <2>7
<1> QED  BY <1>6, <1>7

\* A compatible word keeps the words unique, whatever its type.
LEMMA PushUnique ==
  ASSUME TypeOK, UniqueWords, NEW cw \in Words, NEW f \in Links,
         Compatible(cw), PushCw(cw, f)
  PROVE  UniqueWords'
<1> DEFINE m == Len(tokens) + 1
<1>0. /\ DOMAIN vuniq = 1 .. Len(vuniq) /\ Len(vuniq) \in Nat
      /\ DOMAIN tokens = 1 .. Len(tokens) /\ Len(tokens) \in Nat
  BY LenProperties DEF TypeOK
<1>1. /\ vuniq' \in Seq(Words)
      /\ tokens' \in Seq(Pushes)
      /\ Len(tokens') = m
      /\ \A i \in DOMAIN tokens : tokens'[i] = tokens[i]
      /\ tokens'[m].type = cw.type
      /\ tokens'[m].idx \in DOMAIN vuniq'
  BY PushShape
<1>2. DOMAIN tokens' = DOMAIN tokens \cup {m} /\ m \notin DOMAIN tokens
  BY <1>0, <1>1, LenProperties
<1>3. CASE Known(cw.key)
  <2> DEFINE x == Index(cw.key)
  <2>1. /\ tokens'[m].idx = x
        /\ Len(vuniq') = Len(vuniq)
        /\ \A j \in DOMAIN vuniq :
             /\ vuniq'[j].key = vuniq[j].key
             /\ vuniq'[j].type = IF j = x /\ cw.type \in Tgt
                                   THEN cw.type ELSE vuniq[j].type
    BY <1>3, PushShape
  <2>2. DOMAIN vuniq' = DOMAIN vuniq
    BY <1>0, <1>1, <2>1, LenProperties
  <2>3. cw.type \in Nopv <=> vuniq[x].type \in Nopv
    BY <1>3 DEF Compatible
  <2>4. x \in DOMAIN vuniq
    BY <1>3, IndexOfKnown
  <2> HIDE DEF x, m
  <2>5. \A j \in DOMAIN vuniq : vuniq'[j].type \in Nopv <=> vuniq[j].type \in Nopv
    BY <2>1, <2>3
  <2>6. \A i, j \in DOMAIN vuniq' : vuniq'[i].key = vuniq'[j].key => i = j
    BY <2>1, <2>2 DEF UniqueWords
  <2>7. \A i \in DOMAIN tokens' : /\ tokens'[i].idx \in DOMAIN vuniq'
                                  /\ tokens'[i].type \in Nopv <=> vuniq'[tokens'[i].idx].type \in Nopv
    <3>1. TAKE i \in DOMAIN tokens'
    <3>2. CASE i = m
      BY <1>1, <2>1, <2>3, <2>4, <2>5, <3>2
    <3>3. CASE i \in DOMAIN tokens
      BY <1>1, <2>2, <2>5, <3>3 DEF UniqueWords
    <3> QED  BY <1>2, <3>2, <3>3
  <2>8. ASSUME NEW j \in DOMAIN vuniq'
        PROVE  vuniq'[j].type \in Tgt <=>
                 \E i \in DOMAIN tokens' : tokens'[i].idx = j /\ tokens'[i].type \in Tgt
    <3>1. vuniq[j].type \in Tgt <=>
            \E i \in DOMAIN tokens : tokens[i].idx = j /\ tokens[i].type \in Tgt
      BY <2>2 DEF UniqueWords
    <3>2. (\E i \in DOMAIN tokens' : tokens'[i].idx = j /\ tokens'[i].type \in Tgt)
            <=> \/ \E i \in DOMAIN tokens : tokens[i].idx = j /\ tokens[i].type \in Tgt
                \/ x = j /\ cw.type \in Tgt
      BY <1>1, <1>2, <2>1
    <3>3. vuniq'[j].type \in Tgt <=> vuniq[j].type \in Tgt \/ (x = j /\ cw.type \in Tgt)
      BY <2>1, <2>2
    <3> QED  BY <3>1, <3>2, <3>3
  <2> QED  BY <2>6, <2>7, <2>8 DEF UniqueWords
<1>4. CASE ~ Known(cw.key)
  <2> DEFINE x == Len(vuniq) + 1
  <2>1. /\ tokens'[m].idx = x
        /\ Len(vuniq') = x
        /\ vuniq'[x] = cw
        /\ \A j \in DOMAIN vuniq : vuniq'[j] = vuniq[j]
    BY <1>4, PushShape
  <2>2. DOMAIN vuniq' = DOMAIN vuniq \cup {x} /\ x \notin DOMAIN vuniq
    BY <1>0, <1>1, <2>1, LenProperties
  <2>3. \A j \in DOMAIN vuniq : vuniq[j].key # cw.key
    BY <1>4 DEF Known
  <2> HIDE DEF x, m
  <2>4. \A i, j \in DOMAIN vuniq' : vuniq'[i].key = vuniq'[j].key => i = j
    BY <2>1, <2>2, <2>3 DEF UniqueWords
  <2>5. \A i \in DOMAIN tokens' : /\ tokens'[i].idx \in DOMAIN vuniq'
                                  /\ tokens'[i].type \in Nopv <=> vuniq'[tokens'[i].idx].type \in Nopv
    BY <1>1, <1>2, <2>1, <2>2 DEF UniqueWords
  <2>6. ASSUME NEW j \in DOMAIN vuniq'
        PROVE  vuniq'[j].type \in Tgt <=>
                 \E i \in DOMAIN tokens' : tokens'[i].idx = j /\ tokens'[i].type \in Tgt
    <3>1. \A i \in DOMAIN tokens : tokens[i].idx # x
      BY <2>2 DEF UniqueWords
    <3>2. CASE j = x
      BY <1>1, <1>2, <2>1, <3>1, <3>2
    <3>3. CASE j \in DOMAIN vuniq
      <4>1. vuniq[j].type \in Tgt <=>
              \E i \in DOMAIN tokens : tokens[i].idx = j /\ tokens[i].type \in Tgt
        BY <3>3 DEF UniqueWords
      <4> QED  BY <1>1, <1>2, <2>1, <2>2, <3>3, <4>1
    <3> QED  BY <2>2, <3>2, <3>3
  <2> QED  BY <2>4, <2>5, <2>6 DEF UniqueWords
<1> QED  BY <1>3, <1>4

\* A token behind all the others keeps their order.
LEMMA PushInOrder ==
  ASSUME TypeOK, TokensInOrder, NEW cw \in Words, NEW f \in Links, PushCw(cw, f),
         \A i \in DOMAIN tokens : tokens[i].id < cw.id
  PROVE  /\ TokensInOrder'
         /\ \A i \in DOMAIN tokens' : tokens'[i].id <= cw.id
<1> DEFINE m == Len(tokens) + 1
<1>0. DOMAIN tokens = 1 .. Len(tokens) /\ Len(tokens) \in Nat
  BY LenProperties DEF TypeOK
<1>1. /\ tokens' \in Seq(Pushes)
      /\ Len(tokens') = m
      /\ \A i \in DOMAIN tokens : tokens'[i] = tokens[i]
      /\ tokens'[m].id = cw.id
  BY PushShape
<1>2. DOMAIN tokens' = 1 .. m
  BY <1>1, LenProperties
<1>3. cw.id \in Nat
  BY DEF Words
<1>4. \A i \in DOMAIN tokens : tokens[i].id \in Nat
  BY Numbers
<1>5. \A i \in DOMAIN tokens' : i \in DOMAIN tokens \/ i = m
  BY <1>0, <1>2
<1>6. \A i \in DOMAIN tokens' : tokens'[i].id <= cw.id
  BY <1>1, <1>3, <1>4, <1>5
<1>7. ASSUME NEW i \in DOMAIN tokens', NEW j \in DOMAIN tokens', i < j
      PROVE  tokens'[i].id < tokens'[j].id
  <2>1. i \in DOMAIN tokens
    BY <1>0, <1>2, <1>7
  <2>2. CASE j = m
    BY <1>1, <2>1, <2>2
  <2>3. CASE j \in DOMAIN tokens
    BY <1>1, <1>7, <2>1, <2>3 DEF TokensInOrder
  <2> QED  BY <1>5, <2>2, <2>3
<1> QED  BY <1>6, <1>7 DEF TokensInOrder

\* A word with weighted links to the graph can be ranked; a known one keeps its links.
LEMMA PushRankable ==
  ASSUME TypeOK, Rankable, NEW cw \in Words, NEW f \in Links, PushCw(cw, f),
         DOMAIN cw.links \subseteq Kb, HasWeight(cw.links)
  PROVE  Rankable'
<1>0. DOMAIN vuniq = 1 .. Len(vuniq) /\ Len(vuniq) \in Nat
  BY LenProperties DEF TypeOK
<1>1. vuniq' \in Seq(Words)
  BY PushShape
<1>2. CASE Known(cw.key)
  <2>1. /\ Len(vuniq') = Len(vuniq)
        /\ \A j \in DOMAIN vuniq : vuniq'[j].links = vuniq[j].links
    BY <1>2, PushShape
  <2>2. DOMAIN vuniq' = DOMAIN vuniq
    BY <1>0, <1>1, <2>1, LenProperties
  <2> QED  BY <2>1, <2>2 DEF Rankable, HasWeight
<1>3. CASE ~ Known(cw.key)
  <2>1. /\ Len(vuniq') = Len(vuniq) + 1
        /\ vuniq'[Len(vuniq) + 1] = cw
        /\ \A j \in DOMAIN vuniq : vuniq'[j] = vuniq[j]
    BY <1>3, PushShape
  <2>2. DOMAIN vuniq' = DOMAIN vuniq \cup {Len(vuniq) + 1}
    BY <1>0, <1>1, <2>1, LenProperties
  <2> QED  BY <2>1, <2>2 DEF Rankable, HasWeight
<1> QED  BY <1>2, <1>3

\* The weight that a word brings is found in the words.
LEMMA PushWeighed ==
  ASSUME TypeOK, Weighed, NEW cw \in Words, NEW f \in Links, PushCw(cw, f)
  PROVE  /\ weight' # 0 => \E i \in DOMAIN vuniq' : vuniq'[i].w # 0
         /\ vuniq' # <<>>
<1>0. DOMAIN vuniq = 1 .. Len(vuniq) /\ Len(vuniq) \in Nat
  BY LenProperties DEF TypeOK
<1>1. /\ vuniq' \in Seq(Words) /\ vuniq' # <<>>
      /\ \A j \in DOMAIN vuniq : vuniq[j].w \in Nat
      /\ cw.w \in Nat /\ weight \in Nat
  <2>1. vuniq' \in Seq(Words) /\ vuniq' # <<>>
    BY PushShape
  <2>2. cw.w \in Nat /\ weight \in Nat
    BY DEF TypeOK, Words
  <2> QED  BY <2>1, <2>2, Numbers
<1>2. weight' # 0 => weight # 0 \/ cw.w # 0
  BY <1>1 DEF PushCw
<1>3. CASE Known(cw.key)
  <2> DEFINE x == Index(cw.key)
  <2>1. /\ Len(vuniq') = Len(vuniq)
        /\ \A j \in DOMAIN vuniq :
             vuniq'[j].w = IF j = x THEN vuniq[j].w + cw.w ELSE vuniq[j].w
    BY <1>3, PushShape
  <2>2. DOMAIN vuniq' = DOMAIN vuniq /\ x \in DOMAIN vuniq
    BY <1>0, <1>1, <1>3, <2>1, LenProperties, IndexOfKnown
  <2> HIDE DEF x
  <2>3. cw.w # 0 => vuniq'[x].w # 0
    BY <1>1, <2>1, <2>2
  <2>4. \A j \in DOMAIN vuniq : vuniq[j].w # 0 => vuniq'[j].w # 0
    BY <1>1, <2>1
  <2> QED  BY <1>1, <1>2, <2>2, <2>3, <2>4 DEF Weighed
<1>4. CASE ~ Known(cw.key)
  <2>1. /\ Len(vuniq') = Len(vuniq) + 1
        /\ vuniq'[Len(vuniq) + 1] = cw
        /\ \A j \in DOMAIN vuniq : vuniq'[j] = vuniq[j]
    BY <1>4, PushShape
  <2>2. DOMAIN vuniq' = DOMAIN vuniq \cup {Len(vuniq) + 1}
    BY <1>0, <1>1, <2>1, LenProperties
  <2> QED  BY <1>1, <1>2, <2>1, <2>2 DEF Weighed
<1> QED  BY <1>3, <1>4

-----------------------------------------------------------------------------
(* The steps of the loop.                                                  *)

\* The fields of a token.
LEMMA TokenFields ==
  ASSUME NEW t \in Tokens
  PROVE  /\ t.lemma \in Lemmas \cup Concepts
         /\ t.type \in Types
         /\ t.w \in Weights /\ t.w \in Nat
         /\ t.type = Concept => t.lemma \in Concepts
BY ParserAssumption DEF Tokens, Types, Nopv, CtxWord, TgtWord, Concept, TgtNopv, CtxNopv

\* A word that gets other links is still a word.
LEMMA Relinked ==
  ASSUME NEW cw \in Words, NEW l \in WordLinks
  PROVE  /\ [cw EXCEPT !.links = l] \in Words
         /\ [cw EXCEPT !.links = l].key = cw.key
         /\ [cw EXCEPT !.links = l].id = cw.id
         /\ [cw EXCEPT !.links = l].type = cw.type
         /\ [cw EXCEPT !.links = l].links = l
BY DEF Words, WordLinks

\* The constructor makes a word of the token in hand.
LEMMA CWordTyped ==
  ASSUME NEW t \in Tokens, NEW i \in 1 .. MaxTokens, NEW l \in WordLinks
  PROVE  /\ CWord(t.lemma, i, t.type, t.w, l) \in Words
         /\ CWord(t.lemma, i, t.type, t.w, l).key = t.lemma
         /\ CWord(t.lemma, i, t.type, t.w, l).id = i
         /\ CWord(t.lemma, i, t.type, t.w, l).type = t.type
         /\ CWord(t.lemma, i, t.type, t.w, l).links = l
BY TokenFields DEF CWord, Words, WordLinks

\* Whether a word fits is a matter of its key and type.
LEMMA CompatibleSame ==
  ASSUME NEW c, NEW d, c.key = d.key, c.type = d.type, Compatible(c)
  PROVE  Compatible(d)
BY DEF Compatible

\* A step that pushes nothing keeps what only the words and tokens decide.
LEMMA NoPush ==
  ASSUME IInv, UNCHANGED <<vuniq, tokens, weight>>
  PROVE  /\ UniqueWords' /\ TokensInOrder' /\ Rankable'
         /\ vuniq' \in Seq(Words) /\ tokens' \in Seq(Pushes) /\ weight' \in Nat
         /\ weight' # 0 => \E i \in DOMAIN vuniq' : vuniq'[i].w # 0
<1>1. vuniq' = vuniq /\ tokens' = tokens /\ weight' = weight
  OBVIOUS
<1>2. UniqueWords'
  BY <1>1 DEF IInv, UniqueWords
<1>3. TokensInOrder'
  BY <1>1 DEF IInv, TokensInOrder
<1>4. Rankable'
  BY <1>1 DEF IInv, Rankable, HasWeight
<1>5. vuniq' \in Seq(Words) /\ tokens' \in Seq(Pushes) /\ weight' \in Nat
  BY <1>1 DEF IInv, TypeOK
<1>6. weight' # 0 => \E i \in DOMAIN vuniq' : vuniq'[i].w # 0
  BY <1>1 DEF IInv, Weighed
<1> QED  BY <1>2, <1>3, <1>4, <1>5, <1>6

\* The open word is pushed with the concepts it collected (FlushWord, EndWord).
LEMMA PushOpen ==
  ASSUME IInv, open, pc \in {"next", "flush"}, HasWeight(InKb(links)),
         Compatible(last), PushCw(SetConcepts(last, links), follow)
  PROVE  /\ UniqueWords' /\ TokensInOrder' /\ Rankable'
         /\ vuniq' \in Seq(Words) /\ tokens' \in Seq(Pushes) /\ weight' \in Nat
         /\ weight' # 0 => \E i \in DOMAIN vuniq' : vuniq'[i].w # 0
         /\ vuniq' # <<>>
         /\ SetConcepts(last, links) \in Words
         /\ \A i \in DOMAIN tokens' : tokens'[i].id <= last.id
<1>1. /\ last \in Words /\ links \in Links /\ follow \in Links
      /\ \A i \in DOMAIN tokens : tokens[i].id < last.id
  BY DEF IInv, TypeOK, Loop, Frontier
<1>2. PICK cw : cw = SetConcepts(last, links)
  OBVIOUS
<1>3. PICK f : f = follow
  OBVIOUS
<1>4. /\ cw \in Words /\ cw.key = last.key /\ cw.id = last.id
      /\ cw.type = last.type /\ cw.links = InKb(links)
  BY <1>1, <1>2, InKbTyped, Relinked DEF SetConcepts
<1>5. f \in Links /\ PushCw(cw, f)
  BY <1>1, <1>2, <1>3
<1>6. Compatible(cw)
  BY <1>4, CompatibleSame
<1>7. DOMAIN cw.links \subseteq Kb /\ HasWeight(cw.links)
  BY <1>1, <1>4, InKbTyped
<1>8. TypeOK /\ UniqueWords /\ TokensInOrder /\ Rankable /\ Weighed
  BY DEF IInv
<1>9. UniqueWords'
  BY <1>4, <1>5, <1>6, <1>8, PushUnique
<1>10. TokensInOrder' /\ \A i \in DOMAIN tokens' : tokens'[i].id <= cw.id
  BY <1>1, <1>4, <1>5, <1>8, PushInOrder
<1>11. Rankable'
  BY <1>4, <1>5, <1>7, <1>8, PushRankable
<1>12. (weight' # 0 => \E i \in DOMAIN vuniq' : vuniq'[i].w # 0) /\ vuniq' # <<>>
  BY <1>4, <1>5, <1>8, PushWeighed
<1>13. vuniq' \in Seq(Words) /\ tokens' \in Seq(Pushes) /\ weight' \in Nat
  BY <1>4, <1>5, <1>8, PushShape
<1>14. SetConcepts(last, links) \in Words
  BY <1>2, <1>4
<1> QED  BY <1>4, <1>9, <1>10, <1>11, <1>12, <1>13, <1>14

\* What the six parts of IInv come to when the new values are known.
LEMMA Assemble ==
  ASSUME TypeOK', Loop', UniqueWords', TokensInOrder', Rankable',
         weight' # 0 => \E i \in DOMAIN vuniq' : vuniq'[i].w # 0,
         pc' = "done" /\ vuniq' # <<>> => weight' # 0
  PROVE  IInv'
BY DEF IInv, Weighed

\* The parser starts in the invariant.
LEMMA IInvInit == Init => IInv
<1> SUFFICES ASSUME Init PROVE IInv
  OBVIOUS
<1>1. TypeOK
  <2>1. NoLinks \in Links
    BY NoLinksTyped
  <2>2. <<>> \in Seq(Words) /\ <<>> \in Seq(Pushes)
    OBVIOUS
  <2>3. vuniq \in Seq(Words) /\ tokens \in Seq(Pushes)
    BY <2>2 DEF Init
  <2>4. last \in Words \cup {NoWord} /\ links \in Links /\ follow \in Links
    BY <2>1 DEF Init
  <2>5. n \in 0 .. MaxTokens /\ weight \in Nat /\ tok \in Tokens \cup {NoToken}
    BY ParserAssumption DEF Init
  <2>6. swallow \in BOOLEAN /\ open \in BOOLEAN
    BY DEF Init
  <2> QED  BY <2>3, <2>4, <2>5, <2>6 DEF Init, TypeOK
<1>2. DOMAIN vuniq = {} /\ DOMAIN tokens = {}
  BY DEF Init
<1>3. Loop
  BY <1>2 DEF Init, Loop
<1>4. UniqueWords /\ TokensInOrder /\ Rankable
  BY <1>2 DEF UniqueWords, TokensInOrder, Rankable
<1>5. Weighed
  BY DEF Init, Weighed
<1> QED  BY <1>1, <1>3, <1>4, <1>5 DEF IInv

\* A step of the loop that pushes nothing.
LEMMA QuietStep ==
  ASSUME IInv,
         \/ Malformed \/ Attach \/ ReadToken \/ FlushEmpty \/ FlushClash
         \/ OpenNopv \/ SkipWord \/ WordThrows
         \/ EndOfContext \/ EndEmpty \/ EndClash
  PROVE  IInv'
<1> USE ParserAssumption
<1>0. /\ TypeOK /\ Loop
      /\ n \in Nat
      /\ \A i \in DOMAIN tokens : tokens[i].id \in Nat
      /\ open => last.id \in Nat
  BY Numbers DEF IInv, TypeOK, Loop, Words
<1>1. UNCHANGED <<swallow, vuniq, tokens, weight>>
  BY DEF Malformed, Attach, ReadToken, FlushEmpty, FlushClash, OpenNopv, SkipWord,
         WordThrows, EndOfContext, EndEmpty, EndClash
<1>2. /\ UniqueWords' /\ TokensInOrder' /\ Rankable'
      /\ vuniq' \in Seq(Words) /\ tokens' \in Seq(Pushes) /\ weight' \in Nat
      /\ weight' # 0 => \E i \in DOMAIN vuniq' : vuniq'[i].w # 0
  BY <1>1, NoPush
<1>3. pc' = "done" /\ vuniq' # <<>> => weight' # 0
  BY <1>1 DEF IInv, Weighed, Finish, Raise,
         Malformed, Attach, ReadToken, FlushEmpty, FlushClash, OpenNopv, SkipWord,
         WordThrows, EndOfContext, EndEmpty, EndClash
<1>4. NoLinks \in Links /\ NoLinks \in WordLinks
  BY NoLinksTyped
<1>5. CASE Malformed
  <2>1. TypeOK'
    BY <1>0, <1>1, <1>2, <1>5 DEF TypeOK, Malformed, Raise
  <2>2. Loop'
    BY <1>0, <1>1, <1>5 DEF Loop, Frontier, Malformed, Raise
  <2> QED  BY <1>2, <1>3, <2>1, <2>2, Assemble
<1>6. CASE Attach
  <2>1. PICK t \in Tokens :
          /\ t.type = Concept
          /\ links' = IF t.lemma \in DOMAIN links THEN links
                      ELSE [c \in DOMAIN links \cup {t.lemma} |->
                              IF c = t.lemma THEN t.w ELSE links[c]]
          /\ follow' = IF t.lemma \in DOMAIN follow THEN follow
                       ELSE [c \in DOMAIN follow \cup {t.lemma} |->
                               IF c = t.lemma THEN t.w ELSE follow[c]]
    BY <1>6 DEF Attach
  <2>2. links \in Links /\ follow \in Links
    BY <1>0 DEF TypeOK
  <2>3. t.lemma \in Concepts /\ t.w \in Weights
    BY <2>1, TokenFields
  <2>4. links' \in Links /\ follow' \in Links
    BY <2>1, <2>2, <2>3, AddedLink
  <2>5. TypeOK'
    BY <1>0, <1>1, <1>2, <1>6, <2>4 DEF TypeOK, Attach
  <2>6. Loop'
    BY <1>0, <1>1, <1>6 DEF Loop, Frontier, Attach
  <2> QED  BY <1>2, <1>3, <2>5, <2>6, Assemble
<1>7. CASE ReadToken
  <2>1. TypeOK'
    BY <1>0, <1>1, <1>2, <1>7 DEF TypeOK, ReadToken
  <2>2. Loop'
    BY <1>0, <1>1, <1>7 DEF Loop, Frontier, ReadToken
  <2> QED  BY <1>2, <1>3, <2>1, <2>2, Assemble
<1>8. CASE FlushEmpty \/ EndEmpty
  <2>1. open /\ last \in Words
    BY <1>0, <1>8 DEF Loop, FlushEmpty, EndEmpty
  <2>2. last' = [last EXCEPT !.links = NoLinks]
    BY <1>8 DEF FlushEmpty, EndEmpty
  <2>3. last' \in Words
    BY <1>4, <2>1, <2>2, Relinked
  <2>4. TypeOK'
    BY <1>0, <1>1, <1>2, <1>8, <2>3 DEF TypeOK, FlushEmpty, EndEmpty, Finish
  <2>5. Loop'
    BY <1>0, <1>1, <1>8, <2>1 DEF Loop, Frontier, FlushEmpty, EndEmpty, Finish
  <2> QED  BY <1>2, <1>3, <2>4, <2>5, Assemble
<1>9. CASE FlushClash \/ EndClash
  <2>1. open /\ last \in Words /\ links \in Links
    BY <1>0, <1>9 DEF TypeOK, Loop, FlushClash, EndClash
  <2>2. last' = SetConcepts(last, links)
    BY <1>9 DEF FlushClash, EndClash
  <2>3. last' \in Words
    BY <2>1, <2>2, InKbTyped, Relinked DEF SetConcepts
  <2>4. links' = NoLinks
    BY <1>9 DEF FlushClash, EndClash
  <2>5. TypeOK'
    BY <1>0, <1>1, <1>2, <1>4, <1>9, <2>3, <2>4 DEF TypeOK, FlushClash, EndClash, Raise
  <2>6. Loop'
    BY <1>0, <1>1, <1>9, <2>1 DEF Loop, Frontier, FlushClash, EndClash, Raise
  <2> QED  BY <1>2, <1>3, <2>5, <2>6, Assemble
<1>10. CASE OpenNopv
  <2>1. pc = "token" /\ ~ open /\ tok \in Tokens /\ n \in 1 .. MaxTokens
    BY <1>0, <1>10 DEF TypeOK, Loop, OpenNopv
  <2>2. last' = CWord(tok.lemma, n, tok.type, tok.w, NoLinks)
    BY <1>10 DEF OpenNopv
  <2>3. last' \in Words /\ last'.id = n /\ last'.type = tok.type
    BY <1>4, <2>1, <2>2, CWordTyped
  <2>4. TypeOK'
    BY <1>0, <1>1, <1>2, <1>4, <1>10, <2>3 DEF TypeOK, OpenNopv
  <2>5. Loop'
    BY <1>0, <1>1, <1>10, <2>1, <2>3 DEF Loop, Frontier, OpenNopv
  <2> QED  BY <1>2, <1>3, <2>4, <2>5, Assemble
<1>11. CASE SkipWord \/ WordThrows
  <2>1. TypeOK'
    BY <1>0, <1>1, <1>2, <1>11 DEF TypeOK, SkipWord, WordThrows, Raise
  <2>2. Loop'
    BY <1>0, <1>1, <1>11 DEF Loop, Frontier, SkipWord, WordThrows, Raise
  <2> QED  BY <1>2, <1>3, <2>1, <2>2, Assemble
<1>12. CASE EndOfContext
  <2>1. TypeOK'
    BY <1>0, <1>1, <1>2, <1>12 DEF TypeOK, EndOfContext, Finish
  <2>2. Loop'
    BY <1>0, <1>1, <1>12 DEF Loop, Frontier, EndOfContext, Finish
  <2> QED  BY <1>2, <1>3, <2>1, <2>2, Assemble
<1> QED  BY <1>5, <1>6, <1>7, <1>8, <1>9, <1>10, <1>11, <1>12

\* The open word is pushed, before the token in hand or at the end.
LEMMA OpenWordStep ==
  ASSUME IInv, FlushWord \/ EndWord
  PROVE  IInv'
<1>0. TypeOK /\ Loop /\ n \in Nat /\ (pc = "flush" => open)
  BY DEF IInv, TypeOK, Loop
<1>1. /\ open /\ pc \in {"next", "flush"} /\ HasWeight(InKb(links))
      /\ Compatible(last) /\ PushCw(SetConcepts(last, links), follow)
  BY <1>0 DEF FlushWord, EndWord
<1>2. last \in Words /\ last.id \in Nat /\ last.id <= n /\ (pc = "flush" => last.id < n)
  BY <1>0, <1>1 DEF Loop, Words
<1>3. /\ UniqueWords' /\ TokensInOrder' /\ Rankable'
      /\ vuniq' \in Seq(Words) /\ tokens' \in Seq(Pushes) /\ weight' \in Nat
      /\ weight' # 0 => \E i \in DOMAIN vuniq' : vuniq'[i].w # 0
      /\ SetConcepts(last, links) \in Words
      /\ \A i \in DOMAIN tokens' : tokens'[i].id <= last.id
  BY <1>1, PushOpen
<1>4. pc' = "done" /\ vuniq' # <<>> => weight' # 0
  BY DEF FlushWord, EndWord, Finish
<1>5. last' \in Words \cup {NoWord}
  BY <1>3 DEF FlushWord, EndWord, Pushed
<1>6. links' = NoLinks /\ links' \in Links
  BY NoLinksTyped DEF FlushWord, EndWord
<1>7. TypeOK'
  BY <1>0, <1>3, <1>5, <1>6 DEF TypeOK, FlushWord, EndWord, Finish
<1>8. \A i \in DOMAIN tokens' : tokens'[i].id \in Nat
  BY <1>3, PositionIsNat
<1>9. Loop'
  BY <1>0, <1>2, <1>3, <1>8 DEF Loop, Frontier, FlushWord, EndWord, Finish
<1> QED  BY <1>3, <1>4, <1>7, <1>9, Assemble

\* The token in hand is pushed.
LEMMA WordStep ==
  ASSUME IInv, PushWord
  PROVE  IInv'
<1>0. /\ TypeOK /\ UniqueWords /\ TokensInOrder /\ Rankable /\ Weighed
      /\ pc = "token" /\ ~ open /\ n \in 1 .. MaxTokens /\ tok \in Tokens
      /\ Resolvable(tok)
      /\ \A i \in DOMAIN tokens : tokens[i].id < n
  BY DEF IInv, TypeOK, Loop, Frontier, PushWord
<1>1. PICK cw : cw = CWord(tok.lemma, n, tok.type, tok.w, Linked(tok))
  OBVIOUS
<1>2. PICK m : m = n
  OBVIOUS
<1>3. Linked(tok) \in WordLinks /\ DOMAIN Linked(tok) \subseteq Kb /\ HasWeight(Linked(tok))
  BY <1>0, LinkedTyped
<1>4. cw \in Words /\ cw.id = m /\ cw.links = Linked(tok)
  BY <1>0, <1>1, <1>2, <1>3, CWordTyped
<1>5. Compatible(cw) /\ PushCw(cw, NoLinks) /\ NoLinks \in Links
  BY <1>1, NoLinksTyped DEF PushWord
<1>6. DOMAIN cw.links \subseteq Kb /\ HasWeight(cw.links)
  BY <1>3, <1>4
<1>7. UniqueWords'
  BY <1>0, <1>4, <1>5, PushUnique
<1>8. TokensInOrder' /\ \A i \in DOMAIN tokens' : tokens'[i].id <= m
  BY <1>0, <1>2, <1>4, <1>5, PushInOrder
<1>9. Rankable'
  BY <1>0, <1>4, <1>5, <1>6, PushRankable
<1>10. weight' # 0 => \E i \in DOMAIN vuniq' : vuniq'[i].w # 0
  BY <1>0, <1>4, <1>5, PushWeighed
<1>11. vuniq' \in Seq(Words) /\ tokens' \in Seq(Pushes) /\ weight' \in Nat
  BY <1>0, <1>4, <1>5, PushShape
<1>12. pc' = "next" /\ UNCHANGED <<swallow, n, tok, open, last, links, follow>>
  BY DEF PushWord
<1>13. TypeOK'
  BY <1>0, <1>11, <1>12 DEF TypeOK
<1>14. \A i \in DOMAIN tokens' : tokens'[i].id \in Nat
  BY <1>11, PositionIsNat
<1>15. Loop'
  BY <1>0, <1>2, <1>8, <1>12, <1>14 DEF Loop, Frontier
<1> QED  BY <1>7, <1>8, <1>9, <1>10, <1>12, <1>13, <1>15, Assemble

\* Every step of the parser keeps the invariant.
LEMMA IInvStep == IInv /\ [Next]_vars => IInv'
<1> SUFFICES ASSUME IInv, [Next]_vars PROVE IInv'
  OBVIOUS
<1>1. CASE Next
  BY <1>1, QuietStep, OpenWordStep, WordStep DEF Next
<1>2. CASE UNCHANGED vars
  BY <1>2 DEF vars, IInv, TypeOK, Loop, Frontier, UniqueWords, TokensInOrder, Rankable,
              HasWeight, Weighed
<1> QED  BY <1>1, <1>2

-----------------------------------------------------------------------------
(* The theorems.                                                           *)

\* The inductive invariant holds of every state the parser reaches.
THEOREM Invariance == Spec => []IInv
BY IInvInit, IInvStep, PTL DEF Spec

\* The parser's variables keep their types.
THEOREM TypeCorrect == Spec => []TypeOK
<1>1. IInv => TypeOK
  BY DEF IInv
<1> QED  BY <1>1, Invariance, PTL

\* m_vuniq has every word once, and agrees with m_tokens on which words are
\* targets and which are nopv words (CSentence::push_cw).
THEOREM WordsAreUnique == Spec => []UniqueWords
<1>1. IInv => UniqueWords
  BY DEF IInv
<1> QED  BY <1>1, Invariance, PTL

\* Delaying the push of a nopv word does not change the order of m_tokens.
THEOREM OrderKept == Spec => []TokensInOrder
<1>1. IInv => TokensInOrder
  BY DEF IInv
<1> QED  BY <1>1, Invariance, PTL

\* Unique words and tokens are two views of one context.
THEOREM ViewsAgree == Spec => []TokensAgree
<1> QED  BY WordsAreUnique, OrderKept, PTL DEF TokensAgree

\* The links of every word of m_vuniq are concepts of the graph whose weights do not
\* sum up to zero, whatever (also negative) weights the dictionary has.
THEOREM WordsCanBeRanked == Spec => []Rankable
<1>1. IInv => Rankable
  BY DEF IInv
<1> QED  BY <1>1, Invariance, PTL

\* An accepted context has a word with weight, so m_w_factor exists.
THEOREM ContextHasWeight == Spec => []AcceptedHasWeight
<1>1. IInv => AcceptedHasWeight
  BY DEF IInv, Weighed, AcceptedHasWeight
<1> QED  BY <1>1, Invariance, PTL

\* Every division by a weight has a divisor.
THEOREM DivisorsExist == Spec => []Divisible
<1> QED  BY WordsCanBeRanked, ContextHasWeight, PTL DEF Divisible

-----------------------------------------------------------------------------
(* Whose links a nopv word has.                                            *)

\* nopv_concepts holds, of the concepts of the graph that weigh anything, those that
\* followed the open word, and none when no word is open.
Collected ==
  /\ open => /\ DOMAIN follow \subseteq DOMAIN links
             /\ \A c \in DOMAIN links \cap Kb : links[c] # 0 =>
                  c \in DOMAIN follow /\ follow[c] = links[c]
  /\ ~ open => \A c \in DOMAIN links \cap Kb : links[c] = 0

\* A push keeps OwnWeight if the word is no nopv word, or brings what followed it.
LEMMA PushOwn ==
  ASSUME TypeOK, UniqueWords, OwnWeight, NEW cw \in Words, NEW f \in Links,
         Compatible(cw), PushCw(cw, f),
         cw.type \in Nopv => \A c \in DOMAIN cw.links : cw.links[c] # 0 =>
                               c \in DOMAIN f /\ f[c] = cw.links[c]
  PROVE  OwnWeight'
<1> DEFINE m == Len(tokens) + 1
<1>0. /\ DOMAIN vuniq = 1 .. Len(vuniq) /\ Len(vuniq) \in Nat
      /\ DOMAIN tokens = 1 .. Len(tokens) /\ Len(tokens) \in Nat
  BY LenProperties DEF TypeOK
<1>1. /\ vuniq' \in Seq(Words)
      /\ tokens' \in Seq(Pushes)
      /\ Len(tokens') = m
      /\ \A i \in DOMAIN tokens : tokens'[i] = tokens[i]
      /\ tokens'[m].follow = f
  BY PushShape
<1>2. DOMAIN tokens' = DOMAIN tokens \cup {m}
  BY <1>0, <1>1, LenProperties
<1>3. CASE Known(cw.key)
  <2> DEFINE x == Index(cw.key)
  <2>1. /\ Len(vuniq') = Len(vuniq)
        /\ \A j \in DOMAIN vuniq :
             /\ vuniq'[j].links = vuniq[j].links
             /\ vuniq'[j].type = IF j = x /\ cw.type \in Tgt
                                   THEN cw.type ELSE vuniq[j].type
    BY <1>3, PushShape
  <2>2. DOMAIN vuniq' = DOMAIN vuniq
    BY <1>0, <1>1, <2>1, LenProperties
  <2>3. cw.type \in Nopv <=> vuniq[x].type \in Nopv
    BY <1>3 DEF Compatible
  <2> HIDE DEF x, m
  <2>4. \A j \in DOMAIN vuniq : vuniq'[j].type \in Nopv <=> vuniq[j].type \in Nopv
    BY <2>1, <2>3
  <2> QED  BY <1>1, <1>2, <2>1, <2>2, <2>4 DEF OwnWeight
<1>4. CASE ~ Known(cw.key)
  <2> DEFINE x == Len(vuniq) + 1
  <2>1. /\ tokens'[m].idx = x
        /\ Len(vuniq') = x
        /\ vuniq'[x] = cw
        /\ \A j \in DOMAIN vuniq : vuniq'[j] = vuniq[j]
    BY <1>4, PushShape
  <2>2. DOMAIN vuniq' = DOMAIN vuniq \cup {x}
    BY <1>0, <1>1, <2>1, LenProperties
  <2> HIDE DEF x, m
  <2> SUFFICES ASSUME NEW j \in DOMAIN vuniq', vuniq'[j].type \in Nopv
               PROVE  \E i \in DOMAIN tokens' :
                        /\ tokens'[i].idx = j
                        /\ \A c \in DOMAIN vuniq'[j].links : vuniq'[j].links[c] # 0 =>
                             c \in DOMAIN tokens'[i].follow
                             /\ tokens'[i].follow[c] = vuniq'[j].links[c]
      BY DEF OwnWeight
  <2>3. CASE j = x
    BY <1>1, <1>2, <2>1, <2>3
  <2>4. CASE j \in DOMAIN vuniq
    <3>1. PICK i \in DOMAIN tokens :
            /\ tokens[i].idx = j
            /\ \A c \in DOMAIN vuniq[j].links : vuniq[j].links[c] # 0 =>
                 c \in DOMAIN tokens[i].follow /\ tokens[i].follow[c] = vuniq[j].links[c]
      BY <2>1, <2>4 DEF OwnWeight
    <3> QED  BY <1>1, <1>2, <2>1, <2>4, <3>1
  <2> QED  BY <2>2, <2>3, <2>4
<1> QED  BY <1>3, <1>4

\* Words and tokens decide about OwnWeight.
LEMMA OwnKept ==
  ASSUME OwnWeight, UNCHANGED <<vuniq, tokens>> PROVE OwnWeight'
<1> DEFINE Own(v, s) ==
      \A j \in DOMAIN v : v[j].type \in Nopv =>
        \E i \in DOMAIN s :
          /\ s[i].idx = j
          /\ \A c \in DOMAIN v[j].links : v[j].links[c] # 0 =>
               c \in DOMAIN s[i].follow /\ s[i].follow[c] = v[j].links[c]
<1>1. Own(vuniq, tokens)
  BY DEF OwnWeight
<1>2. Own(vuniq', tokens')
  <2> HIDE DEF Own
  <2> QED  BY <1>1
<1> QED  BY <1>2 DEF OwnWeight

\* A concept token is entered into both maps alike, unless nopv_concepts has a
\* weightless entry of an earlier word.
LEMMA AttachCollected ==
  ASSUME IInv, Collected, Attach PROVE Collected'
<1>1. open /\ open' = open
  BY DEF Attach
<1>2. PICK t \in Tokens :
        /\ links' = IF t.lemma \in DOMAIN links THEN links
                    ELSE [c \in DOMAIN links \cup {t.lemma} |->
                            IF c = t.lemma THEN t.w ELSE links[c]]
        /\ follow' = IF t.lemma \in DOMAIN follow THEN follow
                     ELSE [c \in DOMAIN follow \cup {t.lemma} |->
                             IF c = t.lemma THEN t.w ELSE follow[c]]
  BY DEF Attach
<1>3. DOMAIN follow' \subseteq DOMAIN links'
  BY <1>1, <1>2 DEF Collected
<1>4. ASSUME NEW c \in DOMAIN links' \cap Kb, links'[c] # 0
      PROVE  c \in DOMAIN follow' /\ follow'[c] = links'[c]
  <2>1. CASE t.lemma \in DOMAIN links
    <3>1. links' = links /\ c \in DOMAIN follow /\ follow[c] = links[c]
      BY <1>1, <1>2, <1>4, <2>1 DEF Collected
    <3>2. c \in DOMAIN follow' /\ follow'[c] = follow[c]
      BY <1>2, <3>1
    <3> QED  BY <3>1, <3>2
  <2>2. CASE t.lemma \notin DOMAIN links
    <3>1. t.lemma \notin DOMAIN follow
      BY <1>1, <2>2 DEF Collected
    <3>2. CASE c = t.lemma
      BY <1>2, <2>2, <3>1, <3>2
    <3>3. CASE c # t.lemma
      <4>1. c \in DOMAIN links \cap Kb /\ links'[c] = links[c]
        BY <1>2, <2>2, <3>3
      <4>2. c \in DOMAIN follow /\ follow[c] = links[c]
        BY <1>1, <1>4, <4>1 DEF Collected
      <4> QED  BY <1>2, <3>1, <3>3, <4>1, <4>2
    <3> QED  BY <3>2, <3>3
  <2> QED  BY <2>1, <2>2
<1> QED  BY <1>1, <1>3, <1>4 DEF Collected

\* The words keep the links that are their own.
LEMMA OwnStep ==
  ASSUME IInv, OwnWeight, Collected, [Next]_vars PROVE OwnWeight' /\ Collected'
<1>0. TypeOK /\ UniqueWords /\ (open => pc \in {"next", "flush", "error"})
  BY DEF IInv, Loop
<1>1. CASE \/ Malformed \/ Attach \/ ReadToken \/ FlushEmpty \/ FlushClash
           \/ OpenNopv \/ SkipWord \/ WordThrows
           \/ EndOfContext \/ EndEmpty \/ EndClash \/ UNCHANGED vars
  <2>1. UNCHANGED <<vuniq, tokens>>
    BY <1>1 DEF Malformed, Attach, ReadToken, FlushEmpty, FlushClash, OpenNopv, SkipWord,
           WordThrows, EndOfContext, EndEmpty, EndClash, vars
  <2>2. OwnWeight'
    BY <2>1, OwnKept
  <2>3. CASE Attach
    BY <2>2, <2>3, AttachCollected
  <2>4. CASE FlushEmpty \/ EndEmpty
    <3>1. ~ HasWeight(InKb(links)) /\ ~ open' /\ links' = links
      BY <2>4 DEF FlushEmpty, EndEmpty
    <3>2. \A c \in DOMAIN links \cap Kb : links[c] = 0
      BY <1>0, <3>1, NothingLinked DEF TypeOK
    <3> QED  BY <2>2, <3>1, <3>2 DEF Collected
  <2>5. CASE FlushClash \/ EndClash
    <3>1. ~ open' /\ links' = NoLinks
      BY <2>5 DEF FlushClash, EndClash
    <3> QED  BY <2>2, <3>1 DEF Collected, NoLinks
  <2>6. CASE OpenNopv
    <3>1. ~ open /\ open' /\ links' = links /\ follow' = NoLinks
      BY <1>0, <2>6 DEF OpenNopv
    <3> QED  BY <2>2, <3>1 DEF Collected, NoLinks
  <2>7. CASE \/ Malformed \/ ReadToken \/ SkipWord \/ WordThrows \/ EndOfContext
             \/ UNCHANGED vars
    <3>1. UNCHANGED <<open, links, follow>>
      BY <2>7 DEF Malformed, ReadToken, SkipWord, WordThrows, EndOfContext, vars
    <3> QED  BY <2>2, <3>1 DEF Collected
  <2> QED  BY <1>1, <2>2, <2>3, <2>4, <2>5, <2>6, <2>7
<1>2. CASE FlushWord \/ EndWord
  <2>1. /\ open /\ last \in Words /\ links \in Links /\ follow \in Links
        /\ Compatible(last) /\ PushCw(SetConcepts(last, links), follow)
        /\ ~ open' /\ links' = NoLinks
    BY <1>2 DEF IInv, TypeOK, Loop, FlushWord, EndWord
  <2>2. PICK cw : cw = SetConcepts(last, links)
    OBVIOUS
  <2>3. PICK f : f = follow
    OBVIOUS
  <2>4. cw \in Words /\ cw.key = last.key /\ cw.type = last.type /\ cw.links = InKb(links)
    BY <2>1, <2>2, InKbTyped, Relinked DEF SetConcepts
  <2>5. Compatible(cw) /\ PushCw(cw, f) /\ f \in Links
    BY <2>1, <2>2, <2>3, <2>4, CompatibleSame
  <2>6. \A c \in DOMAIN cw.links : cw.links[c] # 0 => c \in DOMAIN f /\ f[c] = cw.links[c]
    BY <2>1, <2>3, <2>4 DEF Collected, InKb
  <2>7. OwnWeight'
    BY <1>0, <2>4, <2>5, <2>6, PushOwn
  <2> QED  BY <2>1, <2>7 DEF Collected, NoLinks
<1>3. CASE PushWord
  <2>1. /\ tok \in Tokens /\ n \in 1 .. MaxTokens /\ Resolvable(tok)
        /\ UNCHANGED <<open, links, follow>>
    BY <1>3 DEF IInv, TypeOK, Loop, PushWord
  <2>2. PICK cw : cw = CWord(tok.lemma, n, tok.type, tok.w, Linked(tok))
    OBVIOUS
  <2>3. cw \in Words /\ cw.type = tok.type
    BY <2>1, <2>2, LinkedTyped, CWordTyped
  <2>4. Compatible(cw) /\ PushCw(cw, NoLinks) /\ NoLinks \in Links
    BY <1>3, <2>2, NoLinksTyped DEF PushWord
  <2>5. cw.type \notin Nopv
    BY <2>1, <2>3 DEF Resolvable
  <2>6. OwnWeight'
    BY <1>0, <2>3, <2>4, <2>5, PushOwn
  <2> QED  BY <2>1, <2>6 DEF Collected
<1> QED  BY <1>1, <1>2, <1>3 DEF Next

\* The links of a nopv word that count are those of concepts that followed one of its
\* tokens: the concepts an earlier word leaves in nopv_concepts all weigh nothing.
THEOREM LinksAreOwn == Spec => []OwnWeight
<1>1. Init => OwnWeight /\ Collected
  BY DEF Init, OwnWeight, Collected, NoLinks
<1>2. IInv /\ (OwnWeight /\ Collected) /\ [Next]_vars => (OwnWeight /\ Collected)'
  BY OwnStep
<1> QED  BY <1>1, <1>2, Invariance, PTL DEF Spec

=============================================================================
