----------------------------- MODULE CtxParser ------------------------------
(***************************************************************************)
(* The constructor of CSentence (csentence.cc): how ukb_wsd turns the      *)
(* tokens of a context, "lemma#pos#id#d#w", into unique words linked to    *)
(* concepts of the knowledge base.  push_ctx is a loop over the tokens in  *)
(* which a 'nopv' word (d = 3 or 4) stays open while concept tokens        *)
(* (d = 2) follow it, and is pushed when another token or the end comes.   *)
(* A token that is wrong raises a logic_error; glVars::input::swallow (set *)
(* by --minput and by the daemon) decides whether the loop goes on.        *)
(*                                                                         *)
(* A lemma stands for the pair lemma and part of speech (wpos).  Tokens    *)
(* are chosen when the loop reads them, so that a behaviour is a context.  *)
(***************************************************************************)
EXTENDS Integers, Sequences, FiniteSets, Functions

CONSTANTS Lemmas,    \* lemmas of word tokens
          Concepts,  \* concept identifiers of concept tokens
          Kb,        \* the vertices of the knowledge base
          Dict,      \* the dictionary: the concepts of a lemma with their weights
          Weights,   \* weights a token may carry
          MaxTokens  \* bound on the length of a context

\* The loader refuses an entry of weight zero (parse_concept), not one below zero;
\* without --dict_weight every weight is 1.
IsEntries(l) == DOMAIN l \subseteq Kb /\ l \in [DOMAIN l -> Int \ {0}]

ASSUME ParserAssumption ==
  /\ IsFiniteSet(Kb)
  /\ DOMAIN Dict = Lemmas
  /\ \A l \in Lemmas : IsEntries(Dict[l])
  /\ Weights \subseteq Nat
  /\ MaxTokens \in Nat
  /\ Lemmas \cap Concepts = {}

\* CWord::cwtype
CtxWord == "ctxword"
TgtWord == "tgtword"
Concept == "concept"
TgtNopv == "tgtword_nopv"
CtxNopv == "ctxword_nopv"
Nopv == {TgtNopv, CtxNopv}
Tgt  == {TgtWord, TgtNopv}
Types == {CtxWord, TgtWord, Concept} \cup Nopv

\* What parse_ctw returns for a token; a malformed one has no fields.
Tokens == [lemma : Lemmas, type : Types \ {Concept}, w : Weights]
          \cup [lemma : Concepts, type : {Concept}, w : Weights]

NoToken == [lemma |-> "", type |-> "error", w |-> 0]

VARIABLES
  swallow,  \* glVars::input::swallow
  pc,       \* "next": read a token, "flush": an open nopv word meets a token,
            \* "token": the token itself, "done", "error", "past"
  n,        \* tokens read
  tok,      \* the token in hand
  vuniq,    \* the unique words of the context
  tokens,   \* the tokens that made it: their position, type and unique word, and
            \* (history) the concept tokens that followed a nopv token
  weight,   \* m_weight
  open,     \* last_is_nopv
  last,     \* last_nopv
  links,    \* nopv_concepts
  follow    \* history: the concept tokens that followed last

vars == <<swallow, pc, n, tok, vuniq, tokens, weight, open, last, links, follow>>

NoLinks == [c \in {} |-> 0]

\* A word: its key in the map of words, the position of its token, type, weight,
\* and the weight of each concept it is linked to.
CWord(key, id, type, w, l) ==
  [key |-> key, id |-> id, type |-> type, w |-> w, links |-> l]

NoWord == CWord("", 0, "error", 0, NoLinks)

Links  == UNION {[S -> Weights] : S \in SUBSET (Kb \cup Concepts)}
Words  == [key : Lemmas \cup Concepts, id : 1 .. MaxTokens, type : Types, w : Nat,
           links : UNION {[S -> Int] : S \in SUBSET (Kb \cup Concepts)}]
Pushes == [id : 1 .. MaxTokens, type : Types, idx : Nat \ {0}, follow : Links]

Init ==
  /\ swallow \in BOOLEAN
  /\ pc = "next"
  /\ n = 0
  /\ tok = NoToken
  /\ vuniq = <<>>
  /\ tokens = <<>>
  /\ weight = 0
  /\ open = FALSE
  /\ last = NoWord
  /\ links = NoLinks
  /\ follow = NoLinks

-----------------------------------------------------------------------------
(* Helpers.                                                                *)

\* CW, the map from keys to unique words.
Known(key) == \E i \in DOMAIN vuniq : vuniq[i].key = key
Index(key) == CHOOSE i \in DOMAIN vuniq : vuniq[i].key = key

\* Mutant: the check for incompatible types is dropped.
CompatibleAlways(cw) == TRUE

\* push_cw throws when a word comes with and without a nopv type.
Compatible(cw) ==
  Known(cw.key) => (cw.type \in Nopv <=> vuniq[Index(cw.key)].type \in Nopv)

\* push_cw: a new unique word, or more weight (and the type of a target) for
\* one that is there, whose links stay; in both cases a token.  (m_tgtN is
\* the number of targets among the tokens.)
PushCw(cw, f) ==
  LET i == IF Known(cw.key) THEN Index(cw.key) ELSE Len(vuniq) + 1 IN
  /\ vuniq' = IF Known(cw.key)
                THEN [vuniq EXCEPT ![i].type = IF cw.type \in Tgt THEN cw.type ELSE @,
                                   ![i].w = @ + cw.w]
                ELSE Append(vuniq, cw)
  /\ tokens' = Append(tokens, [id |-> cw.id, type |-> cw.type, idx |-> i, follow |-> f])
  /\ weight' = weight + cw.w

\* A new unique word is swapped into its place, a known one stays in hand.
Pushed(cw) == IF Known(cw.key) THEN cw ELSE NoWord

\* The ranks of a word's concepts are divided by the sum of their weights, so
\* links that sum up to zero are refused (link_dict_concepts, set_concepts).
HasWeight(l) == SumFunction(l) # 0

\* CWord::set_concepts takes the concepts that the graph knows.
InKb(l) == [c \in DOMAIN l \cap Kb |-> l[c]]
SetConcepts(cw, l) == [cw EXCEPT !.links = InKb(l)]

\* A logic_error of the loop: swallowed, or rethrown as a runtime_error.
Raise(goOn) == pc' = IF swallow THEN goOn ELSE "error"

\* Behind the loop: a context whose words have no weight is refused, swallow or not.
Finish(v, w) == pc' = IF v # <<>> /\ w = 0 THEN "error" ELSE "done"

-----------------------------------------------------------------------------
(* One iteration of push_ctx.                                              *)

\* parse_ctw, the test for a lemma and cast_int_cwtype refuse the token.
Malformed ==
  /\ pc = "next"
  /\ n < MaxTokens
  /\ n' = n + 1
  /\ Raise("next")
  /\ UNCHANGED <<swallow, tok, vuniq, tokens, weight, open, last, links, follow>>

\* A concept behind an open nopv word; the first weight of a concept counts.
Attach ==
  /\ pc = "next"
  /\ n < MaxTokens
  /\ open
  /\ n' = n + 1
  /\ \E t \in Tokens :
       /\ t.type = Concept
       /\ links' = IF t.lemma \in DOMAIN links THEN links
                   ELSE [c \in DOMAIN links \cup {t.lemma} |->
                           IF c = t.lemma THEN t.w ELSE links[c]]
       /\ follow' = IF t.lemma \in DOMAIN follow THEN follow
                    ELSE [c \in DOMAIN follow \cup {t.lemma} |->
                            IF c = t.lemma THEN t.w ELSE follow[c]]
  /\ UNCHANGED <<swallow, pc, tok, vuniq, tokens, weight, open, last>>

\* Any other well-formed token.
ReadToken ==
  /\ pc = "next"
  /\ n < MaxTokens
  /\ n' = n + 1
  /\ \E t \in Tokens :
       /\ open => t.type # Concept
       /\ tok' = t
  /\ pc' = IF open THEN "flush" ELSE "token"
  /\ UNCHANGED <<swallow, vuniq, tokens, weight, open, last, links, follow>>

\* The open nopv word got no concept with weight: it is dropped, and the concepts
\* collected for it stay where they are.
FlushEmpty ==
  /\ pc = "flush"
  /\ ~ HasWeight(InKb(links))
  /\ open' = FALSE
  /\ last' = [last EXCEPT !.links = NoLinks]
  /\ pc' = "token"
  /\ UNCHANGED <<swallow, n, tok, vuniq, tokens, weight, links, follow>>

\* Mutant: the concepts are not cleared when the word is pushed.
FlushWordKeepsLinks ==
  /\ pc = "flush"
  /\ HasWeight(InKb(links))
  /\ Compatible(last)
  /\ PushCw(SetConcepts(last, links), follow)
  /\ open' = FALSE
  /\ last' = Pushed(SetConcepts(last, links))
  /\ pc' = "token"
  /\ UNCHANGED <<swallow, n, tok, links, follow>>

\* The open nopv word is linked and pushed.
FlushWord ==
  /\ pc = "flush"
  /\ HasWeight(InKb(links))
  /\ Compatible(last)
  /\ PushCw(SetConcepts(last, links), follow)
  /\ open' = FALSE
  /\ last' = Pushed(SetConcepts(last, links))
  /\ links' = NoLinks
  /\ pc' = "token"
  /\ UNCHANGED <<swallow, n, tok, follow>>

\* push_cw throws: --it makes the loop come back to the token in hand.
FlushClash ==
  /\ pc = "flush"
  /\ HasWeight(InKb(links))
  /\ ~ Compatible(last)
  /\ open' = FALSE
  /\ last' = SetConcepts(last, links)
  /\ links' = NoLinks
  /\ Raise("token")
  /\ UNCHANGED <<swallow, n, tok, vuniq, tokens, weight, follow>>

\* A nopv token opens a word; its concepts are still to come.
OpenNopv ==
  /\ pc = "token"
  /\ tok.type \in Nopv
  /\ last' = CWord(tok.lemma, n, tok.type, tok.w, NoLinks)
  /\ open' = TRUE
  /\ follow' = NoLinks
  /\ pc' = "next"
  /\ UNCHANGED <<swallow, n, tok, vuniq, tokens, weight, links>>

\* The links of a word from the dictionary, or of a concept to itself.
Linked(t) == IF t.type = Concept THEN [c \in {t.lemma} |-> 1] ELSE Dict[t.lemma]

\* A word without entries, or whose weights cancel out, is emptied and passed over.
SkipWord ==
  /\ pc = "token"
  /\ tok.type \in {CtxWord, TgtWord}
  /\ ~ HasWeight(Dict[tok.lemma])
  /\ pc' = "next"
  /\ UNCHANGED <<swallow, n, tok, vuniq, tokens, weight, open, last, links, follow>>

\* Mutant: a word with entries is linked, whatever their weights sum up to.
ResolvableIfLinked(t) == /\ t.type \notin Nopv
                         /\ t.type = Concept => t.lemma \in Kb
                         /\ t.type # Concept => DOMAIN Dict[t.lemma] # {}

Resolvable(t) == /\ t.type \notin Nopv
                 /\ t.type = Concept => t.lemma \in Kb
                 /\ t.type # Concept => HasWeight(Dict[t.lemma])

PushWord ==
  /\ pc = "token"
  /\ Resolvable(tok)
  /\ LET cw == CWord(tok.lemma, n, tok.type, tok.w, Linked(tok)) IN
       /\ Compatible(cw)
       /\ PushCw(cw, NoLinks)
  /\ pc' = "next"
  /\ UNCHANGED <<swallow, n, tok, open, last, links, follow>>

\* A concept that is not in the graph, or a word that is there as a nopv word.
WordThrows ==
  /\ pc = "token"
  /\ \/ tok.type = Concept /\ tok.lemma \notin Kb
     \/ Resolvable(tok) /\ ~ Compatible(CWord(tok.lemma, n, tok.type, tok.w, NoLinks))
  /\ Raise("next")
  /\ UNCHANGED <<swallow, n, tok, vuniq, tokens, weight, open, last, links, follow>>

-----------------------------------------------------------------------------
(* it == end.                                                              *)

EndOfContext ==
  /\ pc = "next"
  /\ ~ open
  /\ Finish(vuniq, weight)
  /\ UNCHANGED <<swallow, n, tok, vuniq, tokens, weight, open, last, links, follow>>

\* The last check, to fill the last nopv word.
EndEmpty ==
  /\ pc = "next"
  /\ open
  /\ ~ HasWeight(InKb(links))
  /\ open' = FALSE
  /\ last' = [last EXCEPT !.links = NoLinks]
  /\ Finish(vuniq, weight)
  /\ UNCHANGED <<swallow, n, tok, vuniq, tokens, weight, links, follow>>

EndWord ==
  /\ pc = "next"
  /\ open
  /\ HasWeight(InKb(links))
  /\ Compatible(last)
  /\ PushCw(SetConcepts(last, links), follow)
  /\ open' = FALSE
  /\ last' = Pushed(SetConcepts(last, links))
  /\ links' = NoLinks
  /\ Finish(vuniq', weight')
  /\ UNCHANGED <<swallow, n, tok, follow>>

\* The handler swallows the exception and ++it steps over the end: the loop
\* goes on with whatever lies behind the vector.
EndClash ==
  /\ pc = "next"
  /\ open
  /\ HasWeight(InKb(links))
  /\ ~ Compatible(last)
  /\ open' = FALSE
  /\ last' = SetConcepts(last, links)
  /\ links' = NoLinks
  /\ Raise("past")
  /\ UNCHANGED <<swallow, n, tok, vuniq, tokens, weight, follow>>

Next ==
  \/ Malformed \/ Attach \/ ReadToken
  \/ FlushEmpty \/ FlushWord \/ FlushClash
  \/ OpenNopv \/ SkipWord \/ PushWord \/ WordThrows
  \/ EndOfContext \/ EndEmpty \/ EndWord \/ EndClash

Spec == Init /\ [][Next]_vars

-----------------------------------------------------------------------------
(* Properties.                                                             *)

\* The type invariant of the parser's variables.
TypeOK ==
  /\ swallow \in BOOLEAN
  /\ pc \in {"next", "flush", "token", "done", "error", "past"}
  /\ n \in 0 .. MaxTokens
  /\ tok \in Tokens \cup {NoToken}
  /\ vuniq \in Seq(Words)
  /\ tokens \in Seq(Pushes)
  /\ weight \in Nat
  /\ open \in BOOLEAN
  /\ last \in Words \cup {NoWord}
  /\ links \in Links
  /\ follow \in Links

\* A unique word is one word: no key twice; all its tokens agree with it on
\* being nopv; and it is a target (dispatch_run_cs ranks it) exactly if one of
\* its tokens is (print_csent prints it).
UniqueWords ==
  /\ \A i, j \in DOMAIN vuniq : vuniq[i].key = vuniq[j].key => i = j
  /\ \A i \in DOMAIN tokens : /\ tokens[i].idx \in DOMAIN vuniq
                              /\ tokens[i].type \in Nopv <=> vuniq[tokens[i].idx].type \in Nopv
  /\ \A j \in DOMAIN vuniq :
       vuniq[j].type \in Tgt <=> \E i \in DOMAIN tokens : /\ tokens[i].idx = j
                                                         /\ tokens[i].type \in Tgt

\* The tokens keep the order of the input, although a nopv word is pushed
\* only when the token behind its concepts has been read.
TokensInOrder ==
  \A i, j \in DOMAIN tokens : i < j => tokens[i].id < tokens[j].id

\* What print_csent and dispatch_run_cs assume of each other's view of a context.
TokensAgree == UniqueWords /\ TokensInOrder

\* Every word can be ranked: it is linked to the graph only, and the weights of its
\* links, be they the dictionary's or a context's, do not sum up to zero: the
\* factor 1 / sum exists.
Rankable ==
  \A i \in DOMAIN vuniq : /\ DOMAIN vuniq[i].links \subseteq Kb
                         /\ HasWeight(vuniq[i].links)

\* A context that is accepted has a weight factor: m_weight is zero only if no
\* word of it has any weight, and such a context ends with an error.
AcceptedHasWeight ==
  pc = "done" /\ vuniq # <<>> => \E i \in DOMAIN vuniq : vuniq[i].w # 0

\* Neither division by a weight of a context is one by zero.
Divisible == Rankable /\ AcceptedHasWeight

\* A nopv word's links with weight are those of the concepts that followed one of
\* its tokens, and of nothing that an earlier word left in nopv_concepts.
OwnWeight ==
  \A j \in DOMAIN vuniq : vuniq[j].type \in Nopv =>
    \E i \in DOMAIN tokens :
      /\ tokens[i].idx = j
      /\ \A c \in DOMAIN vuniq[j].links : vuniq[j].links[c] # 0 =>
           c \in DOMAIN tokens[i].follow /\ tokens[i].follow[c] = vuniq[j].links[c]

=============================================================================
