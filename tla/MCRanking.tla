----------------------------- MODULE MCRanking ------------------------------
(* Contexts for Ranking. *)
EXTENDS Ranking, TLC

MkWord(tgt, w, links) == [tgt |-> tgt, nopv |-> FALSE, w |-> w, links |-> links]
NoPv(word) == [word EXCEPT !.nopv = TRUE]
Token(i, tgt) == [idx |-> i, tgt |-> tgt]

\* "bank" has three synsets, "money" two, "coin" one.
Bank(tgt, w)  == MkWord(tgt, w, ("b1" :> 1 @@ "b2" :> 1 @@ "b3" :> 1))
Money(tgt, w) == MkWord(tgt, w, ("m1" :> 1 @@ "m2" :> 0))
Coin(tgt)     == MkWord(tgt, 1, ("c1" :> 1))

MCSynsets == {"b1", "b2", "b3", "m1", "m2", "c1"}

Context(words, tokens) == [words |-> words, tokens |-> tokens]

\* One word and several, of weight zero or not, repeated, alone or with others, as
\* targets or not, with control numbers 3 and 4 ("bank" first or "money") or without.
MCContexts ==
  { Context(<<>>, <<>>),
    Context(<<Bank(TRUE, 1)>>, <<Token(1, TRUE)>>),
    Context(<<Bank(TRUE, 2)>>, <<Token(1, FALSE), Token(1, TRUE)>>),
    Context(<<Bank(TRUE, 1), Money(FALSE, 0)>>, <<Token(1, TRUE), Token(2, FALSE)>>),
    Context(<<Bank(TRUE, 1), Money(TRUE, 0)>>, <<Token(1, TRUE), Token(2, TRUE)>>),
    Context(<<NoPv(Bank(TRUE, 1)), Money(TRUE, 1)>>, <<Token(1, TRUE), Token(2, TRUE)>>),
    Context(<<Bank(FALSE, 0), Money(FALSE, 1)>>, <<Token(1, FALSE), Token(2, FALSE)>>) }
  \cup
  { Context(<<Coin(TRUE), Bank(TRUE, 1), money>>,
            <<Token(1, TRUE), Token(2, TRUE), Token(3, money.tgt), Token(2, FALSE)>>) :
      money \in {Money(t, w) : t \in BOOLEAN, w \in {0, 1}}
                \cup {NoPv(Money(t, 1)) : t \in BOOLEAN} }

=============================================================================
