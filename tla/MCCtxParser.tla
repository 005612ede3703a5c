---------------------------- MODULE MCCtxParser -----------------------------
(* Instances of CtxParser for TLC. *)
EXTENDS CtxParser, TLC

CONSTANTS bank, foo, bar, \* lemmas: with entries, with entries that cancel out, with none
          c1, c2, cx   \* two concepts of the graph and one it does not have

MCLemmas   == {bank, foo, bar}
MCConcepts == {c1, c2, cx}
MCKb       == {c1, c2}
MCDict     == (bank :> (c1 :> 1 @@ c2 :> 2)) @@ (foo :> (c1 :> 1 @@ c2 :> -1)) @@ (bar :> <<>>)

=============================================================================
