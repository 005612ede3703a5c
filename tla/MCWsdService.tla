---------------------------- MODULE MCWsdService ----------------------------
(* Instances of WsdService for TLC. *)
EXTENDS WsdService, TLC

\* A sentence of one word, and one of two words of which ukb_wsd knows the second.
OneWord   == [n |-> 1, ids |-> <<0>>]
SecondOf2 == [n |-> 2, ids |-> <<1>>]

MCTexts == {<<OneWord, SecondOf2>>}

=============================================================================
