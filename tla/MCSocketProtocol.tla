-------------------------- MODULE MCSocketProtocol --------------------------
(* Instances of SocketProtocol for TLC: numbers to the base 3. *)
EXTENDS SocketProtocol, TLC

\* Strings of one to four bytes (sizes "1", "10", "11"), of bytes that are
\* digits and of one that is not.
MCStrings == {<<0>>, <<5>>, <<1, 1>>, <<1, 2, 0>>, <<2, 1, 5, 1>>}

=============================================================================
