---------------------------- MODULE MCUkbDaemon -----------------------------
(* Instances of UkbDaemon for TLC. *)
EXTENDS UkbDaemon, TLC

CONSTANTS c1, c2   \* two client processes

\* Nothing, an identifier without a context, an answer, no answer, an error, and each
\* of the last three behind or before another context.
MCParsed == {<<>>, <<"half">>, <<"good">>, <<"bad", "good">>, <<"none", "good">>,
             <<"good", "none">>, <<"good", "bad">>}

\* A context the loop over the words runs out of, too.
MCInputs == MCParsed \cup {<<"overrun", "good">>, <<"good", "overrun">>}

=============================================================================
