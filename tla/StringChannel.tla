--------------------------- MODULE StringChannel ----------------------------
(***************************************************************************)
(* What the two ends of a connection promise to each other (ukbServer.h):  *)
(* the receiver gets the strings that were sent, whole, once and in order; *)
(* "false" when the sender has gone behind a string, and an exception when *)
(* it has gone within one.  UkbDaemon is written in terms of this channel. *)
(***************************************************************************)
EXTENDS Sequences, Naturals

CONSTANT Strings  \* the strings that are sent

VARIABLES
  queue,   \* strings on their way, complete ones
  part,    \* the string that is being sent, as a sequence of at most one
  state,   \* the sender: "open", "closed", or "cut" within a string
  got,     \* strings the receiver has
  result   \* the receiver: "receive", then "false" or "throw"

vars == <<queue, part, state, got, result>>

Init ==
  /\ queue = <<>>
  /\ part = <<>>
  /\ state = "open"
  /\ got = <<>>
  /\ result = "receive"

\* write_string begins.
Send ==
  /\ state = "open"
  /\ part = <<>>
  /\ \E s \in Strings : part' = <<s>>
  /\ UNCHANGED <<queue, state, got, result>>

\* The whole string is on its way.
Sent ==
  /\ state = "open"
  /\ part # <<>>
  /\ queue' = queue \o part
  /\ part' = <<>>
  /\ UNCHANGED <<state, got, result>>

\* The sender closes or is killed, and a string it was sending is lost.
Close ==
  /\ state = "open"
  /\ state' \in IF part = <<>> THEN {"closed"} ELSE {"closed", "cut"}
  /\ part' = <<>>
  /\ UNCHANGED <<queue, got, result>>

Receive ==
  /\ result = "receive"
  /\ queue # <<>>
  /\ got' = Append(got, Head(queue))
  /\ queue' = Tail(queue)
  /\ UNCHANGED <<part, state, result>>

\* Only behind the last string, and only if it is complete.
ReceiveEof ==
  /\ result = "receive"
  /\ queue = <<>>
  /\ state = "closed"
  /\ result' = "false"
  /\ UNCHANGED <<queue, part, state, got>>

ReceiveThrows ==
  /\ result = "receive"
  /\ queue = <<>>
  /\ state = "cut"
  /\ result' = "throw"
  /\ UNCHANGED <<queue, part, state, got>>

Next == Send \/ Sent \/ Close \/ Receive \/ ReceiveEof \/ ReceiveThrows

Spec == Init /\ [][Next]_vars

=============================================================================
