--------------------------- MODULE SocketProtocol ---------------------------
(***************************************************************************)
(* sWrite and sRead (ukbServer.cc, namespace protocol): strings over a TCP *)
(* connection.  A string is sent as one byte M, a number of M digits N and *)
(* N bytes; the receiver gets the bytes in packets cut anywhere and puts   *)
(* the strings together again from a buffer it refills when it is empty.   *)
(* One direction of a connection: a sender and a receiver.                 *)
(*                                                                         *)
(* Bytes are numbers, of which those below Radix are digits.  The code's   *)
(* Radix is 10 and its BuffSize 16384.                                     *)
(***************************************************************************)
EXTENDS Naturals, SequencesExt

CONSTANTS Radix,     \* the base numbers are written in
          Strings,   \* the strings that are sent: sequences of bytes
          BuffSize,  \* the size of the receiver's buffer
          NetCap,    \* bytes the kernels of the two ends hold
          MaxStrings \* bound on the strings that are sent

ASSUME ProtocolAssumption ==
  /\ Radix \in Nat \ {0, 1}
  /\ Strings \subseteq Seq(Nat)
  /\ BuffSize \in Nat \ {0}
  /\ NetCap \in Nat \ {0}
  /\ MaxStrings \in Nat

VARIABLES
  sent,   \* history: the strings that are on their way or there
  cur,    \* the string that is being sent
  obuf,   \* bytes the sender still has to write
  wst,    \* the sender: "open", "closed", or "cut" within a string
  net,    \* bytes between the two ends
  mbuf,   \* m_left .. m_right of the receiver
  phase,  \* the read_nstring the receiver is in: "one", "size" or "data"
  need,   \* characters it still needs
  acc,    \* those it has
  got,    \* the strings that read_string returned
  result  \* "receive", or how read_string ended: "false", "throw"

senderVars == <<sent, cur, obuf, wst>>
readVars   == <<mbuf, phase, need, acc, got, result>>
vars == <<senderVars, net, readVars>>

Init ==
  /\ sent = <<>>
  /\ cur = <<>>
  /\ obuf = <<>>
  /\ wst = "open"
  /\ net = <<>>
  /\ mbuf = <<>>
  /\ phase = "one"
  /\ need = 1
  /\ acc = <<>>
  /\ got = <<>>
  /\ result = "receive"

-----------------------------------------------------------------------------
(* lexical_cast between numbers and strings.                               *)

digits[n \in Nat] == IF n < Radix THEN <<n>>
                     ELSE Append(digits[n \div Radix], n % Radix)

Value(s) == FoldLeft(LAMBDA v, d : v * Radix + d, 0, s)

\* lexical_cast<size_t> throws on an empty string and on what is not a digit.
IsNumber(s) == s # <<>> /\ \A i \in DOMAIN s : s[i] < Radix

\* A size that was written is read as that number, and the size of the size, of which only the
\* first character is sent, has one digit (strings of less than 10^9 bytes).
ASSUME SizesAssumption ==
  \A s \in Strings \ {<<>>} :
    LET size == digits[Len(s)]
        one  == <<Head(digits[Len(size)])>> IN
    /\ size \in Seq(Nat) /\ IsNumber(size) /\ Value(size) = Len(s)
    /\ one \in Seq(Nat) /\ IsNumber(one) /\ Value(one) = Len(size)

-----------------------------------------------------------------------------
(* The sender.                                                             *)

\* Mutant: the size of the size is left out.
EncodeShort(s) == digits[Len(s)] \o s

\* write_size sends the first character of the size's size, then the size;
\* write_data sends the string.
Encode(s) ==
  LET size == digits[Len(s)] IN <<Head(digits[Len(size)])>> \o size \o s

\* write_string; an empty string is not sent at all.
WriteString ==
  /\ wst = "open"
  /\ obuf = <<>>
  /\ Len(sent) < MaxStrings
  /\ \E s \in Strings \ {<<>>} : cur' = s /\ obuf' = Encode(s)
  /\ UNCHANGED <<sent, wst, net, readVars>>

\* boost::asio::write with transfer_all: as much as fits, until all is gone.
Transfer ==
  /\ wst = "open"
  /\ \E k \in 1 .. Len(obuf) :
       /\ Len(net) + k <= NetCap
       /\ net' = net \o SubSeq(obuf, 1, k)
       /\ obuf' = SubSeq(obuf, k + 1, Len(obuf))
       /\ sent' = IF k = Len(obuf) THEN Append(sent, cur) ELSE sent
       /\ cur' = IF k = Len(obuf) THEN <<>> ELSE cur
  /\ UNCHANGED <<wst, readVars>>

\* The sender closes the connection, or is killed while it writes.
Close ==
  /\ wst = "open"
  /\ wst' = IF obuf = <<>> \/ obuf = Encode(cur) THEN "closed" ELSE "cut"
  /\ obuf' = <<>>
  /\ cur' = <<>>
  /\ UNCHANGED <<sent, net, readVars>>

-----------------------------------------------------------------------------
(* The receiver, in read_string.                                           *)

\* Mutant: the packet has to hold all that is needed.
ReadPacketWhole ==
  /\ result = "receive"
  /\ mbuf = <<>>
  /\ LET k == Len(net) IN
       /\ k >= need
       /\ k <= BuffSize
       /\ mbuf' = net
       /\ net' = <<>>
  /\ UNCHANGED <<senderVars, phase, need, acc, got, result>>

\* read_packet: read_some returns what it likes of what has arrived.
ReadPacket ==
  /\ result = "receive"
  /\ mbuf = <<>>
  /\ \E k \in 1 .. Len(net) :
       /\ k <= BuffSize
       /\ mbuf' = SubSeq(net, 1, k)
       /\ net' = SubSeq(net, k + 1, Len(net))
  /\ UNCHANGED <<senderVars, phase, need, acc, got, result>>

\* The end of the file: "false" if not even the first byte of a string came.
ReadEof ==
  /\ result = "receive"
  /\ mbuf = <<>>
  /\ net = <<>>
  /\ wst # "open"
  /\ result' = IF phase = "one" THEN "false" ELSE "throw"
  /\ UNCHANGED <<senderVars, net, mbuf, phase, need, acc, got>>

\* The next read_nstring.
Expect(p, n) ==
  /\ phase' = p
  /\ need' = n
  /\ acc' = <<>>

\* read_nstring is complete with the string s: read_size, or the string itself.
Complete(s) ==
  \/ /\ phase = "one"
     /\ IsNumber(s) /\ Value(s) # 0
     /\ Expect("size", Value(s))
     /\ UNCHANGED <<got, result>>
  \/ /\ phase = "size"
     /\ IsNumber(s) /\ Value(s) # 0
     /\ Expect("data", Value(s))
     /\ UNCHANGED <<got, result>>
  \/ /\ phase = "data"
     /\ Expect("one", 1)
     /\ got' = Append(got, s)
     /\ UNCHANGED result
  \/ /\ phase # "data"
     /\ ~ IsNumber(s) \/ (phase = "one" /\ Value(s) = 0)
     /\ result' = "throw"
     /\ UNCHANGED <<phase, need, acc, got>>
  \/ /\ phase = "size"
     /\ IsNumber(s) /\ Value(s) = 0
     /\ result' = "false"
     /\ UNCHANGED <<phase, need, acc, got>>

\* read_nstring takes characters from the buffer while it needs any.
Consume ==
  /\ result = "receive"
  /\ mbuf # <<>>
  /\ LET k == IF need < Len(mbuf) THEN need ELSE Len(mbuf)
         s == acc \o SubSeq(mbuf, 1, k) IN
       /\ mbuf' = SubSeq(mbuf, k + 1, Len(mbuf))
       /\ IF k = need THEN Complete(s)
          ELSE acc' = s /\ need' = need - k /\ UNCHANGED <<phase, got, result>>
  /\ UNCHANGED <<senderVars, net>>

-----------------------------------------------------------------------------

Receiver == ReadPacket \/ ReadEof \/ Consume

Next == WriteString \/ Transfer \/ Close \/ Receiver

Spec == Init /\ [][Next]_vars

\* The processes run; nobody has to send another string or to close.
Fairness == WF_vars(Transfer) /\ WF_vars(Receiver)

FairSpec == Spec /\ Fairness

-----------------------------------------------------------------------------
(* Properties.                                                             *)

\* The type invariant: the buffer never holds more than its size, and between two
\* strings read_string is ready for the one byte that begins the next.
TypeOK ==
  /\ sent \in Seq(Strings \ {<<>>}) /\ got \in Seq(Strings \ {<<>>})
  /\ cur \in Strings \cup {<<>>} /\ obuf \in Seq(Nat)
  /\ wst \in {"open", "closed", "cut"}
  /\ net \in Seq(Nat) /\ Len(net) <= NetCap
  /\ mbuf \in Seq(Nat) /\ Len(mbuf) <= BuffSize
  /\ phase \in {"one", "size", "data"}
  /\ need \in Nat \ {0}
  /\ acc \in Seq(Nat)
  /\ phase = "one" => need = 1 /\ acc = <<>>
  /\ result \in {"receive", "false", "throw"}

\* The channel of strings that the two ends implement.
Channel == INSTANCE StringChannel WITH
  queue <- SubSeq(sent, Len(got) + 1, Len(sent)),
  part  <- IF obuf = <<>> THEN <<>> ELSE <<cur>>,
  state <- wst

\* sWrite and sRead implement the channel that sessions and clients are written
\* for: "false" and the exception of receive come behind the last whole string, and say
\* whether the sender was cut off within one.
ImplementsChannel == Channel!Spec

\* Every string that was sent whole is received: the receiver waits for no more
\* than what comes.
Delivered == \A n \in 1 .. MaxStrings : Len(sent) >= n ~> Len(got) >= n

=============================================================================
