--------------------------- MODULE UkbDaemonProofs ---------------------------
(***************************************************************************)
(* Proofs about UkbDaemon, for any number of clients and any inputs: the   *)
(* types, that answers are those of the contexts they are taken for, that  *)
(* a client that returns true has its answers, and what the daemon dies of.*)
(*                                                                         *)
(* The crux is that both ends take turns: Turn says for every place a      *)
(* living client can be in where the daemon is and what the two queues     *)
(* hold between them.                                                      *)
(***************************************************************************)
EXTENDS UkbDaemon, SequenceTheorems, TLAPS

\* Where the daemon is, seen from a client that is connected.
Where(c) == IF cur = c THEN dpc ELSE "wait"

\* The context that a client is at, and the answer that it should get.
Asked(c)    == Str(inp[c][pos[c]], pos[c])
AnswerTo(c) == Str(IF inp[c][pos[c]] = "good" THEN "annotations" ELSE "#", pos[c])
Bad(c)      == \E j \in DOMAIN inp[c] : inp[c][j] \in NoSentence

\* Whose turn it is, while both ends are there.
Turn(c) ==
  here[c] /\ there[c] =>
    \/ cpc[c] \in {"go", "stop"} /\ Where(c) \in {"wait", "first"} /\ up[c] = <<>> /\ down[c] = <<>>
    \/ /\ cpc[c] = "cmd"
       /\ \/ Where(c) \in {"wait", "first"} /\ up[c] = <<Str("go", 0)>> /\ down[c] = <<>>
          \/ Where(c) = "cmd" /\ up[c] = <<>> /\ down[c] = <<>>
          \/ Where(c) = "id" /\ up[c] = <<>> /\ down[c] = <<Str("cmdline", 0)>>
    \/ cpc[c] \in {"read", "id"} /\ Where(c) = "id" /\ up[c] = <<>> /\ down[c] = <<>>
    \/ /\ cpc[c] = "ctx" /\ down[c] = <<>>
       /\ \/ Where(c) = "id" /\ up[c] = <<Str("id", pos[c])>>
          \/ Where(c) = "ctx" /\ up[c] = <<>>
    \/ /\ cpc[c] = "answer"
       /\ \/ Where(c) = "id" /\ up[c] = <<Str("id", pos[c]), Asked(c)>> /\ down[c] = <<>>
          \/ Where(c) = "ctx" /\ up[c] = <<Asked(c)>> /\ down[c] = <<>>
          \/ Where(c) = "work" /\ up[c] = <<>> /\ down[c] = <<>> /\ hand = Asked(c)
          \/ /\ Where(c) = "answer" /\ up[c] = <<>> /\ down[c] = <<>> /\ hand = Asked(c)
             /\ inp[c][pos[c]] \notin NoSentence
          \/ /\ Where(c) = "catch" /\ up[c] = <<>> /\ down[c] = <<>> /\ hand = Asked(c)
             /\ inp[c][pos[c]] \in NoSentence
          \/ /\ Where(c) = "id" /\ up[c] = <<>> /\ down[c] = <<AnswerTo(c)>>
             /\ inp[c][pos[c]] \notin NoSentence

\* The daemon has gone: it has ended, or did not like a context; what it has sent last is
\* still there.
Alone(c) ==
  here[c] /\ ~ there[c] =>
    /\ dpc \in Ended \/ Bad(c)
    /\ \/ down[c] = <<>>
       \/ cpc[c] = "cmd" /\ down[c] = <<Str("cmdline", 0)>>
       \/ cpc[c] = "answer" /\ down[c] = <<Str("error", pos[c])>>
       \/ cpc[c] = "answer" /\ down[c] = <<AnswerTo(c)>> /\ inp[c][pos[c]] \notin NoSentence

\* The client has gone: unless it was killed, the daemon waits for a context, or has a
\* request to stop before it.
Left(c) ==
  ~ here[c] /\ there[c] =>
    \/ cpc[c] = "killed"
    \/ cpc[c] \in {"ok", "fail"} /\ Where(c) = "id" /\ up[c] = <<>>
    \/ cpc[c] = "ok" /\ Where(c) \in {"wait", "first"} /\ up[c] = <<Str("stop", 0)>>

\* The client by itself.
Own(c) ==
  /\ here[c] <=> cpc[c] \notin Done \cup {"new"}
  /\ cpc[c] = "new" => ~ there[c] /\ ~ refused[c] /\ up[c] = <<>> /\ down[c] = <<>>
  /\ there[c] /\ cpc[c] # "killed" => ~ refused[c]
  /\ cpc[c] = "stop" => inp[c] = <<>>
  /\ cpc[c] \in {"new", "go", "stop", "cmd"} => pos[c] = 1
  /\ cpc[c] \in {"id", "ctx", "answer"} => pos[c] \in DOMAIN inp[c] /\ inp[c][pos[c]] # "half"
  /\ cpc[c] = "ok" => pos[c] > Len(inp[c])

\* What it has received.
Has(c) ==
  /\ Len(res[c]) = pos[c] - 1
  /\ \A j \in DOMAIN res[c] :
       /\ res[c][j].str \in Answers => /\ res[c][j].ctx = j
                                       /\ res[c][j].str = "#" <=> inp[c][j] = "none"
       /\ res[c][j].str \in Answers \/ Bad(c) \/ dpc \in Ended

CInv(c) == Turn(c) /\ Alone(c) /\ Left(c) /\ Own(c) /\ Has(c)

\* The connection that is served is not to be accepted again.
Accepted == \A i \in DOMAIN backlog : backlog[i] # cur

IInv == TypeOK /\ Accepted /\ (\A c \in Clients : CInv(c)) /\ DiesKilledOrOverrun

-----------------------------------------------------------------------------
(* Queues and strings.                                                     *)

\* A queue that holds at most two strings.
LEMMA Queues ==
  /\ \A a : /\ Append(<<>>, a) = <<a>> /\ Head(<<a>>) = a /\ Tail(<<a>>) = <<>>
            /\ <<a>> # <<>> /\ <<a>>[1] = a
  /\ \A a, b : /\ Append(<<a>>, b) = <<a, b>> /\ Head(<<a, b>>) = a /\ Tail(<<a, b>>) = <<b>>
               /\ <<a, b>> # <<>>
<1>1. \A a : /\ Append(<<>>, a) = <<a>> /\ Head(<<a>>) = a /\ Tail(<<a>>) = <<>>
             /\ <<a>> # <<>> /\ <<a>>[1] = a
  OBVIOUS
<1>2. ASSUME NEW a, NEW b
      PROVE  /\ Append(<<a>>, b) = <<a, b>> /\ Head(<<a, b>>) = a /\ Tail(<<a, b>>) = <<b>>
             /\ <<a, b>> # <<>>
  <2>1. Head(<<a, b>>) = a /\ <<a, b>> # <<>>
    OBVIOUS
  <2>2. Append(<<a>>, b) = <<a, b>>
    <3> DEFINE q == Append(<<a>>, b)
               r == <<a, b>>
    <3>1. q \in Seq({a, b}) /\ r \in Seq({a, b})
      OBVIOUS
    <3>2. Len(q) = 2 /\ Len(r) = 2
      OBVIOUS
    <3>3. q[1] = r[1] /\ q[2] = r[2]
      OBVIOUS
    <3>4. \A i \in 1 .. Len(q) : q[i] = r[i]
      BY <3>2, <3>3
    <3> HIDE DEF q, r
    <3>5. q = r
      BY <3>1, <3>2, <3>4, SeqEqual
    <3> QED BY <3>5 DEF q, r
  <2>3. Tail(<<a, b>>) = <<b>>
    OBVIOUS
  <2> QED BY <2>1, <2>2, <2>3
<1> QED BY <1>1, <1>2

\* Queues of strings stay such.
LEMMA QueueTyped ==
  ASSUME NEW q \in Seq(StringSet)
  PROVE  /\ \A s \in StringSet : Append(q, s) \in Seq(StringSet)
         /\ q # <<>> => Head(q) \in StringSet /\ Tail(q) \in Seq(StringSet)
         /\ \A i \in DOMAIN q : q[i] \in StringSet
BY SMT

Words == {"go", "stop", "id", "cmdline", "annotations", "#", "error", "cut", ""} \cup Kinds

\* What the ends send are strings.
LEMMA StrTyped ==
  /\ \A w \in Words, j \in Nat : Str(w, j) \in StringSet
  /\ \A s \in StringSet : s.str \in Words /\ s.ctx \in Nat
  /\ NoString \in StringSet /\ Cut \in StringSet
BY Zenon DEF Str, StringSet, Words, NoString, Cut

\* Two strings are equal if and only if they are of one kind and one context.
LEMMA StrEqual ==
  \A v, w, i, j : /\ Str(v, i) = Str(w, j) <=> v = w /\ i = j
                  /\ Str(v, i).str = v /\ Str(v, i).ctx = i
BY DEF Str

-----------------------------------------------------------------------------
(* Types.                                                                  *)

DaemonTypes ==
  /\ dpc \in {"loop"} \cup Serving \cup Ended
  /\ cur \in Clients \cup {Nobody}
  /\ cur # Nobody <=> dpc \in Serving
  /\ hand \in StringSet
  /\ backlog \in Seq(Clients)
  /\ sig \in BOOLEAN

ClientTypes ==
  /\ cpc \in [Clients -> {"new", "go", "stop", "cmd", "read", "id", "ctx", "answer"} \cup Done]
  /\ inp \in [Clients -> Inputs \cup {<<>>}]
  /\ pos \in [Clients -> Nat \ {0}]
  /\ res \in [Clients -> Seq(StringSet)]

ConnTypes ==
  /\ up \in [Clients -> Seq(StringSet)]
  /\ down \in [Clients -> Seq(StringSet)]
  /\ here \in [Clients -> BOOLEAN]
  /\ there \in [Clients -> BOOLEAN]
  /\ refused \in [Clients -> BOOLEAN]

\* Every connection that the daemon has not closed is in one place.
Places ==
  /\ \A i, j \in DOMAIN backlog : backlog[i] = backlog[j] => i = j
  /\ \A c \in Clients :
       there[c] <=> c = cur \/ \E i \in DOMAIN backlog : backlog[i] = c
  /\ Accepted

\* The type invariant, in parts.
LEMMA Parts == TypeOK /\ Accepted <=> DaemonTypes /\ ClientTypes /\ ConnTypes /\ Places
BY DEF TypeOK, DaemonTypes, ClientTypes, ConnTypes, Places

\* The first connection leaves the backlog for the session.
LEMMA AcceptPlaces ==
  ASSUME DaemonTypes, ConnTypes, Places, Accept PROVE Places' /\ backlog' \in Seq(Clients)
<1>1. /\ Len(backlog) \in Nat /\ Len(backlog) > 0 /\ DOMAIN backlog = 1 .. Len(backlog)
      /\ backlog' = Tail(backlog) /\ backlog' \in Seq(Clients)
      /\ DOMAIN backlog' = 1 .. (Len(backlog) - 1)
      /\ \A i \in DOMAIN backlog' : backlog'[i] = backlog[i + 1]
      /\ cur' = backlog[1] /\ there' = there
  BY DEF Accept, DaemonTypes, connVars
<1>2. cur = Nobody
  BY DEF Accept, DaemonTypes, Serving, Ended
<1>3. \A i, j \in DOMAIN backlog' : backlog'[i] = backlog'[j] => i = j
  BY <1>1 DEF Places
<1>4. \A i \in DOMAIN backlog' : backlog'[i] # cur'
  BY <1>1 DEF Places
<1>5. ASSUME NEW c \in Clients
      PROVE  there'[c] <=> c = cur' \/ \E i \in DOMAIN backlog' : backlog'[i] = c
  <2>1. there[c] <=> \E i \in DOMAIN backlog : backlog[i] = c
    BY <1>2, DaemonAssumption DEF Places
  <2>2. (\E i \in DOMAIN backlog : backlog[i] = c)
          <=> c = backlog[1] \/ \E i \in DOMAIN backlog' : backlog'[i] = c
    <3>1. \A i \in DOMAIN backlog :
            i # 1 => i - 1 \in DOMAIN backlog' /\ backlog'[i - 1] = backlog[i]
      BY <1>1
    <3>2. \A i \in DOMAIN backlog' : i + 1 \in DOMAIN backlog /\ backlog'[i] = backlog[i + 1]
      BY <1>1
    <3>3. 1 \in DOMAIN backlog
      BY <1>1
    <3> QED BY <3>1, <3>2, <3>3
  <2> QED BY <1>1, <2>1, <2>2
<1> QED BY <1>1, <1>3, <1>4, <1>5 DEF Places, Accepted

\* A new connection goes to the end of the backlog.
LEMMA ConnectPlaces ==
  ASSUME DaemonTypes, ConnTypes, Places, NEW c \in Clients, ~ there[c],
         backlog' = Append(backlog, c), there' = [there EXCEPT ![c] = TRUE], UNCHANGED cur
  PROVE  Places' /\ backlog' \in Seq(Clients)
<1>1. /\ Len(backlog) \in Nat /\ DOMAIN backlog = 1 .. Len(backlog)
      /\ backlog' \in Seq(Clients)
      /\ DOMAIN backlog' = 1 .. (Len(backlog) + 1)
      /\ \A i \in DOMAIN backlog : backlog'[i] = backlog[i]
      /\ backlog'[Len(backlog) + 1] = c
  BY DEF DaemonTypes
<1>2. c # cur /\ \A i \in DOMAIN backlog : backlog[i] # c
  BY DEF Places
<1>3. \A i \in DOMAIN backlog' : i \in DOMAIN backlog \/ i = Len(backlog) + 1
  BY <1>1
<1>4. \A i, j \in DOMAIN backlog' : backlog'[i] = backlog'[j] => i = j
  BY <1>1, <1>2, <1>3 DEF Places
<1>5. \A i \in DOMAIN backlog' : backlog'[i] # cur'
  BY <1>1, <1>2, <1>3 DEF Places, Accepted
<1>6. ASSUME NEW d \in Clients
      PROVE  there'[d] <=> d = cur' \/ \E i \in DOMAIN backlog' : backlog'[i] = d
  <2>1. DOMAIN backlog \subseteq DOMAIN backlog' /\ Len(backlog) + 1 \in DOMAIN backlog'
    BY <1>1
  <2>2. (\E i \in DOMAIN backlog' : backlog'[i] = d) <=> d = c \/ \E i \in DOMAIN backlog : backlog[i] = d
    BY <1>1, <1>3, <2>1
  <2>3. there'[d] <=> d = c \/ there[d]
    BY DEF ConnTypes
  <2> QED BY <2>2, <2>3 DEF Places
<1> QED BY <1>1, <1>4, <1>5, <1>6 DEF Places, Accepted

\* The connection of a session that is over is in no place.
LEMMA ClosePlaces ==
  ASSUME ConnTypes, Places, cur \in Clients, CloseSession, UNCHANGED backlog, backlog \in Seq(Clients)
  PROVE  Places'
<1>1. \A i \in DOMAIN backlog : backlog[i] # cur /\ backlog[i] # Nobody
  BY DaemonAssumption DEF Places, Accepted
<1> QED BY <1>1, DaemonAssumption DEF Places, Accepted, CloseSession, ConnTypes

\* Nor is any of the process that ends.
LEMMA EndPlaces == ASSUME NEW how, End(how) PROVE Places' /\ backlog' \in Seq(Clients)
<1>1. backlog' = <<>> /\ DOMAIN <<>> = {} /\ <<>> \in Seq(Clients)
  BY DEF End
<1> QED BY <1>1, DaemonAssumption DEF End, Places, Accepted

\* What the daemon sends, and what it finds, keeps the types of the connection.
LEMMA SendsTyped ==
  ASSUME ConnTypes, cur \in Clients, NEW s \in StringSet,
         Sends(s) \/ SendThrows
  PROVE  down' \in [Clients -> Seq(StringSet)] /\ refused' \in [Clients -> BOOLEAN]
<1>1. Append(down[cur], s) \in Seq(StringSet)
  BY QueueTyped DEF ConnTypes
<1> QED BY <1>1 DEF Sends, SendThrows, ConnTypes

LEMMA ReceivesTyped ==
  ASSUME ConnTypes, cur \in Clients, NEW s, Receives(s)
  PROVE  s \in StringSet /\ up' \in [Clients -> Seq(StringSet)]
<1>1. Head(up[cur]) \in StringSet /\ Tail(up[cur]) \in Seq(StringSet)
  BY QueueTyped DEF ConnTypes, Receives
<1> QED BY <1>1 DEF Receives, ConnTypes

\* A step of the daemon keeps the types.
LEMMA DaemonTypesKept ==
  ASSUME DaemonTypes, ClientTypes, ConnTypes, Places, Daemon
  PROVE  DaemonTypes' /\ ClientTypes' /\ ConnTypes' /\ Places'
<1> /\ Serving = {"first", "cmd", "id", "ctx", "work", "answer", "catch"}
    /\ Ended = {"stopped", "dead"}
    /\ Nobody \notin Clients
  BY DaemonAssumption DEF Serving, Ended
<1>s. dpc \in Serving => cur \in Clients
  BY DEF DaemonTypes
<1>c. ASSUME CloseSession, dpc \in Serving, UNCHANGED <<backlog, sig, clientVars, here>>,
             hand' \in StringSet, up' \in [Clients -> Seq(StringSet)],
             down' \in [Clients -> Seq(StringSet)], refused' \in [Clients -> BOOLEAN]
      PROVE  DaemonTypes' /\ ClientTypes' /\ ConnTypes' /\ Places'
  <2>1. Places'
    BY <1>s, <1>c, ClosePlaces DEF DaemonTypes
  <2>2. DaemonTypes' /\ ClientTypes'
    BY <1>c DEF CloseSession, DaemonTypes, ClientTypes, clientVars
  <2>3. ConnTypes'
    BY <1>c DEF CloseSession, ConnTypes
  <2> QED BY <2>1, <2>2, <2>3
<1>e. ASSUME NEW how \in Ended, End(how), UNCHANGED <<sig, clientVars, here>>,
             hand' \in StringSet, up' \in [Clients -> Seq(StringSet)],
             down' \in [Clients -> Seq(StringSet)]
      PROVE  DaemonTypes' /\ ClientTypes' /\ ConnTypes' /\ Places'
  <2>1. Places' /\ backlog' \in Seq(Clients)
    BY <1>e, EndPlaces
  <2>2. DaemonTypes' /\ ClientTypes'
    BY <1>e, <2>1 DEF End, DaemonTypes, ClientTypes, clientVars
  <2>3. ConnTypes'
    BY <1>e DEF End, ConnTypes
  <2> QED BY <2>1, <2>2, <2>3
<1>g. ASSUME dpc \in Serving, dpc' \in Serving, UNCHANGED <<cur, backlog, there, sig, clientVars, here>>,
             hand' \in StringSet, up' \in [Clients -> Seq(StringSet)],
             down' \in [Clients -> Seq(StringSet)], refused' \in [Clients -> BOOLEAN]
      PROVE  DaemonTypes' /\ ClientTypes' /\ ConnTypes' /\ Places'
  <2>1. Places'
    BY <1>g DEF Places, Accepted
  <2>2. DaemonTypes' /\ ClientTypes' /\ ConnTypes'
    BY <1>g DEF DaemonTypes, ClientTypes, ConnTypes, clientVars
  <2> QED BY <2>1, <2>2
<1>h. /\ hand \in StringSet /\ up \in [Clients -> Seq(StringSet)]
      /\ down \in [Clients -> Seq(StringSet)] /\ refused \in [Clients -> BOOLEAN]
  BY DEF DaemonTypes, ConnTypes
<1>1. CASE Accept
  <2>1. Places' /\ backlog' \in Seq(Clients)
    BY <1>1, AcceptPlaces
  <2>2. cur' \in Clients
    BY <1>1 DEF Accept, DaemonTypes
  <2>3. DaemonTypes' /\ ClientTypes' /\ ConnTypes'
    BY <1>1, <2>1, <2>2 DEF Accept, DaemonTypes, ClientTypes, ConnTypes, clientVars, connVars
  <2> QED BY <2>1, <2>3
<1>2. CASE HandleSignal
  BY <1>2, <1>e, <1>h DEF HandleSignal
<1>3. CASE First
  <2> dpc \in Serving /\ UNCHANGED <<hand, sig, clientVars, down, here>>
    BY <1>3 DEF First
  <2>1. ASSUME NEW s, Receives(s), s.str = "stop", End("stopped")
        PROVE  DaemonTypes' /\ ClientTypes' /\ ConnTypes' /\ Places'
    BY <1>e, <1>h, <1>s, <2>1, ReceivesTyped
  <2>2. ASSUME NEW s, Receives(s), dpc' = "cmd", UNCHANGED <<cur, backlog, there, refused>>
        PROVE  DaemonTypes' /\ ClientTypes' /\ ConnTypes' /\ Places'
    BY <1>g, <1>h, <1>s, <2>2, ReceivesTyped
  <2>3. CASE AtEof /\ CloseSession /\ UNCHANGED <<backlog, refused>>
    BY <1>c, <1>h, <2>3 DEF AtEof
  <2>4. CASE ReceiveThrows /\ dpc' = "catch" /\ UNCHANGED <<cur, backlog, there, refused>>
    BY <1>g, <1>h, <2>4 DEF ReceiveThrows
  <2> QED BY <1>3, <2>1, <2>2, <2>3, <2>4 DEF First
<1>4. CASE SendCmdline
  <2>1. Str("cmdline", 0) \in StringSet
    BY StrTyped DEF Words
  <2>2. Sends(Str("cmdline", 0)) \/ SendThrows
    BY <1>4 DEF SendCmdline
  <2>3. down' \in [Clients -> Seq(StringSet)] /\ refused' \in [Clients -> BOOLEAN]
    BY <1>4, <1>s, <2>1, <2>2, SendsTyped DEF SendCmdline
  <2> QED BY <1>4, <1>g, <1>h, <2>3 DEF SendCmdline
<1>5. CASE ReceiveContext
  <2> dpc \in Serving /\ UNCHANGED <<backlog, sig, clientVars, down, here, refused>>
    BY <1>5 DEF ReceiveContext
  <2>1. ASSUME Receives(Head(up[cur])), hand' = Head(up[cur]), dpc' \in {"ctx", "work"},
               UNCHANGED <<cur, there>>
        PROVE  DaemonTypes' /\ ClientTypes' /\ ConnTypes' /\ Places'
    BY <1>g, <1>h, <1>s, <2>1, ReceivesTyped
  <2>2. CASE AtEof /\ CloseSession /\ UNCHANGED hand
    BY <1>c, <1>h, <2>2 DEF AtEof
  <2>3. CASE ReceiveThrows /\ dpc' = "catch" /\ UNCHANGED <<cur, hand, there>>
    BY <1>g, <1>h, <2>3 DEF ReceiveThrows
  <2> QED BY <1>5, <2>1, <2>2, <2>3 DEF ReceiveContext
<1>6. CASE Work
  <2> dpc = "work" /\ UNCHANGED <<hand, sig, clientVars, up, down, here>>
    BY <1>6 DEF Work
  <2>1. CASE UNCHANGED <<cur, backlog, there, refused>> /\ dpc' \in Serving
    BY <1>g, <1>h, <2>1
  <2>2. CASE End("dead")
    BY <1>e, <1>h, <2>2
  <2> QED BY <1>6, <2>1, <2>2 DEF Work
<1>7. CASE Answer
  <2> DEFINE w == IF hand.str = "good" THEN "annotations" ELSE "#"
  <2>1. Str(w, hand.ctx) \in StringSet
    BY <1>h, StrTyped DEF Words
  <2>2. Sends(Str(w, hand.ctx)) \/ SendThrows
    BY <1>7 DEF Answer
  <2>3. dpc \in Serving /\ dpc' \in Serving
    BY <1>7 DEF Answer
  <2> HIDE DEF w
  <2>4. down' \in [Clients -> Seq(StringSet)] /\ refused' \in [Clients -> BOOLEAN]
    BY <1>s, <2>1, <2>2, <2>3, SendsTyped
  <2> QED BY <1>7, <1>g, <1>h, <2>3, <2>4 DEF Answer
<1>8. CASE Catch
  <2>1. Str("error", hand.ctx) \in StringSet
    BY <1>h, StrTyped DEF Words
  <2>2. dpc \in Serving /\ UNCHANGED <<hand, sig, clientVars, up, here>>
    BY <1>8 DEF Catch
  <2>3. ASSUME Sends(Str("error", hand.ctx)), CloseSession, UNCHANGED backlog
        PROVE  DaemonTypes' /\ ClientTypes' /\ ConnTypes' /\ Places'
    <3>1. down' \in [Clients -> Seq(StringSet)] /\ refused' \in [Clients -> BOOLEAN]
      BY <1>s, <2>1, <2>2, <2>3, SendsTyped
    <3> QED BY <1>c, <1>h, <2>2, <2>3, <3>1
  <2>4. CASE End("dead") /\ UNCHANGED down
    BY <1>e, <1>h, <2>2, <2>4
  <2> QED BY <1>8, <2>3, <2>4 DEF Catch
<1> QED BY <1>1, <1>2, <1>3, <1>4, <1>5, <1>6, <1>7, <1>8 DEF Daemon

\* What a client sends, and what it finds, keeps the types of the connection.
LEMMA ClientSendsTyped ==
  ASSUME ClientTypes, ConnTypes, NEW c \in Clients, NEW s \in StringSet,
         NEW at \in {"cmd", "ctx", "answer", "ok"},
         ClientSends(c, s, GoOn(c, at)) \/ ClientSends(c, s, Leave(c, at))
  PROVE  /\ up' \in [Clients -> Seq(StringSet)] /\ refused' \in [Clients -> BOOLEAN]
         /\ here' \in [Clients -> BOOLEAN]
         /\ cpc' \in [Clients -> {"new", "go", "stop", "cmd", "read", "id", "ctx", "answer"} \cup Done]
<1>1. Append(up[c], s) \in Seq(StringSet)
  BY QueueTyped DEF ConnTypes
<1>2. up' = [up EXCEPT ![c] = Append(@, s)] \/ up' = up
  BY DEF ClientSends
<1>3. refused' = [refused EXCEPT ![c] = TRUE] \/ refused' = refused
  BY DEF ClientSends
<1>4. here' = [here EXCEPT ![c] = FALSE] \/ here' = here
  BY DEF ClientSends, Leave, GoOn
<1>5. \E h \in {"cmd", "ctx", "answer", "ok", "fail"} : cpc' = [cpc EXCEPT ![c] = h]
  BY DEF ClientSends, Leave, GoOn
<1>6. up' \in [Clients -> Seq(StringSet)]
  BY <1>1, <1>2 DEF ConnTypes
<1>7. refused' \in [Clients -> BOOLEAN] /\ here' \in [Clients -> BOOLEAN]
  <2>1. refused' \in [Clients -> BOOLEAN]
    BY <1>3 DEF ConnTypes
  <2>2. here' \in [Clients -> BOOLEAN]
    BY <1>4 DEF ConnTypes
  <2> QED BY <2>1, <2>2
<1>8. cpc' \in [Clients -> {"new", "go", "stop", "cmd", "read", "id", "ctx", "answer"} \cup Done]
  BY <1>5 DEF ClientTypes, Done
<1> QED BY <1>6, <1>7, <1>8

LEMMA ClientReceivesTyped ==
  ASSUME ConnTypes, NEW c \in Clients, NEW s, ClientReceives(c, s)
  PROVE  s \in StringSet /\ down' \in [Clients -> Seq(StringSet)]
<1>1. down[c] # <<>> => Head(down[c]) \in StringSet /\ Tail(down[c]) \in Seq(StringSet)
  BY QueueTyped DEF ConnTypes
<1> QED BY <1>1, StrTyped DEF ClientReceives, ConnTypes

\* A context is one of the kinds.
LEMMA InputTyped ==
  ASSUME ClientTypes, NEW c \in Clients
  PROVE  /\ DOMAIN inp[c] = 1 .. Len(inp[c]) /\ Len(inp[c]) \in Nat
         /\ \A j \in DOMAIN inp[c] : inp[c][j] \in Kinds
<1>1. inp[c] \in Inputs \cup {<<>>}
  BY DEF ClientTypes
<1>2. <<>> \in Seq(Kinds)
  OBVIOUS
<1>3. inp[c] \in Seq(Kinds)
  BY <1>1, <1>2, DaemonAssumption
<1> QED BY <1>3

\* A step of a client's, or of the environment, keeps the types.
LEMMA ClientTypesKept ==
  ASSUME DaemonTypes, ClientTypes, ConnTypes, Places, NEW c \in Clients, Own(c),
         Client(c) \/ Kill(c) \/ Connect(c)
  PROVE  DaemonTypes' /\ ClientTypes' /\ ConnTypes' /\ Places'
<1> DEFINE At == {"new", "go", "stop", "cmd", "read", "id", "ctx", "answer"} \cup Done
<1>f. ASSUME UNCHANGED <<daemonVars, sig, there, inp>>, cpc' \in [Clients -> At],
             pos' \in [Clients -> Nat \ {0}], res' \in [Clients -> Seq(StringSet)],
             up' \in [Clients -> Seq(StringSet)], down' \in [Clients -> Seq(StringSet)],
             here' \in [Clients -> BOOLEAN], refused' \in [Clients -> BOOLEAN]
      PROVE  DaemonTypes' /\ ClientTypes' /\ ConnTypes' /\ Places'
  <2>1. Places' /\ DaemonTypes'
    BY <1>f DEF Places, Accepted, DaemonTypes, daemonVars
  <2>2. ClientTypes' /\ ConnTypes'
    BY <1>f DEF ClientTypes, ConnTypes
  <2> QED BY <2>1, <2>2
<1>t. /\ cpc \in [Clients -> At] /\ pos \in [Clients -> Nat \ {0}]
      /\ res \in [Clients -> Seq(StringSet)] /\ up \in [Clients -> Seq(StringSet)]
      /\ down \in [Clients -> Seq(StringSet)] /\ here \in [Clients -> BOOLEAN]
      /\ refused \in [Clients -> BOOLEAN]
  BY DEF ClientTypes, ConnTypes
<1>g. ASSUME NEW at \in At, GoOn(c, at) \/ Leave(c, at)
      PROVE  cpc' \in [Clients -> At] /\ here' \in [Clients -> BOOLEAN]
  BY <1>g, <1>t DEF GoOn, Leave
<1>a. {"cmd", "read", "id", "ok", "fail", "killed", "go", "stop"} \subseteq At
  BY DEF Done
<1> HIDE DEF At
<1>1. CASE SendGo(c)
  <2>1. Str("go", 0) \in StringSet
    BY StrTyped DEF Words
  <2>2. ClientSends(c, Str("go", 0), GoOn(c, "cmd"))
    BY <1>1 DEF SendGo
  <2> QED BY <1>1, <1>f, <1>t, <2>1, <2>2, ClientSendsTyped DEF SendGo, At
<1>2. CASE SendStop(c)
  <2>1. Str("stop", 0) \in StringSet
    BY StrTyped DEF Words
  <2>2. ClientSends(c, Str("stop", 0), Leave(c, "ok"))
    BY <1>2 DEF SendStop
  <2> QED BY <1>2, <1>f, <1>t, <2>1, <2>2, ClientSendsTyped DEF SendStop, At
<1>3. CASE SendId(c)
  <2>1. Str("id", pos[c]) \in StringSet
    BY <1>t, StrTyped DEF Words
  <2>2. ClientSends(c, Str("id", pos[c]), GoOn(c, "ctx"))
    BY <1>3 DEF SendId
  <2> QED BY <1>3, <1>f, <1>t, <2>1, <2>2, ClientSendsTyped DEF SendId, At
<1>4. CASE SendContext(c)
  <2>1. Str(inp[c][pos[c]], pos[c]) \in StringSet
    <3>1. cpc[c] = "ctx"
      BY <1>4 DEF SendContext
    <3>2. pos[c] \in DOMAIN inp[c]
      BY <3>1 DEF Own
    <3>3. inp[c][pos[c]] \in Words
      BY <3>2, InputTyped DEF Words
    <3> QED BY <1>t, <3>3, StrTyped
  <2>2. ClientSends(c, Str(inp[c][pos[c]], pos[c]), GoOn(c, "answer"))
    BY <1>4 DEF SendContext
  <2> QED BY <1>4, <1>f, <1>t, <2>1, <2>2, ClientSendsTyped DEF SendContext, At
<1>5. CASE ReceiveCmdline(c)
  <2>1. down' \in [Clients -> Seq(StringSet)]
    BY <1>5, <1>t, ClientReceivesTyped DEF ReceiveCmdline, ClientReceiveThrows
  <2>2. GoOn(c, "read") \/ Leave(c, "fail")
    BY <1>5 DEF ReceiveCmdline
  <2> QED BY <1>5, <1>a, <1>f, <1>g, <1>t, <2>1, <2>2 DEF ReceiveCmdline
<1>6. CASE ReadInput(c)
  <2>1. GoOn(c, "id") \/ Leave(c, "ok") \/ Leave(c, "fail")
    BY <1>6 DEF ReadInput
  <2> QED BY <1>6, <1>a, <1>f, <1>g, <1>t, <2>1 DEF ReadInput
<1>7. CASE ReceiveAnswer(c)
  <2>1. ASSUME NEW s, ClientReceives(c, s), res' = [res EXCEPT ![c] = Append(@, s)],
               pos' = [pos EXCEPT ![c] = @ + 1], GoOn(c, "read")
        PROVE  DaemonTypes' /\ ClientTypes' /\ ConnTypes' /\ Places'
    <3>1. s \in StringSet /\ down' \in [Clients -> Seq(StringSet)]
      BY <2>1, ClientReceivesTyped
    <3>2. Append(res[c], s) \in Seq(StringSet)
      BY <1>t, <3>1, QueueTyped
    <3>3. pos' \in [Clients -> Nat \ {0}]
      BY <1>t, <2>1
    <3>4. res' \in [Clients -> Seq(StringSet)]
      BY <1>t, <2>1, <3>2
    <3> QED BY <1>7, <1>a, <1>f, <1>g, <1>t, <2>1, <3>1, <3>3, <3>4 DEF ReceiveAnswer
  <2>2. CASE ClientReceiveThrows(c) /\ Leave(c, "fail") /\ UNCHANGED <<res, pos>>
    BY <1>7, <1>a, <1>f, <1>g, <1>t, <2>2 DEF ReceiveAnswer, ClientReceiveThrows
  <2> QED BY <1>7, <2>1, <2>2 DEF ReceiveAnswer
<1>8. CASE Kill(c)
  <2>1. Append(up[c], Cut) \in Seq(StringSet)
    BY <1>t, QueueTyped, StrTyped
  <2>2. up' \in [Clients -> Seq(StringSet)]
    BY <1>8, <1>t, <2>1 DEF Kill
  <2> QED BY <1>8, <1>a, <1>f, <1>g, <1>t, <2>2 DEF Kill
<1>9. CASE Connect(c)
  <2>1. PICK x \in Inputs, how \in {"go", "stop"} :
          /\ inp' = [inp EXCEPT ![c] = x]
          /\ IF dpc \in Ended
               THEN /\ cpc' = [cpc EXCEPT ![c] = "fail"]
                    /\ UNCHANGED <<backlog, here, there>>
               ELSE /\ cpc' = [cpc EXCEPT ![c] = how]
                    /\ backlog' = Append(backlog, c)
                    /\ here' = [here EXCEPT ![c] = TRUE]
                    /\ there' = [there EXCEPT ![c] = TRUE]
    BY <1>9 DEF Connect
  <2>2. UNCHANGED <<dpc, cur, hand, sig, pos, res, up, down, refused>>
    BY <1>9 DEF Connect
  <2>3. ~ there[c]
    BY <1>9 DEF Connect, Own
  <2>4. /\ cpc' \in [Clients -> At] /\ here' \in [Clients -> BOOLEAN]
        /\ there' \in [Clients -> BOOLEAN] /\ inp' \in [Clients -> Inputs \cup {<<>>}]
    <3>1. inp' \in [Clients -> Inputs \cup {<<>>}]
      BY <2>1 DEF ClientTypes
    <3>2. \E h \in {"fail", "go", "stop"} : cpc' = [cpc EXCEPT ![c] = h]
      BY <2>1
    <3>3. cpc' \in [Clients -> At]
      BY <1>t, <3>2 DEF At, Done
    <3>4. /\ here' = here \/ here' = [here EXCEPT ![c] = TRUE]
          /\ there' = there \/ there' = [there EXCEPT ![c] = TRUE]
      BY <2>1
    <3> QED BY <3>1, <3>3, <3>4 DEF ConnTypes
  <2>5. Places' /\ backlog' \in Seq(Clients)
    <3>1. CASE dpc \in Ended
      BY <2>1, <2>2, <3>1 DEF Places, Accepted, DaemonTypes
    <3>2. CASE dpc \notin Ended
      BY <2>1, <2>2, <2>3, <3>2, ConnectPlaces
    <3> QED BY <3>1, <3>2
  <2>6. DaemonTypes'
    BY <2>2, <2>5 DEF DaemonTypes
  <2>7. ConnTypes'
    BY <1>t, <2>2, <2>4 DEF ConnTypes
  <2>8. ClientTypes'
    BY <1>t, <2>2, <2>4 DEF ClientTypes, At
  <2> QED BY <2>5, <2>6, <2>7, <2>8
<1> QED BY <1>1, <1>2, <1>3, <1>4, <1>5, <1>6, <1>7, <1>8, <1>9 DEF Client

-----------------------------------------------------------------------------
(* What a step of one end leaves to the other, and to other connections.   *)

\* A step that does not touch a connection.
LEMMA Untouched ==
  ASSUME NEW d \in Clients, CInv(d),
         cpc'[d] = cpc[d], inp'[d] = inp[d], pos'[d] = pos[d], res'[d] = res[d],
         up'[d] = up[d], down'[d] = down[d], here'[d] = here[d], there'[d] = there[d],
         refused'[d] = refused[d], Where(d)' = Where(d),
         Where(d) \in {"work", "answer", "catch"} => hand' = hand,
         dpc \in Ended => dpc' \in Ended
  PROVE  CInv(d)'
<1>1. Asked(d)' = Asked(d) /\ AnswerTo(d)' = AnswerTo(d) /\ (Bad(d)' <=> Bad(d))
  BY DEF Asked, AnswerTo, Bad
<1>2. Turn(d)'
  BY <1>1 DEF CInv, Turn
<1>3. Alone(d)'
  BY <1>1 DEF CInv, Alone
<1>4. Left(d)'
  BY DEF CInv, Left
<1>5. Own(d)'
  BY DEF CInv, Own
<1>6. Has(d)'
  BY <1>1 DEF CInv, Has
<1> QED BY <1>2, <1>3, <1>4, <1>5, <1>6 DEF CInv

\* When the daemon ends, what it has sent is still there.
LEMMA Abandoned ==
  ASSUME NEW d \in Clients, CInv(d), NEW how \in Ended, End(how),
         UNCHANGED <<clientVars, down, here>>, up'[d] = up[d] \/ there[d]
  PROVE  CInv(d)'
<1>1. ~ there'[d] /\ dpc' \in Ended
  BY DEF End
<1>2. /\ UNCHANGED <<cpc, inp, pos, res>>
      /\ Asked(d)' = Asked(d) /\ AnswerTo(d)' = AnswerTo(d) /\ (Bad(d)' <=> Bad(d))
  BY DEF clientVars, Asked, AnswerTo, Bad
<1>r. ~ there[d] /\ ~ refused[d] => ~ refused'[d]
  BY DEF End
<1>3. Turn(d)' /\ Left(d)'
  BY <1>1 DEF Turn, Left
<1>4. Alone(d)'
  <2>1. CASE here[d] /\ there[d]
    BY <1>1, <1>2, <2>1 DEF CInv, Turn, Alone
  <2>2. CASE ~ there[d]
    BY <1>1, <1>2, <2>2 DEF CInv, Alone
  <2>3. CASE ~ here[d]
    BY <2>3 DEF Alone
  <2> QED BY <2>1, <2>2, <2>3
<1>5. Own(d)'
  BY <1>1, <1>2, <1>r DEF CInv, Own
<1>6. Has(d)'
  BY <1>1, <1>2 DEF CInv, Has
<1> QED BY <1>3, <1>4, <1>5, <1>6 DEF CInv

\* The daemon closes a session: the client has gone, or has an error as its answer.
LEMMA Closed ==
  ASSUME ConnTypes, NEW c \in Clients, c = cur, CInv(c), CloseSession, UNCHANGED <<clientVars, here>>,
         there[c],
         \/ ~ here[c]
         \/ Bad(c) /\ cpc[c] = "answer" /\ down'[c] = <<Str("error", pos[c])>>,
         dpc \notin Ended
  PROVE  CInv(c)'
<1>1. ~ there'[c]
  BY DEF CloseSession, ConnTypes
<1>2. /\ UNCHANGED <<cpc, inp, pos, res>> /\ (Bad(c)' <=> Bad(c))
  BY DEF clientVars, Bad
<1>3. Turn(c)' /\ Left(c)'
  BY <1>1 DEF Turn, Left
<1>4. Alone(c)'
  BY <1>2 DEF Alone
<1>5. Own(c)'
  BY <1>1, <1>2 DEF CInv, Own
<1>6. Has(c)'
  BY <1>2 DEF CInv, Has
<1> QED BY <1>3, <1>4, <1>5, <1>6 DEF CInv

\* The daemon goes on with a session: what it has of it depends on whose turn it is.
LEMMA Served ==
  ASSUME NEW c \in Clients, c = cur, CInv(c), UNCHANGED <<cur, there, here, clientVars>>, there[c],
         dpc \notin Ended,
         here[c] \/ cpc[c] = "killed",
         here[c] => Turn(c)' /\ refused'[c] = refused[c]
  PROVE  CInv(c)'
<1>1. /\ UNCHANGED <<cpc, inp, pos, res>> /\ (Bad(c)' <=> Bad(c))
  BY DEF clientVars, Bad
<1>2. Turn(c)' /\ Left(c)' /\ Alone(c)'
  BY <1>1 DEF Turn, Left, Alone
<1>3. Own(c)'
  BY <1>1 DEF CInv, Own, Done
<1>4. Has(c)'
  BY <1>1 DEF CInv, Has
<1> QED BY <1>2, <1>3, <1>4 DEF CInv

\* Neither sending nor closing touches another connection.
LEMMA Rest ==
  ASSUME IInv, cur \in Clients, NEW d \in Clients, d # cur, dpc \notin Ended,
         cur' \in {cur, Nobody}, UNCHANGED <<clientVars, here>>,
         up'[d] = up[d], down'[d] = down[d], there'[d] = there[d], refused'[d] = refused[d]
  PROVE  CInv(d)'
<1>1. Where(d) = "wait" /\ Where(d)' = "wait"
  BY DaemonAssumption DEF Where
<1> QED BY <1>1, Untouched DEF IInv, clientVars

\* Strings that are sent and received on the connection that is served.
LEMMA OneQueue ==
  ASSUME ConnTypes, cur \in Clients
  PROVE  /\ \A s : Receives(s) => /\ up'[cur] = Tail(up[cur])
                                  /\ \A d \in Clients \ {cur} : up'[d] = up[d]
         /\ \A s : Sends(s) => /\ \A d \in Clients \ {cur} : down'[d] = down[d] /\ refused'[d] = refused[d]
                               /\ here[cur] => down'[cur] = Append(down[cur], s) /\ refused' = refused
         /\ CloseSession => \A d \in Clients \ {cur} : there'[d] = there[d]
BY DEF ConnTypes, Receives, Sends, CloseSession

\* What is known of the connection that is served.
LEMMA Current ==
  ASSUME IInv, dpc \in Serving
  PROVE  /\ cur \in Clients /\ there[cur] /\ CInv(cur) /\ Where(cur) = dpc
         /\ dpc \notin Ended /\ Nobody \notin Clients
         /\ DaemonTypes /\ ClientTypes /\ ConnTypes /\ Places
<1>1. DaemonTypes /\ ClientTypes /\ ConnTypes /\ Places
  BY Parts DEF IInv
<1>2. cur \in Clients /\ dpc \notin Ended
  BY <1>1 DEF DaemonTypes, Serving, Ended
<1> QED BY <1>1, <1>2, DaemonAssumption DEF Places, IInv, Where

\* The invariant after a step that goes on with the session.
LEMMA GoesOn ==
  ASSUME IInv, dpc \in Serving, dpc' # "dead", UNCHANGED <<cur, there, here, clientVars>>,
         \A d \in Clients \ {cur} : up'[d] = up[d] /\ down'[d] = down[d] /\ refused'[d] = refused[d],
         here[cur] \/ cpc[cur] = "killed",
         here[cur] => Turn(cur)' /\ refused'[cur] = refused[cur]
  PROVE  (\A c \in Clients : CInv(c)') /\ DiesKilledOrOverrun'
<1>1. ASSUME NEW d \in Clients, d # cur PROVE CInv(d)'
  BY <1>1, Current, Rest
<1>2. ASSUME NEW c \in Clients, c = cur PROVE CInv(c)'
  BY <1>2, Current, Served
<1> QED BY <1>1, <1>2 DEF DiesKilledOrOverrun

\* The invariant after a step that closes the session.
LEMMA Closes ==
  ASSUME IInv, dpc \in Serving, CloseSession, UNCHANGED <<here, clientVars>>,
         \A d \in Clients \ {cur} : up'[d] = up[d] /\ down'[d] = down[d] /\ refused'[d] = refused[d],
         \/ ~ here[cur]
         \/ Bad(cur) /\ cpc[cur] = "answer" /\ down'[cur] = <<Str("error", pos[cur])>>
  PROVE  (\A c \in Clients : CInv(c)') /\ DiesKilledOrOverrun'
<1>1. ASSUME NEW d \in Clients, d # cur PROVE CInv(d)'
  BY <1>1, Current, Rest, OneQueue DEF CloseSession
<1>2. ASSUME NEW c \in Clients, c = cur PROVE CInv(c)'
  BY <1>2, Current, Closed
<1> QED BY <1>1, <1>2 DEF DiesKilledOrOverrun, CloseSession

\* The invariant after a receive that throws: the client was killed.
LEMMA Throws ==
  ASSUME IInv, dpc \in {"first", "id", "ctx"}, ReceiveThrows, dpc' = "catch",
         UNCHANGED <<cur, there, here, clientVars, down, refused>>
  PROVE  (\A c \in Clients : CInv(c)') /\ DiesKilledOrOverrun'
<1>1. dpc \in Serving
  BY DEF Serving
<1>2. ASSUME here[cur] PROVE FALSE
  <2>1. up[cur] = <<Cut>>
    BY <1>2 DEF ReceiveThrows
  <2>2. ClientTypes /\ CInv(cur) /\ there[cur] /\ cur \in Clients
    BY <1>1, Current
  <2>3. \A w \in {"go", "id"} \cup Kinds, j \in Nat : Str(w, j) # Cut
    BY StrEqual DEF Cut, Kinds
  <2>4. cpc[cur] = "answer" => Asked(cur) # Cut
    <3>1. ASSUME cpc[cur] = "answer" PROVE inp[cur][pos[cur]] \in Kinds /\ pos[cur] \in Nat
      BY <2>2, <3>1, InputTyped DEF CInv, Own, ClientTypes
    <3> QED BY <2>3, <3>1 DEF Asked
  <2>5. up[cur] \in {<<Str("go", 0)>>, <<Str("id", pos[cur])>>} \/ cpc[cur] = "answer"
    BY <1>2, <2>1, <2>2, Queues DEF CInv, Turn
  <2>6. pos[cur] \in Nat
    BY <2>2 DEF ClientTypes
  <2>7. cpc[cur] = "answer"
    BY <2>1, <2>3, <2>5, <2>6, Queues
  <2>8. up[cur] = <<Str("id", pos[cur]), Asked(cur)>> \/ up[cur] = <<Asked(cur)>> \/ up[cur] = <<>>
    BY <1>2, <2>2, <2>7 DEF CInv, Turn
  <2>9. up[cur] = <<Str("id", pos[cur]), Asked(cur)>>
    BY <2>1, <2>4, <2>7, <2>8, Queues
  <2> QED BY <2>1, <2>3, <2>6, <2>9, Queues
<1>3. cpc[cur] = "killed"
  <2>1. CInv(cur) /\ there[cur]
    BY <1>1, Current
  <2>2. up[cur] # <<Str("stop", 0)>>
    BY StrEqual, Queues DEF ReceiveThrows, Cut
  <2>3. refused[cur] => cpc[cur] = "killed"
    BY <2>1 DEF CInv, Own
  <2> QED BY <1>2, <2>1, <2>2, <2>3, Queues DEF CInv, Left, ReceiveThrows
<1>4. \A d \in Clients \ {cur} : up'[d] = up[d] /\ down'[d] = down[d] /\ refused'[d] = refused[d]
  BY DEF ReceiveThrows
<1> QED BY <1>1, <1>2, <1>3, <1>4, GoesOn

\* A step of the daemon keeps the invariant of every connection, and it does not die but
\* of a client that was killed or of a context it has run out of.
LEMMA DaemonKeeps ==
  ASSUME IInv, Daemon
  PROVE  (\A c \in Clients : CInv(c)') /\ DiesKilledOrOverrun'
<1> DEFINE Goal == (\A c \in Clients : CInv(c)') /\ DiesKilledOrOverrun'
<1>t. DaemonTypes /\ ClientTypes /\ ConnTypes /\ Places
  BY Parts DEF IInv
<1>1. CASE Accept
  <2>a. cur = Nobody /\ Nobody \notin Clients /\ dpc' = "first"
    BY <1>1, <1>t, DaemonAssumption DEF Accept, DaemonTypes, Serving
  <2>1. ASSUME NEW c \in Clients PROVE CInv(c)'
    <3>1. CASE c # cur'
      <4>1. Where(c) = "wait" /\ Where(c)' = "wait"
        BY <2>a, <3>1 DEF Where
      <4> QED BY <1>1, <4>1, Untouched DEF Accept, IInv, clientVars, connVars, Ended
    <3>2. CASE c = cur'
      <4>1. Where(c) = "wait" /\ Where(c)' = "first" /\ cur # c
        BY <2>a, <3>2 DEF Where
      <4>2. CInv(c) /\ UNCHANGED <<cpc, inp, pos, res, up, down, here, there, refused>>
        BY <1>1 DEF Accept, IInv, clientVars, connVars
      <4>3. Turn(c)'
        BY <4>1, <4>2 DEF CInv, Turn
      <4>4. Left(c)'
        BY <4>1, <4>2 DEF CInv, Left
      <4>5. there[c]
        <5>1. cur' = backlog[1] /\ 1 \in DOMAIN backlog
          BY <1>1, <1>t DEF Accept, DaemonTypes
        <5> QED BY <1>t, <3>2, <5>1 DEF Places
      <4>6. Alone(c)' /\ Own(c)' /\ Has(c)'
        <5>1. dpc \notin Ended
          BY <1>1 DEF Accept, Ended
        <5>2. Bad(c)' <=> Bad(c)
          BY <4>2 DEF Bad
        <5> QED BY <4>2, <4>5, <5>1, <5>2 DEF CInv, Alone, Own, Has
      <4> QED BY <4>3, <4>4, <4>6 DEF CInv
    <3> QED BY <3>1, <3>2
  <2>2. DiesKilledOrOverrun'
    BY <1>1 DEF Accept, DiesKilledOrOverrun
  <2> QED BY <2>1, <2>2
<1>2. CASE HandleSignal
  <2>1. \A c \in Clients : CInv(c)'
    BY <1>2, Abandoned DEF HandleSignal, IInv, Ended
  <2>2. DiesKilledOrOverrun'
    BY <1>2 DEF HandleSignal, End, DiesKilledOrOverrun
  <2> QED BY <2>1, <2>2
<1>3. CASE First
  <2> dpc = "first" /\ dpc \in Serving /\ UNCHANGED <<hand, sig, clientVars, down, here>>
    BY <1>3 DEF First, Serving
  <2>c. cur \in Clients /\ there[cur] /\ CInv(cur) /\ Where(cur) = "first" /\ dpc \notin Ended
    BY Current
  <2>1. ASSUME NEW s, Receives(s), s.str = "stop", End("stopped") PROVE Goal
    <3>1. \A c \in Clients : up'[c] = up[c] \/ there[c]
      BY <1>t, <2>c, <2>1, OneQueue
    <3>2. \A c \in Clients : CInv(c)'
      BY <2>1, <3>1, Abandoned DEF IInv, Ended
    <3> QED BY <2>1, <3>2 DEF End, DiesKilledOrOverrun
  <2>2. ASSUME Receives(Str("go", 0)), dpc' = "cmd", UNCHANGED <<cur, backlog, there, refused>>
        PROVE  Goal
    <3>1. \A d \in Clients \ {cur} : up'[d] = up[d] /\ down'[d] = down[d] /\ refused'[d] = refused[d]
      BY <1>t, <2>c, <2>2, OneQueue
    <3>2. up[cur] # <<>> /\ Head(up[cur]) = Str("go", 0) /\ up'[cur] = Tail(up[cur])
      BY <1>t, <2>c, <2>2, OneQueue DEF Receives
    <3>3. ASSUME here[cur] PROVE cpc[cur] = "cmd" /\ up[cur] = <<Str("go", 0)>> /\ down[cur] = <<>>
      BY <2>c, <3>2, <3>3 DEF CInv, Turn
    <3>4. here[cur] => Turn(cur)'
      <4>1. Where(cur)' = "cmd"
        BY <2>2 DEF Where
      <4> QED BY <2>2, <3>2, <3>3, <4>1, Queues DEF Turn, clientVars
    <3>5. here[cur] \/ cpc[cur] = "killed"
      BY <2>c, <3>2, Queues, StrEqual DEF CInv, Left
    <3> QED BY <2>2, <3>1, <3>4, <3>5, GoesOn
  <2>3. CASE AtEof /\ CloseSession /\ UNCHANGED <<backlog, refused>>
    BY <2>3, Closes DEF AtEof
  <2>4. CASE ReceiveThrows /\ dpc' = "catch" /\ UNCHANGED <<cur, backlog, there, refused>>
    BY <2>4, Throws
  <2>5. \A s \in {Str("stop", 0), Str("go", 0)} : s.str # "stop" => s = Str("go", 0)
    BY StrEqual
  <2> QED BY <1>3, <2>1, <2>2, <2>3, <2>4, <2>5 DEF First
<1>4. CASE SendCmdline
  <2> dpc = "cmd" /\ dpc \in Serving /\ UNCHANGED <<cur, hand, backlog, sig, clientVars, up, here, there>>
    BY <1>4 DEF SendCmdline, Serving
  <2>c. cur \in Clients /\ there[cur] /\ CInv(cur) /\ Where(cur) = "cmd" /\ dpc \notin Ended
    BY Current
  <2>1. \A d \in Clients \ {cur} : up'[d] = up[d] /\ down'[d] = down[d] /\ refused'[d] = refused[d]
    BY <1>4, <1>t, <2>c, OneQueue DEF SendCmdline, SendThrows
  <2>2. here[cur] \/ cpc[cur] = "killed"
    BY <2>c DEF CInv, Left
  <2>3. ASSUME here[cur] PROVE Turn(cur)' /\ refused'[cur] = refused[cur]
    <3>1. Sends(Str("cmdline", 0)) /\ dpc' = "id"
      BY <1>4, <2>3 DEF SendCmdline, SendThrows
    <3>2. down'[cur] = Append(down[cur], Str("cmdline", 0)) /\ refused' = refused
      BY <1>t, <2>c, <2>3, <3>1, OneQueue
    <3>3. cpc[cur] = "cmd" /\ up[cur] = <<>> /\ down[cur] = <<>>
      BY <2>c, <2>3 DEF CInv, Turn
    <3>4. Where(cur)' = "id"
      BY <3>1 DEF Where
    <3> QED BY <3>2, <3>3, <3>4, Queues DEF Turn, clientVars
  <2> QED BY <1>4, <2>1, <2>2, <2>3, GoesOn DEF SendCmdline
<1>5. CASE ReceiveContext
  <2> /\ dpc \in {"id", "ctx"} /\ dpc \in Serving
      /\ UNCHANGED <<backlog, sig, clientVars, down, here, refused>>
    BY <1>5 DEF ReceiveContext, Serving
  <2>c. cur \in Clients /\ there[cur] /\ CInv(cur) /\ Where(cur) = dpc /\ dpc \notin Ended
    BY Current
  <2>1. ASSUME up[cur] # <<>>, Receives(Head(up[cur])), hand' = Head(up[cur]),
               dpc' = IF dpc = "id" THEN "ctx" ELSE "work", UNCHANGED <<cur, there>>
        PROVE  Goal
    <3>1. \A d \in Clients \ {cur} : up'[d] = up[d] /\ down'[d] = down[d] /\ refused'[d] = refused[d]
      BY <1>t, <2>c, <2>1, OneQueue
    <3>2. up'[cur] = Tail(up[cur])
      BY <1>t, <2>c, <2>1, OneQueue
    <3>3. here[cur] \/ cpc[cur] = "killed"
      BY <2>c, <2>1 DEF CInv, Left
    <3>4. ASSUME here[cur] PROVE Turn(cur)'
      <4>1. Where(cur)' = IF dpc = "id" THEN "ctx" ELSE "work"
        BY <2>1 DEF Where
      <4>2. Asked(cur)' = Asked(cur)
        BY <2>1 DEF Asked, clientVars
      <4>3. CASE cpc[cur] = "ctx"
        <5>1. dpc = "id" /\ up[cur] = <<Str("id", pos[cur])>> /\ down[cur] = <<>>
          BY <2>c, <2>1, <3>4, <4>3 DEF CInv, Turn
        <5> QED BY <2>1, <3>2, <4>1, <4>3, <5>1, Queues DEF Turn, clientVars
      <4>4. CASE cpc[cur] = "answer" /\ dpc = "id"
        <5>1. up[cur] = <<Str("id", pos[cur]), Asked(cur)>> /\ down[cur] = <<>>
          BY <2>c, <2>1, <3>4, <4>4 DEF CInv, Turn
        <5> QED BY <2>1, <3>2, <4>1, <4>2, <4>4, <5>1, Queues DEF Turn, clientVars
      <4>5. CASE cpc[cur] = "answer" /\ dpc = "ctx"
        <5>1. up[cur] = <<Asked(cur)>> /\ down[cur] = <<>>
          BY <2>c, <2>1, <3>4, <4>5 DEF CInv, Turn
        <5> QED BY <2>1, <3>2, <4>1, <4>2, <4>5, <5>1, Queues DEF Turn, clientVars
      <4>6. cpc[cur] \in {"ctx", "answer"}
        BY <2>c, <2>1, <3>4 DEF CInv, Turn
      <4> QED BY <4>3, <4>4, <4>5, <4>6
    <3> QED BY <2>1, <3>1, <3>3, <3>4, GoesOn
  <2>2. CASE AtEof /\ CloseSession /\ UNCHANGED hand
    BY <2>2, Closes DEF AtEof
  <2>3. CASE ReceiveThrows /\ dpc' = "catch" /\ UNCHANGED <<cur, hand, there>>
    BY <2>3, Throws
  <2> QED BY <1>5, <2>1, <2>2, <2>3 DEF ReceiveContext
<1>6. CASE Work
  <2> dpc = "work" /\ dpc \in Serving /\ UNCHANGED <<hand, sig, clientVars, up, down, here>>
    BY <1>6 DEF Work, Serving
  <2>c. cur \in Clients /\ there[cur] /\ CInv(cur) /\ Where(cur) = "work" /\ dpc \notin Ended
    BY Current
  <2>1. here[cur] \/ cpc[cur] = "killed"
    BY <2>c DEF CInv, Left
  <2>2. ASSUME dpc' = IF hand.str \in NoSentence THEN "catch" ELSE "answer",
               UNCHANGED <<cur, backlog, there, refused>>
        PROVE  Goal
    <3>1. ASSUME here[cur] PROVE Turn(cur)'
      <4>1. /\ cpc[cur] = "answer" /\ up[cur] = <<>> /\ down[cur] = <<>>
            /\ hand = Asked(cur) /\ hand.str = inp[cur][pos[cur]]
        BY <2>c, <3>1, StrEqual DEF CInv, Turn, Asked
      <4>2. Where(cur)' = IF hand.str \in NoSentence THEN "catch" ELSE "answer"
        BY <2>2 DEF Where
      <4> QED BY <2>2, <4>1, <4>2 DEF Turn, Asked, clientVars
    <3> QED BY <2>1, <2>2, <3>1, GoesOn
  <2>3. ASSUME hand.str = "overrun", End("dead") PROVE Goal
    <3>1. \A c \in Clients : CInv(c)'
      BY <2>3, Abandoned DEF IInv, Ended
    <3> QED BY <2>3, <3>1 DEF DiesKilledOrOverrun
  <2> QED BY <1>6, <2>2, <2>3 DEF Work
<1>7. CASE Answer
  <2> DEFINE w == IF hand.str = "good" THEN "annotations" ELSE "#"
  <2> dpc = "answer" /\ dpc \in Serving /\ UNCHANGED <<cur, hand, backlog, sig, clientVars, up, here, there>>
    BY <1>7 DEF Answer, Serving
  <2>c. cur \in Clients /\ there[cur] /\ CInv(cur) /\ Where(cur) = "answer" /\ dpc \notin Ended
    BY Current
  <2>1. \A d \in Clients \ {cur} : up'[d] = up[d] /\ down'[d] = down[d] /\ refused'[d] = refused[d]
    BY <1>7, <1>t, <2>c, OneQueue DEF Answer, SendThrows
  <2>2. here[cur] \/ cpc[cur] = "killed"
    BY <2>c DEF CInv, Left
  <2>3. ASSUME here[cur] PROVE Turn(cur)' /\ refused'[cur] = refused[cur]
    <3>1. Sends(Str(w, hand.ctx)) /\ dpc' = "id"
      BY <1>7, <2>3 DEF Answer, SendThrows
    <3>2. down'[cur] = Append(down[cur], Str(w, hand.ctx)) /\ refused' = refused
      <4> HIDE DEF w
      <4> QED BY <1>t, <2>c, <2>3, <3>1, OneQueue
    <3>3. /\ cpc[cur] = "answer" /\ up[cur] = <<>> /\ down[cur] = <<>> /\ hand = Asked(cur)
          /\ inp[cur][pos[cur]] \notin NoSentence
      BY <2>c, <2>3 DEF CInv, Turn
    <3>4. Str(w, hand.ctx) = AnswerTo(cur) /\ AnswerTo(cur)' = AnswerTo(cur)
      BY <3>3, StrEqual DEF AnswerTo, Asked, clientVars
    <3>5. Where(cur)' = "id"
      BY <3>1 DEF Where
    <3> HIDE DEF w
    <3>6. down'[cur] = <<AnswerTo(cur)>>
      BY <3>2, <3>3, <3>4, Queues
    <3> QED BY <3>2, <3>3, <3>4, <3>5, <3>6 DEF Turn, clientVars
  <2> QED BY <1>7, <2>1, <2>2, <2>3, GoesOn DEF Answer
<1>8. CASE Catch
  <2> dpc = "catch" /\ dpc \in Serving /\ UNCHANGED <<hand, sig, clientVars, up, here>>
    BY <1>8 DEF Catch, Serving
  <2>c. cur \in Clients /\ there[cur] /\ CInv(cur) /\ Where(cur) = "catch" /\ dpc \notin Ended
    BY Current
  <2>1. ASSUME Sends(Str("error", hand.ctx)), CloseSession PROVE Goal
    <3>1. \A d \in Clients \ {cur} : up'[d] = up[d] /\ down'[d] = down[d] /\ refused'[d] = refused[d]
      BY <1>t, <2>c, <2>1, OneQueue
    <3>2. ASSUME here[cur]
          PROVE  Bad(cur) /\ cpc[cur] = "answer" /\ down'[cur] = <<Str("error", pos[cur])>>
      <4>1. /\ cpc[cur] = "answer" /\ down[cur] = <<>> /\ hand = Asked(cur)
            /\ inp[cur][pos[cur]] \in NoSentence
        BY <2>c, <3>2 DEF CInv, Turn
      <4>2. down'[cur] = Append(down[cur], Str("error", hand.ctx))
        BY <1>t, <2>c, <2>1, <3>2, OneQueue
      <4>3. hand.ctx = pos[cur]
        BY <4>1, StrEqual DEF Asked
      <4>4. pos[cur] \in DOMAIN inp[cur]
        BY <2>c, <4>1 DEF CInv, Own
      <4> QED BY <4>1, <4>2, <4>3, <4>4, Queues DEF Bad
    <3> QED BY <2>1, <3>1, <3>2, Closes
  <2>2. ASSUME ~ here[cur], End("dead"), UNCHANGED down PROVE Goal
    <3>1. cpc[cur] = "killed"
      BY <2>c, <2>2 DEF CInv, Left
    <3>2. \A c \in Clients : CInv(c)'
      BY <2>2, Abandoned DEF IInv, Ended
    <3> QED BY <2>c, <3>1, <3>2 DEF DiesKilledOrOverrun, clientVars
  <2> QED BY <1>8, <2>1, <2>2 DEF Catch
<1> QED BY <1>1, <1>2, <1>3, <1>4, <1>5, <1>6, <1>7, <1>8 DEF Daemon

\* What is known of a client that has connected and not returned.
LEMMA Active ==
  ASSUME IInv, NEW c \in Clients, cpc[c] \notin Done \cup {"new"}
  PROVE  /\ here[c] /\ CInv(c) /\ (there[c] => Turn(c) /\ ~ refused[c]) /\ (~ there[c] => Alone(c))
         /\ DaemonTypes /\ ClientTypes /\ ConnTypes /\ Places
BY Parts DEF IInv, CInv, Own, Done

\* The client returns: the daemon has gone, or waits for a context.
LEMMA Leaves ==
  ASSUME IInv, NEW c \in Clients, cpc[c] \notin Done \cup {"new"}, NEW how \in {"ok", "fail"}, Leave(c, how),
         UNCHANGED <<dpc, cur, hand, inp, pos, res, up, down, there, refused>>,
         there[c] => cpc[c] = "read",
         how = "ok" => pos[c] > Len(inp[c])
  PROVE  CInv(c)'
<1>1. ClientTypes /\ ConnTypes /\ CInv(c) /\ (there[c] => Turn(c) /\ ~ refused[c]) /\ here[c]
  BY Active
<1>2. ~ here'[c] /\ cpc'[c] = how
  BY <1>1 DEF Leave, ClientTypes, ConnTypes
<1>3. Turn(c)' /\ Alone(c)'
  BY <1>2 DEF Turn, Alone
<1>4. Left(c)'
  <2>1. there[c] => Where(c) = "id" /\ up[c] = <<>>
    BY <1>1 DEF Turn
  <2>2. Where(c)' = Where(c)
    BY DEF Where
  <2> QED BY <1>2, <2>1, <2>2 DEF Left
<1>5. Own(c)'
  BY <1>1, <1>2 DEF Own, Done
<1>6. Has(c)'
  BY <1>1 DEF CInv, Has, Bad
<1> QED BY <1>3, <1>4, <1>5, <1>6 DEF CInv

\* The client goes on while the daemon is there.
LEMMA TakesTurn ==
  ASSUME IInv, NEW c \in Clients, cpc[c] \notin Done \cup {"new"}, there[c],
         NEW at \in {"cmd", "read", "id", "ctx", "answer"}, GoOn(c, at),
         UNCHANGED <<dpc, cur, hand, inp, pos, res, there, refused>>,
         Turn(c)',
         at \in {"id", "ctx", "answer"} => pos[c] \in DOMAIN inp[c] /\ inp[c][pos[c]] # "half",
         at = "cmd" => pos[c] = 1
  PROVE  CInv(c)'
<1>1. ClientTypes /\ CInv(c) /\ ~ refused[c] /\ here[c]
  BY Active
<1>2. cpc'[c] = at /\ here' = here
  BY <1>1 DEF GoOn, ClientTypes
<1>3. Alone(c)' /\ Left(c)'
  BY <1>1, <1>2 DEF Alone, Left
<1>4. Own(c)'
  BY <1>1, <1>2 DEF CInv, Own, Done
<1>5. Has(c)'
  BY <1>1 DEF CInv, Has, Bad
<1> QED BY <1>3, <1>4, <1>5 DEF CInv

\* The client goes on though the daemon has gone.
LEMMA GoesAlone ==
  ASSUME IInv, NEW c \in Clients, cpc[c] \notin Done \cup {"new"}, ~ there[c],
         NEW at \in {"cmd", "read", "id", "ctx", "answer"}, GoOn(c, at),
         UNCHANGED <<dpc, cur, hand, inp, pos, res, up, there>>,
         down'[c] = <<>>,
         at \in {"id", "ctx", "answer"} => pos[c] \in DOMAIN inp[c] /\ inp[c][pos[c]] # "half",
         at = "cmd" => pos[c] = 1
  PROVE  CInv(c)'
<1>1. ClientTypes /\ CInv(c) /\ Alone(c) /\ here[c]
  BY Active
<1>2. cpc'[c] = at /\ here' = here
  BY <1>1 DEF GoOn, ClientTypes
<1>3. Turn(c)' /\ Left(c)'
  BY <1>1, <1>2 DEF Turn, Left
<1>4. Alone(c)'
  BY <1>1, <1>2 DEF Alone, Bad
<1>5. Own(c)'
  BY <1>1, <1>2 DEF CInv, Own, Done
<1>6. Has(c)'
  BY <1>1 DEF CInv, Has, Bad
<1> QED BY <1>3, <1>4, <1>5, <1>6 DEF CInv

\* What the daemon finds of a string that a client sends.
LEMMA ClientSendsGives ==
  ASSUME ConnTypes, NEW c \in Clients, NEW s, NEW at, NEW next,
         ClientSends(c, s, next)
  PROVE  \/ there[c] /\ up'[c] = Append(up[c], s) /\ UNCHANGED refused /\ next
         \/ ~ there[c] /\ UNCHANGED up /\ next
         \/ ~ there[c] /\ UNCHANGED <<up, refused>> /\ Leave(c, "fail")
BY DEF ClientSends, ConnTypes

\* Sending keeps the invariant of the connection.
LEMMA SendKeeps ==
  ASSUME IInv, NEW c \in Clients, SendGo(c) \/ SendId(c) \/ SendContext(c)
  PROVE  CInv(c)'
<1>1. cpc[c] \notin Done \cup {"new"} /\ UNCHANGED <<dpc, cur, hand, inp, pos, res, down, there>>
  BY DEF SendGo, SendId, SendContext, Done, daemonVars
<1>2. /\ here[c] /\ CInv(c) /\ (there[c] => Turn(c) /\ ~ refused[c]) /\ (~ there[c] => Alone(c))
      /\ ConnTypes /\ ClientTypes
  BY <1>1, Active
<1>3. PICK s \in {Str("go", 0), Str("id", pos[c]), Asked(c)}, at \in {"cmd", "ctx", "answer"} :
        /\ \/ cpc[c] = "go" /\ s = Str("go", 0) /\ at = "cmd"
           \/ cpc[c] = "id" /\ s = Str("id", pos[c]) /\ at = "ctx"
           \/ cpc[c] = "ctx" /\ s = Asked(c) /\ at = "answer"
        /\ ClientSends(c, s, GoOn(c, at))
  BY DEF SendGo, SendId, SendContext, Asked
<1>4. /\ at \in {"id", "ctx", "answer"} => pos[c] \in DOMAIN inp[c] /\ inp[c][pos[c]] # "half"
      /\ at = "cmd" => pos[c] = 1
  BY <1>2, <1>3 DEF CInv, Own
<1>5. CASE there[c] /\ up'[c] = Append(up[c], s) /\ UNCHANGED refused /\ GoOn(c, at)
  <2>1. cpc'[c] = at
    BY <1>2, <1>5 DEF GoOn, ClientTypes
  <2>2. Where(c)' = Where(c) /\ Asked(c)' = Asked(c)
    BY <1>1 DEF Where, Asked
  <2>3. Turn(c)'
    <3>1. CASE cpc[c] = "go"
      BY <1>1, <1>2, <1>3, <1>5, <2>1, <2>2, <3>1, Queues DEF Turn
    <3>2. CASE cpc[c] = "id"
      BY <1>1, <1>2, <1>3, <1>5, <2>1, <2>2, <3>2, Queues DEF Turn
    <3>3. CASE cpc[c] = "ctx"
      <4>1. /\ down[c] = <<>>
            /\ \/ Where(c) = "id" /\ up[c] = <<Str("id", pos[c])>>
               \/ Where(c) = "ctx" /\ up[c] = <<>>
        BY <1>2, <1>5, <3>3 DEF Turn
      <4>2. \/ Where(c) = "id" /\ up'[c] = <<Str("id", pos[c]), Asked(c)>>
            \/ Where(c) = "ctx" /\ up'[c] = <<Asked(c)>>
        <5>1. s = Asked(c) /\ up'[c] = Append(up[c], s)
          BY <1>3, <1>5, <3>3
        <5>2. /\ Append(<<>>, s) = <<s>>
              /\ Append(<<Str("id", pos[c])>>, s) = <<Str("id", pos[c]), s>>
          BY Queues
        <5> HIDE DEF Asked
        <5> QED BY <4>1, <5>1, <5>2
      <4> QED BY <1>1, <1>3, <2>1, <2>2, <3>3, <4>1, <4>2 DEF Turn
    <3> QED BY <1>3, <3>1, <3>2, <3>3
  <2> QED BY <1>1, <1>4, <1>5, <2>3, TakesTurn
<1>6. CASE ~ there[c] /\ UNCHANGED up /\ GoOn(c, at)
  <2>1. down'[c] = <<>>
    BY <1>1, <1>2, <1>3, <1>6 DEF Alone
  <2> QED BY <1>1, <1>4, <1>6, <2>1, GoesAlone
<1>7. CASE ~ there[c] /\ UNCHANGED <<up, refused>> /\ Leave(c, "fail")
  BY <1>1, <1>7, Leaves
<1> QED BY <1>2, <1>3, <1>5, <1>6, <1>7, ClientSendsGives

\* A request to stop is the last that the client sends.
LEMMA SendStopKeeps ==
  ASSUME IInv, NEW c \in Clients, SendStop(c)
  PROVE  CInv(c)'
<1>1. cpc[c] = "stop" /\ UNCHANGED <<dpc, cur, hand, inp, pos, res, down, there>>
  BY DEF SendStop, daemonVars
<1>2. /\ here[c] /\ CInv(c) /\ (there[c] => Turn(c) /\ ~ refused[c])
      /\ ConnTypes /\ ClientTypes
  BY <1>1, Active DEF Done
<1>3. pos[c] > Len(inp[c])
  <2>1. inp[c] = <<>> /\ pos[c] = 1 /\ Len(<<>>) = 0
    BY <1>1, <1>2 DEF CInv, Own
  <2> QED BY <2>1
<1>4. CASE there[c] /\ up'[c] = Append(up[c], Str("stop", 0)) /\ UNCHANGED refused /\ Leave(c, "ok")
  <2>1. ~ here'[c] /\ cpc'[c] = "ok"
    BY <1>2, <1>4 DEF Leave, ClientTypes, ConnTypes
  <2>2. Turn(c)' /\ Alone(c)'
    BY <2>1 DEF Turn, Alone
  <2>3. Left(c)'
    <3>1. Where(c) \in {"wait", "first"} /\ up[c] = <<>> /\ Where(c)' = Where(c)
      BY <1>1, <1>2, <1>4 DEF Turn, Where
    <3> QED BY <1>4, <2>1, <3>1, Queues DEF Left
  <2>4. Own(c)' /\ Has(c)'
    BY <1>1, <1>2, <1>3, <1>4, <2>1 DEF CInv, Own, Has, Bad, Done
  <2> QED BY <2>2, <2>3, <2>4 DEF CInv
<1>5. CASE ~ there[c] /\ UNCHANGED up /\ Leave(c, "ok")
  <2>1. ~ here'[c] /\ ~ there'[c] /\ cpc'[c] = "ok"
    BY <1>1, <1>2, <1>5 DEF Leave, ClientTypes, ConnTypes
  <2>2. Turn(c)' /\ Alone(c)' /\ Left(c)'
    BY <2>1 DEF Turn, Alone, Left
  <2>3. Own(c)' /\ Has(c)'
    BY <1>1, <1>2, <1>3, <2>1 DEF CInv, Own, Has, Bad, Done
  <2> QED BY <2>2, <2>3 DEF CInv
<1>6. CASE ~ there[c] /\ UNCHANGED <<up, refused>> /\ Leave(c, "fail")
  BY <1>1, <1>6, Leaves DEF Done
<1> QED BY <1>2, <1>4, <1>5, <1>6, ClientSendsGives DEF SendStop

\* A step of a client's leaves the daemon where it is, and other clients what they have.
LEMMA ClientKeeps ==
  ASSUME IInv, NEW c \in Clients, Client(c) \/ Kill(c) \/ Connect(c),
         CInv(c)'
  PROVE  (\A d \in Clients : CInv(d)') /\ DiesKilledOrOverrun'
<1>1. ClientTypes /\ ConnTypes
  BY Parts DEF IInv
<1>2. ASSUME NEW d \in Clients, d # c
      PROVE  /\ cpc'[d] = cpc[d] /\ inp'[d] = inp[d] /\ pos'[d] = pos[d] /\ res'[d] = res[d]
             /\ up'[d] = up[d] /\ down'[d] = down[d] /\ here'[d] = here[d] /\ there'[d] = there[d]
             /\ refused'[d] = refused[d]
  <2>1. CASE SendGo(c)
    BY <1>1, <1>2, <2>1 DEF SendGo, ClientSends, GoOn, Leave, ClientTypes, ConnTypes
  <2>2. CASE SendStop(c)
    BY <1>1, <1>2, <2>2 DEF SendStop, ClientSends, GoOn, Leave, ClientTypes, ConnTypes
  <2>3. CASE SendId(c)
    BY <1>1, <1>2, <2>3 DEF SendId, ClientSends, GoOn, Leave, ClientTypes, ConnTypes
  <2>4. CASE SendContext(c)
    BY <1>1, <1>2, <2>4 DEF SendContext, ClientSends, GoOn, Leave, ClientTypes, ConnTypes
  <2>5. CASE ReceiveCmdline(c)
    BY <1>1, <1>2, <2>5
       DEF ReceiveCmdline, ClientReceives, ClientReceiveThrows, GoOn, Leave, ClientTypes, ConnTypes
  <2>6. CASE ReadInput(c)
    BY <1>1, <1>2, <2>6 DEF ReadInput, GoOn, Leave, ClientTypes, ConnTypes
  <2>7. CASE ReceiveAnswer(c)
    BY <1>1, <1>2, <2>7
       DEF ReceiveAnswer, ClientReceives, ClientReceiveThrows, GoOn, Leave, ClientTypes, ConnTypes
  <2>8. CASE Kill(c)
    BY <1>1, <1>2, <2>8 DEF Kill, Leave, ClientTypes, ConnTypes
  <2>9. CASE Connect(c)
    BY <1>1, <1>2, <2>9 DEF Connect, ClientTypes, ConnTypes
  <2> QED BY <2>1, <2>2, <2>3, <2>4, <2>5, <2>6, <2>7, <2>8, <2>9 DEF Client
<1>3. UNCHANGED <<dpc, cur, hand>>
  BY DEF Client, SendGo, SendStop, SendId, SendContext, ReceiveCmdline, ReadInput, ReceiveAnswer,
         Kill, Connect, daemonVars
<1>4. ASSUME NEW d \in Clients, d # c PROVE CInv(d)'
  <2>1. Where(d)' = Where(d)
    BY <1>3 DEF Where
  <2> QED BY <1>2, <1>3, <1>4, <2>1, Untouched DEF IInv
<1>5. cpc[c] = "killed" => cpc'[c] = "killed"
  BY DEF Client, SendGo, SendStop, SendId, SendContext, ReceiveCmdline, ReadInput, ReceiveAnswer,
         Kill, Connect, Done
<1>6. DiesKilledOrOverrun'
  BY <1>2, <1>3, <1>5 DEF IInv, DiesKilledOrOverrun
<1> QED BY <1>4, <1>6

\* Receiving the command line, or the end of the connection in its place.
LEMMA ReceiveCmdlineKeeps ==
  ASSUME IInv, NEW c \in Clients, ReceiveCmdline(c)
  PROVE  CInv(c)'
<1>1. cpc[c] = "cmd" /\ UNCHANGED <<dpc, cur, hand, inp, pos, res, up, there, refused>>
  BY DEF ReceiveCmdline, daemonVars
<1>2. /\ here[c] /\ CInv(c) /\ (there[c] => Turn(c) /\ ~ refused[c]) /\ (~ there[c] => Alone(c))
      /\ ConnTypes /\ ClientTypes /\ cpc[c] \notin Done \cup {"new"}
  BY <1>1, Active DEF Done
<1>3. ASSUME NEW s, ClientReceives(c, s), GoOn(c, "read") PROVE CInv(c)'
  <2>1. CASE there[c]
    <3>1. down[c] # <<>> /\ down'[c] = Tail(down[c])
      BY <1>2, <1>3, <2>1 DEF ClientReceives, ConnTypes
    <3>2. Where(c) = "id" /\ up[c] = <<>> /\ down[c] = <<Str("cmdline", 0)>>
      BY <1>1, <1>2, <2>1, <3>1 DEF Turn
    <3>3. Where(c)' = "id" /\ cpc'[c] = "read"
      BY <1>1, <1>2, <1>3, <3>2 DEF Where, GoOn, ClientTypes
    <3>4. Turn(c)'
      BY <1>1, <3>1, <3>2, <3>3, Queues DEF Turn
    <3> QED BY <1>1, <1>2, <1>3, <2>1, <3>4, TakesTurn
  <2>2. CASE ~ there[c]
    <3>1. down'[c] = <<>>
      BY <1>1, <1>2, <1>3, <2>2, Queues DEF ClientReceives, ConnTypes, Alone
    <3> QED BY <1>1, <1>2, <1>3, <2>2, <3>1, GoesAlone
  <2> QED BY <2>1, <2>2
<1>4. CASE ClientReceiveThrows(c) /\ Leave(c, "fail")
  BY <1>1, <1>2, <1>4, Leaves DEF ClientReceiveThrows
<1> QED BY <1>3, <1>4 DEF ReceiveCmdline

\* Reading the input file.
LEMMA ReadInputKeeps ==
  ASSUME IInv, NEW c \in Clients, ReadInput(c)
  PROVE  CInv(c)'
<1>1. cpc[c] = "read" /\ UNCHANGED <<dpc, cur, hand, inp, pos, res, up, down, there, refused>>
  BY DEF ReadInput, daemonVars
<1>2. /\ here[c] /\ CInv(c) /\ (there[c] => Turn(c) /\ ~ refused[c]) /\ (~ there[c] => Alone(c))
      /\ ConnTypes /\ ClientTypes /\ cpc[c] \notin Done \cup {"new"}
  BY <1>1, Active DEF Done
<1>3. CASE pos[c] > Len(inp[c]) /\ Leave(c, "ok")
  BY <1>1, <1>2, <1>3, Leaves
<1>4. CASE Leave(c, "fail")
  BY <1>1, <1>2, <1>4, Leaves
<1>5. CASE pos[c] <= Len(inp[c]) /\ inp[c][pos[c]] # "half" /\ GoOn(c, "id")
  <2>1. pos[c] \in DOMAIN inp[c]
    BY <1>2, <1>5, InputTyped DEF ClientTypes
  <2>2. CASE there[c]
    <3>1. Where(c) = "id" /\ up[c] = <<>> /\ down[c] = <<>>
      BY <1>1, <1>2, <2>2 DEF Turn
    <3>2. Where(c)' = "id" /\ cpc'[c] = "id"
      BY <1>1, <1>2, <1>5, <3>1 DEF Where, GoOn, ClientTypes
    <3>3. Turn(c)'
      BY <1>1, <3>1, <3>2 DEF Turn
    <3> QED BY <1>1, <1>2, <1>5, <2>1, <2>2, <3>3, TakesTurn
  <2>3. CASE ~ there[c]
    <3>1. down'[c] = <<>>
      BY <1>1, <1>2, <2>3 DEF Alone
    <3> QED BY <1>1, <1>2, <1>5, <2>1, <2>3, <3>1, GoesAlone
  <2> QED BY <2>2, <2>3
<1> QED BY <1>3, <1>4, <1>5 DEF ReadInput

\* What stands for the end of the connection is no answer.
LEMMA NoAnswer == NoString.str \notin Answers
BY Zenon DEF NoString, Str, Answers

\* Receiving an answer, or the end of the connection in its place.
LEMMA ReceiveAnswerKeeps ==
  ASSUME IInv, NEW c \in Clients, ReceiveAnswer(c)
  PROVE  CInv(c)'
<1>1. cpc[c] = "answer" /\ UNCHANGED <<dpc, cur, hand, inp, up, there, refused>>
  BY DEF ReceiveAnswer, daemonVars
<1>2. /\ here[c] /\ CInv(c) /\ (there[c] => Turn(c) /\ ~ refused[c]) /\ (~ there[c] => Alone(c))
      /\ ConnTypes /\ ClientTypes /\ cpc[c] \notin Done \cup {"new"}
  BY <1>1, Active DEF Done
<1>3. ASSUME NEW s, ClientReceives(c, s), res' = [res EXCEPT ![c] = Append(@, s)],
             pos' = [pos EXCEPT ![c] = @ + 1], GoOn(c, "read")
      PROVE  CInv(c)'
  <2>1. /\ pos[c] \in Nat \ {0} /\ pos'[c] = pos[c] + 1 /\ res'[c] = Append(res[c], s)
        /\ cpc'[c] = "read" /\ here'[c] /\ res[c] \in Seq(StringSet)
    BY <1>2, <1>3 DEF ClientTypes, GoOn
  <2>2. \/ s = AnswerTo(c) /\ inp[c][pos[c]] \notin NoSentence
        \/ s.str \notin Answers /\ (Bad(c) \/ dpc \in Ended)
    <3>1. CASE there[c]
      <4>1. down[c] = <<AnswerTo(c)>> /\ inp[c][pos[c]] \notin NoSentence
        BY <1>1, <1>2, <1>3, <3>1 DEF Turn, ClientReceives
      <4> QED BY <1>3, <3>1, <4>1, Queues DEF ClientReceives
    <3>2. CASE ~ there[c]
      <4>1. dpc \in Ended \/ Bad(c)
        BY <1>2, <3>2 DEF Alone
      <4>2. CASE down[c] = <<>>
        BY <1>3, <4>1, <4>2, NoAnswer DEF ClientReceives
      <4>3. CASE down[c] = <<Str("error", pos[c])>>
        BY <1>3, <4>1, <4>3, Queues, StrEqual DEF ClientReceives, Answers
      <4>4. CASE down[c] = <<AnswerTo(c)>> /\ inp[c][pos[c]] \notin NoSentence
        BY <1>3, <4>1, <4>4, Queues DEF ClientReceives
      <4> QED BY <1>1, <1>2, <3>2, <4>2, <4>3, <4>4 DEF Alone
    <3> QED BY <3>1, <3>2
  <2>3. s = AnswerTo(c) /\ inp[c][pos[c]] \notin NoSentence =>
          s.str \in Answers /\ s.ctx = pos[c] /\ (s.str = "#" <=> inp[c][pos[c]] = "none")
    <3>1. inp[c][pos[c]] \in {"good", "none"} \cup NoSentence
      BY <1>1, <1>2, InputTyped DEF CInv, Own, Kinds, NoSentence
    <3> QED BY <3>1, StrEqual DEF AnswerTo, Answers
  <2>4. Has(c)'
    <3>1. Len(res[c]) = pos[c] - 1 /\ (Bad(c)' <=> Bad(c))
      BY <1>1, <1>2 DEF CInv, Has, Bad
    <3>2. /\ DOMAIN res[c] = 1 .. Len(res[c]) /\ DOMAIN res'[c] = 1 .. (Len(res[c]) + 1)
          /\ Len(res'[c]) = Len(res[c]) + 1 /\ res'[c][Len(res[c]) + 1] = s
          /\ \A j \in DOMAIN res[c] : res'[c][j] = res[c][j]
      <4>1. s \in StringSet
        BY <1>2, <1>3, ClientReceivesTyped
      <4> QED BY <2>1, <4>1
    <3>3. Len(res'[c]) = pos'[c] - 1
      BY <2>1, <3>1, <3>2
    <3>4. ASSUME NEW j \in DOMAIN res'[c]
          PROVE  /\ res'[c][j].str \in Answers => /\ res'[c][j].ctx = j
                                                  /\ res'[c][j].str = "#" <=> inp[c][j] = "none"
                 /\ res'[c][j].str \in Answers \/ Bad(c) \/ dpc \in Ended
      <4>1. CASE j \in DOMAIN res[c]
        BY <1>2, <3>2, <4>1 DEF CInv, Has
      <4>2. CASE j = pos[c]
        BY <2>1, <2>2, <2>3, <3>1, <3>2, <4>2
      <4> QED BY <2>1, <3>1, <3>2, <4>1, <4>2
    <3> QED BY <1>1, <3>1, <3>3, <3>4 DEF Has
  <2>5. there[c] => Where(c) = "id" /\ up[c] = <<>> /\ down'[c] = <<>>
    <3>1. CASE there[c]
      <4>1. down[c] # <<>> /\ down'[c] = Tail(down[c])
        BY <1>2, <1>3, <3>1 DEF ClientReceives, ConnTypes
      <4>2. Where(c) = "id" /\ up[c] = <<>> /\ down[c] = <<AnswerTo(c)>>
        BY <1>1, <1>2, <3>1, <4>1 DEF Turn
      <4> QED BY <4>1, <4>2, Queues
    <3> QED BY <3>1
  <2>6. ~ there[c] => down'[c] = <<>>
    BY <1>1, <1>2, <1>3, Queues DEF ClientReceives, ConnTypes, Alone
  <2>7. Turn(c)'
    BY <1>1, <2>1, <2>5 DEF Turn, Where
  <2>8. Alone(c)' /\ Left(c)' /\ Own(c)'
    BY <1>1, <1>2, <2>1, <2>6 DEF Alone, Left, CInv, Own, Bad, Done
  <2> QED BY <2>4, <2>7, <2>8 DEF CInv
<1>4. CASE ClientReceiveThrows(c) /\ Leave(c, "fail") /\ UNCHANGED <<res, pos>>
  BY <1>1, <1>2, <1>4, Leaves DEF ClientReceiveThrows
<1> QED BY <1>3, <1>4 DEF ReceiveAnswer

\* A client that is killed may leave half a string behind.
LEMMA KillKeeps ==
  ASSUME IInv, NEW c \in Clients, Kill(c)
  PROVE  CInv(c)'
<1>1. /\ cpc[c] \notin Done \cup {"new"} /\ Leave(c, "killed")
      /\ UNCHANGED <<dpc, cur, hand, inp, pos, res, down, there, refused>>
  BY DEF Kill, daemonVars
<1>2. CInv(c) /\ ConnTypes /\ ClientTypes
  BY <1>1, Active
<1>3. ~ here'[c] /\ cpc'[c] = "killed"
  BY <1>1, <1>2 DEF Leave, ClientTypes, ConnTypes
<1>4. Turn(c)' /\ Alone(c)' /\ Left(c)'
  BY <1>3 DEF Turn, Alone, Left
<1>5. Own(c)' /\ Has(c)'
  BY <1>1, <1>2, <1>3 DEF CInv, Own, Has, Bad, Done
<1> QED BY <1>4, <1>5 DEF CInv

\* A new connection waits for the daemon.
LEMMA ConnectKeeps ==
  ASSUME IInv, NEW c \in Clients, Connect(c)
  PROVE  CInv(c)'
<1>1. CInv(c) /\ ConnTypes /\ ClientTypes /\ Places
  BY Parts DEF IInv
<1>2. PICK x \in Inputs, how \in {"go", "stop"} :
        /\ how = "stop" => x = <<>>
        /\ inp' = [inp EXCEPT ![c] = x]
        /\ IF dpc \in Ended
             THEN /\ cpc' = [cpc EXCEPT ![c] = "fail"]
                  /\ UNCHANGED <<backlog, here, there>>
             ELSE /\ cpc' = [cpc EXCEPT ![c] = how]
                  /\ backlog' = Append(backlog, c)
                  /\ here' = [here EXCEPT ![c] = TRUE]
                  /\ there' = [there EXCEPT ![c] = TRUE]
  BY DEF Connect
<1>3. cpc[c] = "new" /\ UNCHANGED <<dpc, cur, hand, pos, res, up, down, refused>>
  BY DEF Connect
<1>4. /\ ~ here[c] /\ ~ there[c] /\ ~ refused[c] /\ up[c] = <<>> /\ down[c] = <<>> /\ pos[c] = 1
  BY <1>1, <1>3 DEF CInv, Own
<1>5. inp'[c] = x
  BY <1>1, <1>2 DEF ClientTypes
<1>6. Has(c)'
  <2>1. Len(res[c]) = 0 /\ res[c] \in Seq(StringSet)
    BY <1>1, <1>4 DEF CInv, Has, ClientTypes
  <2>2. DOMAIN res[c] = {}
    BY <2>1
  <2> QED BY <1>3, <1>4, <2>1, <2>2 DEF Has
<1>7. CASE dpc \in Ended
  <2>1. ~ here'[c] /\ ~ there'[c] /\ cpc'[c] = "fail"
    BY <1>1, <1>2, <1>4, <1>7 DEF ClientTypes
  <2>2. Turn(c)' /\ Alone(c)' /\ Left(c)' /\ Own(c)'
    BY <2>1 DEF Turn, Alone, Left, Own, Done
  <2> QED BY <1>6, <2>2 DEF CInv
<1>8. CASE dpc \notin Ended
  <2>1. here'[c] /\ there'[c] /\ cpc'[c] = how
    BY <1>1, <1>2, <1>8 DEF ClientTypes, ConnTypes
  <2>2. Where(c)' = "wait"
    BY <1>1, <1>3, <1>4 DEF Places, Where
  <2>3. Turn(c)' /\ Alone(c)' /\ Left(c)'
    BY <1>3, <1>4, <2>1, <2>2 DEF Turn, Alone, Left
  <2>4. Own(c)'
    BY <1>2, <1>3, <1>4, <1>5, <2>1 DEF Own, Done
  <2> QED BY <1>6, <2>3, <2>4 DEF CInv
<1> QED BY <1>7, <1>8

-----------------------------------------------------------------------------
(* The invariant, and what it implies.                                     *)

LEMMA InitIInv == Init => IInv
<1> SUFFICES ASSUME Init PROVE IInv
    OBVIOUS
<1> DEFINE none == <<>>
<1>1. none \in Seq(StringSet) /\ none \in Seq(Clients) /\ Len(none) = 0 /\ DOMAIN none = {}
  OBVIOUS
<1>2. DaemonTypes
  BY <1>1, StrTyped DEF Init, DaemonTypes, Serving, Ended
<1>3. ClientTypes
  BY <1>1 DEF Init, ClientTypes
<1>4. ConnTypes
  BY <1>1 DEF Init, ConnTypes
<1>5. Places
  BY <1>1, DaemonAssumption DEF Init, Places, Accepted
<1>6. ASSUME NEW c \in Clients PROVE CInv(c)
  <2>1. Turn(c) /\ Alone(c) /\ Left(c)
    BY DEF Init, Turn, Alone, Left
  <2>2. Own(c)
    BY DEF Init, Own, Done
  <2>3. Has(c)
    BY <1>1 DEF Init, Has
  <2> QED BY <2>1, <2>2, <2>3 DEF CInv
<1>7. DiesKilledOrOverrun
  BY DEF Init, DiesKilledOrOverrun
<1> QED BY <1>2, <1>3, <1>4, <1>5, <1>6, <1>7, Parts DEF IInv

LEMMA NextIInv == IInv /\ [Next]_vars => IInv'
<1> SUFFICES ASSUME IInv, [Next]_vars PROVE IInv'
    OBVIOUS
<1>t. DaemonTypes /\ ClientTypes /\ ConnTypes /\ Places
  BY Parts DEF IInv
<1>1. ASSUME DaemonTypes', ClientTypes', ConnTypes', Places', \A c \in Clients : CInv(c)', DiesKilledOrOverrun'
      PROVE  IInv'
  <2>1. (TypeOK /\ Accepted)'
    BY <1>1, Parts DEF TypeOK, Accepted, DaemonTypes, ClientTypes, ConnTypes, Places
  <2> QED BY <1>1, <2>1 DEF IInv
<1>2. CASE Daemon
  BY <1>1, <1>2, <1>t, DaemonTypesKept, DaemonKeeps
<1>3. ASSUME NEW c \in Clients, Client(c) \/ Kill(c) \/ Connect(c) PROVE IInv'
  <2>1. CInv(c)'
    BY <1>3, SendKeeps, SendStopKeeps, ReceiveCmdlineKeeps, ReadInputKeeps, ReceiveAnswerKeeps,
       KillKeeps, ConnectKeeps DEF Client
  <2>2. Own(c)
    BY DEF IInv, CInv
  <2> QED BY <1>1, <1>3, <1>t, <2>1, <2>2, ClientTypesKept, ClientKeeps
<1>4. ASSUME UNCHANGED <<dpc, cur, hand, backlog, clientVars, connVars>>, sig' \in BOOLEAN PROVE IInv'
  <2>1. DaemonTypes' /\ ClientTypes' /\ ConnTypes' /\ Places'
    BY <1>4, <1>t
       DEF DaemonTypes, ClientTypes, ConnTypes, Places, Accepted, clientVars, connVars
  <2>2. ASSUME NEW c \in Clients PROVE CInv(c)'
    <3>1. Where(c)' = Where(c)
      BY <1>4 DEF Where
    <3> QED BY <1>4, <3>1, Untouched DEF IInv, clientVars, connVars
  <2>3. DiesKilledOrOverrun'
    BY <1>4 DEF IInv, DiesKilledOrOverrun, clientVars
  <2> QED BY <1>1, <2>1, <2>2, <2>3
<1>5. CASE Signal
  BY <1>4, <1>5 DEF Signal, daemonVars
<1>6. CASE UNCHANGED vars
  BY <1>4, <1>6, <1>t DEF vars, daemonVars, DaemonTypes
<1> QED BY <1>2, <1>3, <1>5, <1>6 DEF Next

\* Both ends of every connection take turns, whatever clients are killed and whatever
\* signals come.
THEOREM Invariance == Spec => []IInv
BY InitIInv, NextIInv, PTL DEF Spec

\* The type invariant: and every connection that the daemon has not closed waits in the
\* backlog once, or is served.
THEOREM TypeCorrect == Spec => []TypeOK
<1>1. IInv => TypeOK
  BY DEF IInv
<1> QED BY <1>1, Invariance, PTL

\* The j-th answer that a client prints is the one to its j-th context.
THEOREM Aligned == Spec => []AnswersAligned
<1>1. IInv => AnswersAligned
  BY DEF IInv, CInv, Has, AnswersAligned
<1> QED BY <1>1, Invariance, PTL

\* A client that returns true has an answer to every context, or one of them was refused,
\* or the daemon has ended.
THEOREM Complete == Spec => []CompleteOrBroken
<1>1. ASSUME IInv, NEW c \in Clients, cpc[c] = "ok"
      PROVE  \/ \A j \in DOMAIN inp[c] : j \in DOMAIN res[c] /\ res[c][j].str \in Answers
             \/ \E j \in DOMAIN inp[c] : inp[c][j] \in NoSentence
             \/ dpc \in Ended
  <2>1. ClientTypes /\ Own(c) /\ Has(c)
    BY <1>1, Parts DEF IInv, CInv
  <2>2. /\ pos[c] > Len(inp[c]) /\ Len(res[c]) = pos[c] - 1 /\ pos[c] \in Nat \ {0}
        /\ DOMAIN inp[c] = 1 .. Len(inp[c]) /\ Len(inp[c]) \in Nat
        /\ DOMAIN res[c] = 1 .. Len(res[c])
    BY <1>1, <2>1, InputTyped DEF Own, Has, ClientTypes
  <2>3. \A j \in DOMAIN inp[c] : j \in DOMAIN res[c]
    BY <2>2
  <2> QED BY <2>1, <2>3 DEF Has, Bad
<1>2. IInv => CompleteOrBroken
  BY <1>1 DEF CompleteOrBroken
<1> QED BY <1>2, Invariance, PTL

\* The daemon dies only of a client that was killed, or in the loop over a context whose
\* end it has passed: what else a context or a client does, it outlives.
THEOREM DiesOfFew == Spec => []DiesKilledOrOverrun
<1>1. IInv => DiesKilledOrOverrun
  BY DEF IInv
<1> QED BY <1>1, Invariance, PTL

=============================================================================
