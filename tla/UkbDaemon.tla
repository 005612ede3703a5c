----------------------------- MODULE UkbDaemon ------------------------------
(***************************************************************************)
(* ukb_wsd as a server (ukbServer.cc, ukb_wsd.cc): one process that runs   *)
(* its event loop, accepts a connection, serves the whole session of that  *)
(* client synchronously in the accept handler and only then accepts the    *)
(* next one; and the clients (--client and --shutdown), processes of their *)
(* own that may be killed at any time.                                     *)
(*                                                                         *)
(* A connection is a queue of strings in each direction (module            *)
(* SocketProtocol is about the bytes).  Of TCP it has what the code can    *)
(* meet: the peer has closed, so that a receive sees the end of the file;  *)
(* a string sent to a closed end is lost or refused, and after that a      *)
(* receive may be refused as well; a string that is cut off.               *)
(*                                                                         *)
(* A context is only its kind: "good" has annotations, "none" has none,    *)
(* "bad" makes CSentence throw, the last nopv word of "overrun" has a      *)
(* concept of two weights (CtxParser.EndClash), so that CSentence reads    *)
(* past the end of its words, and behind "half" the input file ends after  *)
(* the line with the identifier.                                           *)
(***************************************************************************)
EXTENDS Naturals, Sequences

CONSTANTS Clients,   \* processes that ever connect
          Inputs,    \* input files of clients: sequences of kinds
          Nobody     \* no client is being served

Kinds == {"good", "none", "bad", "overrun", "half"}

NoSentence == {"bad", "overrun"}   \* CSentence's constructor does not return

ASSUME DaemonAssumption ==
  /\ Inputs \subseteq Seq(Kinds)
  /\ Nobody \notin Clients

VARIABLES
  dpc,    \* where the daemon is: the event loop, handle_server_read, or ended
  cur,    \* the client it serves
  hand,   \* the context it has received
  backlog,\* connections to accept, in order
  sig,    \* a signal has come and waits for the event loop
  cpc,    \* where the client is
  inp,    \* its input file
  pos,    \* the context it is at
  up,     \* strings on their way to the daemon
  down,   \* strings on their way to the client
  here,   \* the client's end of the connection is open
  there,  \* the daemon's end is open
  refused,\* something was sent to an end that is closed
  res     \* what the client received for each context

daemonVars == <<dpc, cur, hand, backlog>>
clientVars == <<cpc, inp, pos, res>>
connVars   == <<up, down, here, there, refused>>
vars       == <<daemonVars, sig, clientVars, connVars>>

Ended  == {"stopped", "dead"}
Serving == {"first", "cmd", "id", "ctx", "work", "answer", "catch"}
Done   == {"ok", "fail", "killed"}

\* Strings: what it is, and the position of the context it belongs to.
Str(s, j) == [str |-> s, ctx |-> j]
Cut  == Str("cut", 0)        \* the sender was killed in the middle of a string
NoString == Str("", 0)       \* receive returned false

Answers == {"annotations", "#"}

Init ==
  /\ dpc = "loop"
  /\ cur = Nobody
  /\ hand = NoString
  /\ backlog = <<>>
  /\ sig = FALSE
  /\ cpc = [c \in Clients |-> "new"]
  /\ inp = [c \in Clients |-> <<>>]
  /\ pos = [c \in Clients |-> 1]
  /\ up = [c \in Clients |-> <<>>]
  /\ down = [c \in Clients |-> <<>>]
  /\ here = [c \in Clients |-> FALSE]
  /\ there = [c \in Clients |-> FALSE]
  /\ refused = [c \in Clients |-> FALSE]
  /\ res = [c \in Clients |-> <<>>]

-----------------------------------------------------------------------------
(* The daemon's end of the connection of cur.  An exception is the outcome *)
(* of the action, not a state.                                             *)

\* sSession::send returns: the string is on its way, or lost.
Sends(s) ==
  IF here[cur]
    THEN down' = [down EXCEPT ![cur] = Append(@, s)] /\ UNCHANGED refused
    ELSE refused' = [refused EXCEPT ![cur] = TRUE] /\ UNCHANGED down

\* sSession::send throws.
SendThrows == ~ here[cur] /\ UNCHANGED <<down, refused>>

\* sSession::receive returns true with the string s.
Receives(s) ==
  /\ up[cur] # <<>>
  /\ s = Head(up[cur])
  /\ s # Cut
  /\ up' = [up EXCEPT ![cur] = Tail(@)]

\* It returns false: the client has closed.
AtEof == up[cur] = <<>> /\ ~ here[cur] /\ UNCHANGED up

\* It throws.
ReceiveThrows ==
  /\ \/ up[cur] = <<Cut>>
     \/ up[cur] = <<>> /\ ~ here[cur] /\ refused[cur]
  /\ UNCHANGED up

-----------------------------------------------------------------------------
(* The daemon.                                                             *)

\* Mutant: the connection that is served stays in the backlog.
AcceptKeeps ==
  /\ dpc = "loop"
  /\ backlog # <<>>
  /\ cur' = Head(backlog)
  /\ dpc' = "first"
  /\ UNCHANGED <<backlog, hand, sig, clientVars, connVars>>

\* handle_accept runs the session.  (An accept that fails leaves things as they are.)
Accept ==
  /\ dpc = "loop"
  /\ backlog # <<>>
  /\ cur' = Head(backlog)
  /\ backlog' = Tail(backlog)
  /\ dpc' = "first"
  /\ UNCHANGED <<hand, sig, clientVars, connVars>>

\* The process ends, and with it all its connections.
End(how) ==
  /\ dpc' = how
  /\ cur' = Nobody
  /\ backlog' = <<>>
  /\ there' = [c \in Clients |-> FALSE]
  /\ refused' = [c \in Clients |->
                   refused[c] \/ (c # cur /\ there[c] /\ up[c] # <<>>)]

\* io_service::stop as the handler of SIGINT, SIGTERM and SIGHUP.
HandleSignal ==
  /\ dpc = "loop"
  /\ sig
  /\ End("stopped")
  /\ UNCHANGED <<hand, sig, clientVars, up, down, here>>

\* handle_server_read returns true: the session is deleted, its socket closed,
\* and the next one can be accepted.
CloseSession ==
  /\ dpc' = "loop"
  /\ cur' = Nobody
  /\ there' = [there EXCEPT ![cur] = FALSE]

\* Mutant: "stop" is taken for any other first string.
FirstAny ==
  /\ dpc = "first"
  /\ \/ /\ \E s \in {Str("stop", 0), Str("go", 0)} : Receives(s)
        /\ dpc' = "cmd"
        /\ UNCHANGED <<cur, backlog, there, refused>>
     \/ AtEof /\ CloseSession /\ UNCHANGED <<backlog, refused>>
     \/ ReceiveThrows /\ dpc' = "catch" /\ UNCHANGED <<cur, backlog, there, refused>>
  /\ UNCHANGED <<hand, sig, clientVars, down, here>>

\* if (!session.receive(ctx)) return true; if (ctx == "stop") return false
First ==
  /\ dpc = "first"
  /\ \/ \E s \in {Str("stop", 0), Str("go", 0)} :
          /\ Receives(s)
          /\ IF s.str = "stop"
               THEN End("stopped")
               ELSE dpc' = "cmd" /\ UNCHANGED <<cur, backlog, there, refused>>
     \/ AtEof /\ CloseSession /\ UNCHANGED <<backlog, refused>>
     \/ ReceiveThrows /\ dpc' = "catch" /\ UNCHANGED <<cur, backlog, there, refused>>
  /\ UNCHANGED <<hand, sig, clientVars, down, here>>

\* session.send(cmdline)
SendCmdline ==
  /\ dpc = "cmd"
  /\ \/ Sends(Str("cmdline", 0)) /\ dpc' = "id"
     \/ SendThrows /\ dpc' = "catch"
  /\ UNCHANGED <<cur, hand, backlog, sig, clientVars, up, here, there>>

\* The two receives of a context; the end of the file between them is one, too.
ReceiveContext ==
  /\ dpc \in {"id", "ctx"}
  /\ \/ /\ up[cur] # <<>>
        /\ Receives(Head(up[cur]))
        /\ hand' = Head(up[cur])
        /\ dpc' = IF dpc = "id" THEN "ctx" ELSE "work"
        /\ UNCHANGED <<cur, there>>
     \/ AtEof /\ CloseSession /\ UNCHANGED hand
     \/ ReceiveThrows /\ dpc' = "catch" /\ UNCHANGED <<cur, hand, there>>
  /\ UNCHANGED <<backlog, sig, clientVars, down, here, refused>>

\* Mutant: what CSentence throws leaves the handler.
WorkUncaught ==
  /\ dpc = "work"
  /\ IF hand.str \in NoSentence THEN End("dead")
     ELSE dpc' = "answer" /\ UNCHANGED <<cur, backlog, there, refused>>
  /\ UNCHANGED <<hand, sig, clientVars, up, down, here>>

\* CSentence cs(ctx_id, ctx); dispatch_run_cs(cs); cs.print_csent(oss).  The loop
\* over the words that is past their end does not meet it again: it goes on until
\* what it reads makes it throw something that swallow does not catch, or crash.
Work ==
  /\ dpc = "work"
  /\ \/ /\ dpc' = IF hand.str \in NoSentence THEN "catch" ELSE "answer"
        /\ UNCHANGED <<cur, backlog, there, refused>>
     \/ hand.str = "overrun" /\ End("dead")
  /\ UNCHANGED <<hand, sig, clientVars, up, down, here>>

\* Mutant: nothing is sent for an empty answer.
AnswerOnlyFull ==
  /\ dpc = "answer"
  /\ \/ /\ hand.str = "good"
        /\ Sends(Str("annotations", hand.ctx))
        /\ dpc' = "id"
     \/ /\ hand.str # "good"
        /\ dpc' = "id"
        /\ UNCHANGED <<down, refused>>
     \/ SendThrows /\ dpc' = "catch"
  /\ UNCHANGED <<cur, hand, backlog, sig, clientVars, up, here, there>>

\* Mutant: the session is over after one answer.
AnswerOnce ==
  /\ dpc = "answer"
  /\ Sends(Str(IF hand.str = "good" THEN "annotations" ELSE "#", hand.ctx))
  /\ CloseSession
  /\ UNCHANGED <<hand, backlog, sig, clientVars, up, here>>

\* An empty answer cannot be sent: "#" stands for it.
Answer ==
  /\ dpc = "answer"
  /\ \/ /\ Sends(Str(IF hand.str = "good" THEN "annotations" ELSE "#", hand.ctx))
        /\ dpc' = "id"
     \/ SendThrows /\ dpc' = "catch"
  /\ UNCHANGED <<cur, hand, backlog, sig, clientVars, up, here, there>>

\* The handler sends e.what() and the session is over; when that throws, too,
\* the exception leaves io_service::run and start_daemon returns.
Catch ==
  /\ dpc = "catch"
  /\ \/ Sends(Str("error", hand.ctx)) /\ CloseSession /\ UNCHANGED backlog
     \/ /\ ~ here[cur]
        /\ End("dead")
        /\ UNCHANGED down
  /\ UNCHANGED <<hand, sig, clientVars, up, here>>

-----------------------------------------------------------------------------
(* A client.                                                               *)

\* sClient's constructor: the kernel accepts the connection on the daemon's
\* behalf; without a daemon there is an error and the client returns false.
Connect(c) ==
  /\ cpc[c] = "new"
  /\ \E x \in Inputs, how \in {"go", "stop"} :
       /\ how = "stop" => x = <<>>
       /\ inp' = [inp EXCEPT ![c] = x]
       /\ IF dpc \in Ended
            THEN /\ cpc' = [cpc EXCEPT ![c] = "fail"]
                 /\ UNCHANGED <<backlog, here, there>>
            ELSE /\ cpc' = [cpc EXCEPT ![c] = how]
                 /\ backlog' = Append(backlog, c)
                 /\ here' = [here EXCEPT ![c] = TRUE]
                 /\ there' = [there EXCEPT ![c] = TRUE]
  /\ UNCHANGED <<dpc, cur, hand, sig, pos, res, up, down, refused>>

\* The client returns, and its socket is closed.
Leave(c, how) ==
  /\ cpc' = [cpc EXCEPT ![c] = how]
  /\ here' = [here EXCEPT ![c] = FALSE]

\* sClient::send of s, then go on at next; it may throw when the daemon has
\* closed, and the client returns false.
ClientSends(c, s, next) ==
  \/ /\ there[c]
     /\ up' = [up EXCEPT ![c] = Append(@, s)]
     /\ next
     /\ UNCHANGED refused
  \/ /\ ~ there[c]
     /\ refused' = [refused EXCEPT ![c] = TRUE]
     /\ next
     /\ UNCHANGED up
  \/ /\ ~ there[c]
     /\ Leave(c, "fail")
     /\ UNCHANGED <<up, refused>>

GoOn(c, at) == cpc' = [cpc EXCEPT ![c] = at] /\ UNCHANGED here

SendGo(c) ==
  /\ cpc[c] = "go"
  /\ ClientSends(c, Str("go", 0), GoOn(c, "cmd"))
  /\ UNCHANGED <<daemonVars, sig, inp, pos, res, down, there>>

\* client_stop_server: the string is sent, nobody waits for an answer.
SendStop(c) ==
  /\ cpc[c] = "stop"
  /\ ClientSends(c, Str("stop", 0), Leave(c, "ok"))
  /\ UNCHANGED <<daemonVars, sig, inp, pos, res, down, there>>

\* sClient::receive; that it returned false nobody asks.
ClientReceives(c, s) ==
  \/ /\ down[c] # <<>>
     /\ s = Head(down[c])
     /\ down' = [down EXCEPT ![c] = Tail(@)]
  \/ /\ down[c] = <<>>
     /\ ~ there[c]
     /\ s = NoString
     /\ UNCHANGED down

ClientReceiveThrows(c) ==
  /\ down[c] = <<>>
  /\ ~ there[c]
  /\ refused[c]
  /\ UNCHANGED down

Strings(c) == {NoString} \cup {down[c][i] : i \in DOMAIN down[c]}

\* Mutant: the client does not wait for the command line.
ReceiveNoCmdline(c) ==
  /\ cpc[c] = "cmd"
  /\ GoOn(c, "read")
  /\ UNCHANGED <<daemonVars, sig, inp, pos, res, up, down, there, refused>>

ReceiveCmdline(c) ==
  /\ cpc[c] = "cmd"
  /\ \/ \E s \in Strings(c) : ClientReceives(c, s) /\ GoOn(c, "read")
     \/ ClientReceiveThrows(c) /\ Leave(c, "fail")
  /\ UNCHANGED <<daemonVars, sig, inp, pos, res, up, there, refused>>

\* read_line_noblank for the identifier and for the context.
ReadInput(c) ==
  /\ cpc[c] = "read"
  /\ \/ pos[c] > Len(inp[c]) /\ Leave(c, "ok")
     \/ pos[c] <= Len(inp[c]) /\ inp[c][pos[c]] = "half" /\ Leave(c, "fail")
     \/ pos[c] <= Len(inp[c]) /\ inp[c][pos[c]] # "half" /\ GoOn(c, "id")
  /\ UNCHANGED <<daemonVars, sig, inp, pos, res, up, down, there, refused>>

SendId(c) ==
  /\ cpc[c] = "id"
  /\ ClientSends(c, Str("id", pos[c]), GoOn(c, "ctx"))
  /\ UNCHANGED <<daemonVars, sig, inp, pos, res, down, there>>

SendContext(c) ==
  /\ cpc[c] = "ctx"
  /\ ClientSends(c, Str(inp[c][pos[c]], pos[c]), GoOn(c, "answer"))
  /\ UNCHANGED <<daemonVars, sig, inp, pos, res, down, there>>

ReceiveAnswer(c) ==
  /\ cpc[c] = "answer"
  /\ \/ \E s \in Strings(c) :
          /\ ClientReceives(c, s)
          /\ res' = [res EXCEPT ![c] = Append(@, s)]
          /\ pos' = [pos EXCEPT ![c] = @ + 1]
          /\ GoOn(c, "read")
     \/ ClientReceiveThrows(c) /\ Leave(c, "fail") /\ UNCHANGED <<res, pos>>
  /\ UNCHANGED <<daemonVars, sig, inp, up, there, refused>>

-----------------------------------------------------------------------------
(* The environment.                                                        *)

\* A client process is killed, perhaps in the middle of a string.
Kill(c) ==
  /\ cpc[c] \notin Done \cup {"new"}
  /\ Leave(c, "killed")
  /\ \/ UNCHANGED up
     \/ /\ cpc[c] \in {"go", "stop", "id", "ctx"}
        /\ there[c]
        /\ up' = [up EXCEPT ![c] = Append(@, Cut)]
  /\ UNCHANGED <<daemonVars, sig, inp, pos, res, down, there, refused>>

Signal ==
  /\ dpc \notin Ended
  /\ sig' = TRUE
  /\ UNCHANGED <<daemonVars, clientVars, connVars>>

-----------------------------------------------------------------------------

Daemon == \/ Accept \/ HandleSignal \/ First \/ SendCmdline \/ ReceiveContext
          \/ Work \/ Answer \/ Catch

Client(c) == \/ SendGo(c) \/ SendStop(c) \/ ReceiveCmdline(c) \/ ReadInput(c)
             \/ SendId(c) \/ SendContext(c) \/ ReceiveAnswer(c)

Next == \/ Daemon
        \/ Signal
        \/ \E c \in Clients : Connect(c) \/ Client(c) \/ Kill(c)

Spec == Init /\ [][Next]_vars

\* The system schedules its processes, and the input of a client is a file; nobody has to
\* connect, to be killed or to send a signal.
Fairness == WF_vars(Daemon) /\ \A c \in Clients : WF_vars(Client(c))

FairSpec == Spec /\ Fairness

-----------------------------------------------------------------------------
(* Properties.                                                             *)

StringSet == [str : {"go", "stop", "id", "cmdline", "annotations", "#", "error", "cut", ""}
                    \cup Kinds, ctx : Nat]

\* The type invariant, and the shape of the event loop: a connection is in the
\* backlog once, or served, or closed by the daemon.
TypeOK ==
  /\ dpc \in {"loop"} \cup Serving \cup Ended
  /\ cur \in Clients \cup {Nobody}
  /\ cur # Nobody <=> dpc \in Serving
  /\ hand \in StringSet
  /\ backlog \in Seq(Clients)
  /\ sig \in BOOLEAN
  /\ cpc \in [Clients -> {"new", "go", "stop", "cmd", "read", "id", "ctx", "answer"} \cup Done]
  /\ inp \in [Clients -> Inputs \cup {<<>>}]
  /\ pos \in [Clients -> Nat \ {0}]
  /\ up \in [Clients -> Seq(StringSet)]
  /\ down \in [Clients -> Seq(StringSet)]
  /\ here \in [Clients -> BOOLEAN]
  /\ there \in [Clients -> BOOLEAN]
  /\ refused \in [Clients -> BOOLEAN]
  /\ res \in [Clients -> Seq(StringSet)]
  /\ \A i, j \in DOMAIN backlog : backlog[i] = backlog[j] => i = j
  /\ \A c \in Clients :
       there[c] <=> c = cur \/ \E i \in DOMAIN backlog : backlog[i] = c

\* What a client takes for the answer to a context is the answer to that
\* context (or an error, or nothing), whatever became of the ones before.
AnswersAligned ==
  \A c \in Clients : \A j \in DOMAIN res[c] :
    res[c][j].str \in Answers =>
      /\ res[c][j].ctx = j
      /\ res[c][j].str = "#" <=> inp[c][j] = "none"

\* A client that returns true has all its answers, unless one of its contexts
\* was refused or the daemon has ended: it ignores that receive returned false.
CompleteOrBroken ==
  \A c \in Clients :
    cpc[c] = "ok" =>
      \/ \A j \in DOMAIN inp[c] : j \in DOMAIN res[c] /\ res[c][j].str \in Answers
      \/ \E j \in DOMAIN inp[c] : inp[c][j] \in NoSentence
      \/ dpc \in Ended

\* "accept malformed contexts, as we don't want the daemon to die" (ukb_wsd.cc), as
\* far as it is true: the daemon ends without being asked only after a client was
\* killed, or in the loop over a context whose end it has passed.  No other context
\* and no client that gives up brings it down.
DiesKilledOrOverrun ==
  dpc = "dead" => hand.str = "overrun" \/ \E c \in Clients : cpc[c] = "killed"

\* "send error and close the session. Note: the server is still alive for new
\* connections" (ukb_wsd.cc).  False of the code: that send may throw.
StillAlive == dpc # "dead"

\* A signal, or a "stop" that --shutdown has delivered, ends the daemon once
\* the sessions before it are over.
StopHonoured ==
  (sig \/ \E c \in Clients : cpc[c] = "ok" /\ Str("stop", 0) \in {up[c][i] : i \in DOMAIN up[c]})
    ~> dpc \in Ended

\* Every client that connected returns, whatever happens to the daemon and to
\* other clients: neither end waits for a string that the other does not send.
ClientsReturn ==
  \A c \in Clients : cpc[c] # "new" ~> cpc[c] \in Done

=============================================================================
