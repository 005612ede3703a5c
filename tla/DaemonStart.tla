---------------------------- MODULE DaemonStart -----------------------------
(***************************************************************************)
(* start_daemon (ukbServer.cc): how "ukb_wsd --daemon" becomes a daemon.   *)
(* The process the user started (the parent) binds the port, makes a pipe  *)
(* and forks; the child leaves the terminal and forks again; the           *)
(* grandchild is the daemon: it loads the graph and the dictionary, writes *)
(* "OK" or an error into the pipe and serves.  The parent waits at the     *)
(* other end of the pipe and turns what it reads into its exit status.     *)
(*                                                                         *)
(* Several users may start a daemon on the same port, and clients connect  *)
(* to the port from the moment it is bound: the listening socket is one    *)
(* object, inherited by both forks, that goes when the last of the three   *)
(* processes has gone.                                                     *)
(***************************************************************************)
EXTENDS Naturals, Sequences, FiniteSets

CONSTANTS Starters,  \* invocations of ukb_wsd --daemon, all with one port
          Clients,   \* invocations of ukb_wsd --client
          Nobody     \* no connection

ASSUME StartAssumption == Nobody \notin Starters

VARIABLES
  ppc,      \* the parent: "new", then the call it is at, "ok" (exit(0)), "fail" (exit(1))
  cpc,      \* the child: "none", "setup", "forked", "exited"
  dpc,      \* the daemon: "none", "setup", "load", "failed", "report", "serve", "gone"
  pipe,     \* what is in the pipe
  writers,  \* which of the three processes has its write end open
  loaded,   \* load_kb_dict has returned
  intr,     \* the parent's read was interrupted by a signal
  sig,      \* a signal waits for the daemon's io_service to run
  conn,     \* whose listening socket has the client's connection
  cst       \* the client: "new", "wait", "served", "refused"

parentVars == <<ppc, intr>>
childVars  == <<cpc>>
daemonVars == <<dpc, loaded, sig>>
pipeVars   == <<pipe, writers>>
clientVars == <<conn, cst>>
startVars == <<parentVars, childVars, daemonVars, pipeVars, clientVars>>

StartInit ==
  /\ ppc = [s \in Starters |-> "new"]
  /\ cpc = [s \in Starters |-> "none"]
  /\ dpc = [s \in Starters |-> "none"]
  /\ pipe = [s \in Starters |-> <<>>]
  /\ writers = [s \in Starters |-> {}]
  /\ loaded = [s \in Starters |-> FALSE]
  /\ intr = [s \in Starters |-> FALSE]
  /\ sig = [s \in Starters |-> FALSE]
  /\ conn = [c \in Clients |-> Nobody]
  /\ cst = [c \in Clients |-> "new"]

\* The processes that have start_daemon's listening socket.
ParentHolds(s) == ppc[s] \in {"pipe", "fork", "close", "read"}
ChildHolds(s)  == cpc[s] \in {"setup", "forked"}
DaemonHolds(s) == dpc[s] \notin {"none", "gone"}
Listening(s)   == ParentHolds(s) \/ ChildHolds(s) \/ DaemonHolds(s)

Drop(s, p) == writers' = [writers EXCEPT ![s] = @ \ {p}]
Write(s, m) == pipe' = [pipe EXCEPT ![s] = Append(@, m)]

\* The parent has the only read end of the pipe; once it has exited a write raises
\* SIGPIPE, which nobody handles.
Readable(s) == ppc[s] \notin {"ok", "fail"}

-----------------------------------------------------------------------------
(* The parent.                                                             *)

\* Mutant: the error of the bind is not looked at.
BindUnchecked(s) ==
  /\ ppc[s] = "new"
  /\ ppc' = [ppc EXCEPT ![s] = "pipe"]
  /\ UNCHANGED <<intr, childVars, daemonVars, pipeVars, clientVars>>

\* new sServer: the port is bound and listens, or the address is in use.
Bind(s) ==
  /\ ppc[s] = "new"
  /\ ppc' = [ppc EXCEPT ![s] = IF \E u \in Starters : Listening(u) THEN "fail" ELSE "pipe"]
  /\ UNCHANGED <<intr, childVars, daemonVars, pipeVars, clientVars>>

MakePipe(s) ==
  /\ ppc[s] = "pipe"
  /\ \E ok \in BOOLEAN : ppc' = [ppc EXCEPT ![s] = IF ok THEN "fork" ELSE "fail"]
  /\ UNCHANGED <<intr, childVars, daemonVars, pipeVars, clientVars>>

\* The first fork: the child has both ends of the pipe and the socket, too.
Fork(s) ==
  /\ ppc[s] = "fork"
  /\ \/ /\ ppc' = [ppc EXCEPT ![s] = "close"]
        /\ cpc' = [cpc EXCEPT ![s] = "setup"]
        /\ writers' = [writers EXCEPT ![s] = {"parent", "child"}]
     \/ ppc' = [ppc EXCEPT ![s] = "fail"] /\ UNCHANGED <<cpc, writers>>
  /\ UNCHANGED <<intr, daemonVars, pipe, clientVars>>

\* Mutant: the parent keeps its write end open.
ClosePipeNot(s) ==
  /\ ppc[s] = "close"
  /\ ppc' = [ppc EXCEPT ![s] = "read"]
  /\ UNCHANGED <<intr, childVars, daemonVars, pipeVars, clientVars>>

\* close(fd[1])
ClosePipe(s) ==
  /\ ppc[s] = "close"
  /\ ppc' = [ppc EXCEPT ![s] = "read"]
  /\ Drop(s, "parent")
  /\ UNCHANGED <<intr, childVars, daemonVars, pipe, clientVars>>

\* read, and strcmp("OK", buffer).  At the end of the file nbytes is 0 and the buffer
\* was never written: the comparison's result may be anything.
ReadPipe(s) ==
  /\ ppc[s] = "read"
  /\ \/ /\ pipe[s] # <<>>
        /\ ppc' = [ppc EXCEPT ![s] = IF Head(pipe[s]) = "OK" THEN "ok" ELSE "fail"]
        /\ pipe' = [pipe EXCEPT ![s] = <<>>]
     \/ /\ pipe[s] = <<>>
        /\ writers[s] = {}
        /\ \E same \in BOOLEAN : ppc' = [ppc EXCEPT ![s] = IF same THEN "ok" ELSE "fail"]
        /\ UNCHANGED pipe
  /\ UNCHANGED <<intr, childVars, daemonVars, writers, clientVars>>

\* The parent has the handlers of the signal_set, too: a signal ends the read
\* with nbytes = -1; the daemon goes on until it writes.
Interrupt(s) ==
  /\ ppc[s] = "read"
  /\ ppc' = [ppc EXCEPT ![s] = "fail"]
  /\ intr' = [intr EXCEPT ![s] = TRUE]
  /\ UNCHANGED <<childVars, daemonVars, pipeVars, clientVars>>

-----------------------------------------------------------------------------
(* The child.                                                              *)

ChildGone(s) == cpc' = [cpc EXCEPT ![s] = "exited"] /\ Drop(s, "child")

\* chdir("/") or the second fork fails: exit(1), and nobody tells the parent.
SetupFails(s) ==
  /\ cpc[s] = "setup"
  /\ ChildGone(s)
  /\ UNCHANGED <<parentVars, daemonVars, pipe, clientVars>>

\* The second fork.
ForkDaemon(s) ==
  /\ cpc[s] = "setup"
  /\ cpc' = [cpc EXCEPT ![s] = "forked"]
  /\ dpc' = [dpc EXCEPT ![s] = "setup"]
  /\ writers' = [writers EXCEPT ![s] = @ \cup {"daemon"}]
  /\ UNCHANGED <<parentVars, loaded, sig, pipe, clientVars>>

\* exit(0) of the child.
ChildExits(s) ==
  /\ cpc[s] = "forked"
  /\ ChildGone(s)
  /\ UNCHANGED <<parentVars, daemonVars, pipe, clientVars>>

-----------------------------------------------------------------------------
(* The daemon.                                                             *)

DaemonGone(s) == dpc' = [dpc EXCEPT ![s] = "gone"] /\ Drop(s, "daemon")

\* The standard streams are closed, and /dev/null opened or not.
CloseStreams(s) ==
  /\ dpc[s] = "setup"
  /\ \/ dpc' = [dpc EXCEPT ![s] = "load"] /\ UNCHANGED writers
     \/ DaemonGone(s)
  /\ UNCHANGED <<parentVars, childVars, loaded, sig, pipe, clientVars>>

\* Mutant: the daemon goes on after the exception.
LoadNoThrow(s) ==
  /\ dpc[s] = "load"
  /\ \/ /\ loaded' = [loaded EXCEPT ![s] = TRUE]
        /\ dpc' = [dpc EXCEPT ![s] = "report"]
        /\ UNCHANGED pipe
     \/ /\ Write(s, "error")
        /\ dpc' = [dpc EXCEPT ![s] = "report"]
        /\ UNCHANGED loaded
  /\ UNCHANGED <<parentVars, childVars, sig, writers, clientVars>>

\* load_kb_dict returns, or throws: the message goes into the pipe, and the exception on
\* to the handler of start_daemon.
Load(s) ==
  /\ dpc[s] = "load"
  /\ \/ /\ loaded' = [loaded EXCEPT ![s] = TRUE]
        /\ dpc' = [dpc EXCEPT ![s] = "report"]
        /\ UNCHANGED pipeVars
     \/ /\ Readable(s)
        /\ Write(s, "error")
        /\ dpc' = [dpc EXCEPT ![s] = "failed"]
        /\ UNCHANGED <<loaded, writers>>
     \/ /\ ~ Readable(s)
        /\ DaemonGone(s)
        /\ UNCHANGED <<loaded, pipe>>
  /\ UNCHANGED <<parentVars, childVars, sig, clientVars>>

\* The process is killed while it loads (a graph may not fit into the memory).
KilledLoading(s) ==
  /\ dpc[s] = "load"
  /\ DaemonGone(s)
  /\ UNCHANGED <<parentVars, childVars, loaded, sig, pipe, clientVars>>

\* "OK" is written and the pipe closed; io_service::run.
Report(s) ==
  /\ dpc[s] = "report"
  /\ \/ /\ Readable(s)
        /\ Write(s, "OK")
        /\ Drop(s, "daemon")
        /\ dpc' = [dpc EXCEPT ![s] = "serve"]
     \/ /\ ~ Readable(s)
        /\ DaemonGone(s)
        /\ UNCHANGED pipe
  /\ UNCHANGED <<parentVars, childVars, loaded, sig, clientVars>>

\* delete server; return 0
Finish(s) ==
  /\ dpc[s] = "failed"
  /\ DaemonGone(s)
  /\ UNCHANGED <<parentVars, childVars, loaded, sig, pipe, clientVars>>

\* Mutant: a signal is taken and forgotten.
StopForgets(s) ==
  /\ dpc[s] = "serve"
  /\ sig[s]
  /\ sig' = [sig EXCEPT ![s] = FALSE]
  /\ UNCHANGED <<parentVars, childVars, dpc, loaded, pipeVars, clientVars>>

\* The handler of a signal runs in io_service::run only.
Stop(s) ==
  /\ dpc[s] = "serve"
  /\ sig[s]
  /\ DaemonGone(s)
  /\ UNCHANGED <<parentVars, childVars, loaded, sig, pipe, clientVars>>

\* Mutant: the session is served and the next one never accepted.
AcceptOnce(s) ==
  /\ dpc[s] = "serve"
  /\ \E c \in Clients : /\ conn[c] = s
                       /\ cst[c] = "wait"
                       /\ \A d \in Clients : cst[d] # "served"
                       /\ cst' = [cst EXCEPT ![c] = "served"]
  /\ UNCHANGED <<parentVars, childVars, daemonVars, pipeVars, conn>>

\* A session (UkbDaemon has its steps).
Accept(s) ==
  /\ dpc[s] = "serve"
  /\ \E c \in Clients : /\ conn[c] = s
                       /\ cst[c] = "wait"
                       /\ cst' = [cst EXCEPT ![c] = "served"]
  /\ UNCHANGED <<parentVars, childVars, daemonVars, pipeVars, conn>>

-----------------------------------------------------------------------------
(* Signals and clients.                                                    *)

Signal(s) ==
  /\ dpc[s] \in {"load", "report", "serve"}
  /\ sig' = [sig EXCEPT ![s] = TRUE]
  /\ UNCHANGED <<parentVars, childVars, dpc, loaded, pipeVars, clientVars>>

\* The kernel accepts a connection as soon as the port is bound.
Connect(c) ==
  /\ cst[c] = "new"
  /\ \/ \E s \in Starters : /\ Listening(s)
                            /\ conn' = [conn EXCEPT ![c] = s]
                            /\ cst' = [cst EXCEPT ![c] = "wait"]
     \/ /\ \A s \in Starters : ~ Listening(s)
        /\ cst' = [cst EXCEPT ![c] = "refused"]
        /\ UNCHANGED conn
  /\ UNCHANGED <<parentVars, childVars, daemonVars, pipeVars>>

\* With the last process the socket goes, and the connections in it are reset.
Reset(c) ==
  /\ cst[c] = "wait"
  /\ ~ Listening(conn[c])
  /\ cst' = [cst EXCEPT ![c] = "refused"]
  /\ UNCHANGED <<parentVars, childVars, daemonVars, pipeVars, conn>>

-----------------------------------------------------------------------------

Parent(s) == Bind(s) \/ MakePipe(s) \/ Fork(s) \/ ClosePipe(s) \/ ReadPipe(s)
Child(s)  == SetupFails(s) \/ ForkDaemon(s) \/ ChildExits(s)
Daemon(s) == CloseStreams(s) \/ Load(s) \/ Report(s) \/ Finish(s) \/ Stop(s)

StartNext ==
  \/ \E s \in Starters : \/ Parent(s) \/ Child(s) \/ Daemon(s) \/ Accept(s)
                         \/ Interrupt(s) \/ KilledLoading(s) \/ Signal(s)
  \/ \E c \in Clients : Connect(c) \/ Reset(c)

StartSpec == StartInit /\ [][StartNext]_startVars

\* The system runs its processes, resets connections, and the daemon accepts them;
\* nobody has to start a daemon, to connect or to send a signal.  (Bind is weakly fair with the
\* rest of the parent: an invocation is a process from the beginning.)
StartFairness ==
  /\ \A s \in Starters : /\ WF_startVars(Parent(s))
                         /\ WF_startVars(Child(s))
                         /\ WF_startVars(Daemon(s))
                         /\ WF_startVars(Accept(s))
  /\ \A c \in Clients : WF_startVars(Reset(c))

StartFairSpec == StartSpec /\ StartFairness

-----------------------------------------------------------------------------
(* Properties.                                                             *)

\* The type invariant; a process has its write end of the pipe open from the fork
\* that made it to its close or its end.
StartTypeOK ==
  /\ ppc \in [Starters -> {"new", "pipe", "fork", "close", "read", "ok", "fail"}]
  /\ cpc \in [Starters -> {"none", "setup", "forked", "exited"}]
  /\ dpc \in [Starters -> {"none", "setup", "load", "failed", "report", "serve", "gone"}]
  /\ pipe \in [Starters -> Seq({"OK", "error"})]
  /\ writers \in [Starters -> SUBSET {"parent", "child", "daemon"}]
  /\ loaded \in [Starters -> BOOLEAN]
  /\ intr \in [Starters -> BOOLEAN]
  /\ sig \in [Starters -> BOOLEAN]
  /\ conn \in [Clients -> Starters \cup {Nobody}]
  /\ cst \in [Clients -> {"new", "wait", "served", "refused"}]
  /\ \A s \in Starters :
       /\ "parent" \in writers[s] <=> ppc[s] = "close"
       /\ "child" \in writers[s] <=> ChildHolds(s)
       /\ "daemon" \in writers[s] <=> dpc[s] \in {"setup", "load", "failed", "report"}

\* "it does not return the control to the user until the KB and dictionary are
\* loaded into memory" (README): exit status 0 means loaded, but for daemons that ended
\* before they could write to the pipe (the buffer the parent compares was never written).
ReadyUnlessSilent ==
  \A s \in Starters : ppc[s] = "ok" =>
    \/ loaded[s]
    \/ dpc[s] \in {"none", "gone"} /\ cpc[s] = "exited"

\* A start that has failed leaves no daemon behind that serves, or will, unless the user
\* interrupted it: error messages and connections agree.
FailureLeavesNothing ==
  \A s \in Starters : ppc[s] = "fail" /\ ~ intr[s] => dpc[s] \in {"none", "failed", "gone"}

\* What the user is told is true, of success and of failure.
ExitStatusTrue == ReadyUnlessSilent /\ FailureLeavesNothing

\* One port, one daemon: of several starts at most one has a daemon, and a
\* client's connection never changes hands.
OneDaemon ==
  \A s, u \in Starters : DaemonHolds(s) /\ Listening(u) => s = u

\* The user gets the terminal back: however the processes behind the pipe end,
\* the parent's read does.
StartReturns == \A s \in Starters : <>(ppc[s] \in {"ok", "fail"})

\* A client that connected while the daemon was starting is served once it
\* serves, or refused when it gives up; it does not wait for ever.
ConnectedEarly == \A c \in Clients : cst[c] = "wait" ~> cst[c] \in {"served", "refused"}

\* A signal that comes while the daemon loads is not lost: the daemon ends.
SignalNotLost == \A s \in Starters : sig[s] ~> dpc[s] = "gone"

=============================================================================
