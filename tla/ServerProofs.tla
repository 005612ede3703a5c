---------------------------- MODULE ServerProofs ----------------------------
(***************************************************************************)
(* Proofs about the two layers that a session of the UKB daemon rests on:  *)
(* its start (DaemonStart), for every number of starts and of clients, and *)
(* its string protocol (SocketProtocol), for any strings, base, buffer and *)
(* network.                                                                *)
(*                                                                         *)
(* Start: the type invariant, what an exit status of the parent says about *)
(* the daemon, and that one port has one daemon.  The inductive invariant  *)
(* relates the pipe to the daemon that writes into it (Told), the three    *)
(* processes of a start to each other (Family), what the parent has        *)
(* concluded to what is left (Concluded), and says that the listening      *)
(* socket belongs to one start (OnePort).                                  *)
(*                                                                         *)
(* Strings: the type invariant, and that the two ends implement the        *)
(* channel of strings.  The inductive invariant speaks of all the strings  *)
(* S that were begun, of the bytes T that stand for them and the places    *)
(* off[i] at which they end, and of the place p that the receiver has come *)
(* to: what is in hand, in the buffer, on its way and still to be written  *)
(* are pieces of T, one behind the other, and the rest is lost.  Places do *)
(* for all strings what would otherwise be an induction over them.         *)
(***************************************************************************)
EXTENDS DaemonStart, SocketProtocol, SequenceTheorems, TLAPS

-----------------------------------------------------------------------------
(* The start of the daemon.                                                *)

\* The pipe has at most the one message the daemon wrote when it stopped loading.
ToldBy(s) ==
  /\ pipe[s] \in {<<>>, <<"OK">>, <<"error">>}
  /\ dpc[s] \in {"none", "setup", "load", "report"} => pipe[s] = <<>>
  /\ pipe[s] = <<"OK">> => loaded[s]
  /\ pipe[s] = <<"error">> => dpc[s] \in {"failed", "gone"}
  /\ dpc[s] \in {"report", "serve"} => loaded[s]
  /\ ppc[s] \in {"new", "pipe", "fork", "close", "read"} /\ dpc[s] = "serve" => pipe[s] = <<"OK">>

Told == \A s \in Starters : ToldBy(s)

\* A process is there only if the one that forks it has come that far.
FamilyOf(s) ==
  /\ ppc[s] \in {"new", "pipe", "fork"} => cpc[s] = "none"
  /\ ppc[s] \in {"close", "read", "ok"} => cpc[s] # "none"
  /\ cpc[s] \in {"none", "setup"} => dpc[s] = "none"

Family == \A s \in Starters : FamilyOf(s)

\* Without a message there is no daemon, and none to come.
Silent(s) == dpc[s] = "gone" \/ (dpc[s] = "none" /\ cpc[s] \in {"none", "exited"})

ConcludedBy(s) ==
  /\ ppc[s] = "ok" => loaded[s] \/ (cpc[s] = "exited" /\ Silent(s))
  /\ ppc[s] = "fail" /\ ~ intr[s] => dpc[s] = "failed" \/ Silent(s)

Concluded == \A s \in Starters : ConcludedBy(s)

OnePort == \A s, u \in Starters : Listening(s) /\ Listening(u) => s = u

StartIInv == StartTypeOK /\ Told /\ Family /\ Concluded /\ OnePort

-----------------------------------------------------------------------------

\* The initial states satisfy the inductive invariant.
LEMMA StartBegins == StartInit => StartIInv
<1> SUFFICES ASSUME StartInit PROVE StartIInv
    OBVIOUS
<1>1. StartTypeOK
  BY DEF StartInit, StartTypeOK, ChildHolds
<1>2. Told
  BY DEF StartInit, Told, ToldBy
<1>3. Family
  BY DEF StartInit, Family, FamilyOf
<1>4. Concluded
  BY DEF StartInit, Concluded, ConcludedBy, Silent
<1>5. OnePort
  BY DEF StartInit, OnePort, Listening, ParentHolds, ChildHolds, DaemonHolds
<1> QED BY <1>1, <1>2, <1>3, <1>4, <1>5 DEF StartIInv

\* A message that is written into an empty pipe is all that is in it.
LEMMA OneMessage == \A m : Append(<<>>, m) = <<m>> /\ <<m>> # <<>>
OBVIOUS

\* A message of the daemon's is a message.
LEMMA WriteTyped ==
  ASSUME pipe \in [Starters -> Seq({"OK", "error"})],
         NEW s \in Starters, NEW m \in {"OK", "error"}, Write(s, m)
  PROVE  pipe' \in [Starters -> Seq({"OK", "error"})]
<1>1. pipe[s] \in Seq({"OK", "error"})
  OBVIOUS
<1>2. Append(pipe[s], m) \in Seq({"OK", "error"})
  BY <1>1
<1> QED BY <1>2 DEF Write

\* A step of the parent keeps the types.
LEMMA ParentTypeOK ==
  ASSUME StartTypeOK, Family, NEW s \in Starters, Parent(s) \/ Interrupt(s) PROVE StartTypeOK'
<1>1. CASE Bind(s)
  BY <1>1 DEF StartTypeOK, Bind, ChildHolds, childVars, daemonVars, pipeVars, clientVars
<1>2. CASE MakePipe(s)
  BY <1>2 DEF StartTypeOK, MakePipe, ChildHolds, childVars, daemonVars, pipeVars, clientVars
<1>3. CASE Fork(s)
  <2>1. dpc[s] = "none"
    BY <1>3 DEF Fork, Family, FamilyOf
  <2>2. CASE ppc' = [ppc EXCEPT ![s] = "fail"] /\ UNCHANGED <<cpc, writers>>
    BY <1>3, <2>2 DEF StartTypeOK, Fork, ChildHolds, daemonVars, clientVars
  <2>3. CASE /\ ppc' = [ppc EXCEPT ![s] = "close"]
             /\ cpc' = [cpc EXCEPT ![s] = "setup"]
             /\ writers' = [writers EXCEPT ![s] = {"parent", "child"}]
    <3>1. UNCHANGED <<intr, dpc, loaded, sig, pipe, conn, cst>>
      BY <1>3 DEF Fork, daemonVars, clientVars
    <3>2. /\ ppc' \in [Starters -> {"new", "pipe", "fork", "close", "read", "ok", "fail"}]
          /\ cpc' \in [Starters -> {"none", "setup", "forked", "exited"}]
          /\ writers' \in [Starters -> SUBSET {"parent", "child", "daemon"}]
      BY <2>3 DEF StartTypeOK
    <3>3. \A u \in Starters :
            /\ "parent" \in writers'[u] <=> ppc'[u] = "close"
            /\ "child" \in writers'[u] <=> ChildHolds(u)'
            /\ "daemon" \in writers'[u] <=> dpc[u] \in {"setup", "load", "failed", "report"}
      BY <2>1, <2>3 DEF StartTypeOK, ChildHolds
    <3> QED BY <3>1, <3>2, <3>3 DEF StartTypeOK
  <2> QED BY <1>3, <2>2, <2>3 DEF Fork
<1>4. CASE ClosePipe(s)
  BY <1>4 DEF StartTypeOK, ClosePipe, Drop, ChildHolds, childVars, daemonVars, clientVars
<1>5. CASE ReadPipe(s)
  <2>1. pipe' \in [Starters -> Seq({"OK", "error"})]
    <3>1. <<>> \in Seq({"OK", "error"})
      OBVIOUS
    <3>2. pipe' = [pipe EXCEPT ![s] = <<>>] \/ UNCHANGED pipe
      BY <1>5 DEF ReadPipe
    <3> QED BY <3>1, <3>2 DEF StartTypeOK
  <2>2. ppc' \in [Starters -> {"new", "pipe", "fork", "close", "read", "ok", "fail"}]
    BY <1>5 DEF StartTypeOK, ReadPipe
  <2>3. \A u \in Starters : ppc'[u] = "close" <=> ppc[u] = "close"
    BY <1>5 DEF StartTypeOK, ReadPipe
  <2> QED BY <1>5, <2>1, <2>2, <2>3
          DEF StartTypeOK, ReadPipe, ChildHolds, childVars, daemonVars, clientVars
<1>6. CASE Interrupt(s)
  BY <1>6 DEF StartTypeOK, Interrupt, ChildHolds, childVars, daemonVars, pipeVars, clientVars
<1> QED BY <1>1, <1>2, <1>3, <1>4, <1>5, <1>6 DEF Parent

\* A step of the child keeps the types.
LEMMA ChildTypeOK ==
  ASSUME StartTypeOK, NEW s \in Starters, Child(s) PROVE StartTypeOK'
<1>1. CASE SetupFails(s)
  BY <1>1 DEF StartTypeOK, SetupFails, ChildGone, Drop, ChildHolds, parentVars, daemonVars, clientVars
<1>2. CASE ForkDaemon(s)
  BY <1>2 DEF StartTypeOK, ForkDaemon, ChildHolds, parentVars, clientVars
<1>3. CASE ChildExits(s)
  BY <1>3 DEF StartTypeOK, ChildExits, ChildGone, Drop, ChildHolds, parentVars, daemonVars, clientVars
<1> QED BY <1>1, <1>2, <1>3 DEF Child

\* A step of the daemon, or one that happens to it, keeps the types.
LEMMA DaemonTypeOK ==
  ASSUME StartTypeOK, NEW s \in Starters,
         Daemon(s) \/ Accept(s) \/ KilledLoading(s) \/ Signal(s)
  PROVE  StartTypeOK'
<1>1. CASE CloseStreams(s)
  <2> UNCHANGED <<ppc, intr, cpc, loaded, sig, pipe, conn, cst>>
    BY <1>1 DEF CloseStreams, parentVars, childVars, clientVars
  <2>1. CASE dpc' = [dpc EXCEPT ![s] = "load"] /\ UNCHANGED writers
    BY <1>1, <2>1 DEF StartTypeOK, CloseStreams, ChildHolds
  <2>2. CASE DaemonGone(s)
    BY <1>1, <2>2 DEF StartTypeOK, CloseStreams, DaemonGone, Drop, ChildHolds
  <2> QED BY <1>1, <2>1, <2>2 DEF CloseStreams
<1>g. ASSUME dpc[s] \in {"load", "report"}, DaemonGone(s), UNCHANGED <<loaded, pipe>>,
             UNCHANGED <<parentVars, childVars, sig, clientVars>>
      PROVE  StartTypeOK'
  BY <1>g DEF StartTypeOK, DaemonGone, Drop, ChildHolds, parentVars, childVars, clientVars
<1>2. CASE Load(s)
  <2> dpc[s] = "load" /\ UNCHANGED <<parentVars, childVars, sig, clientVars>>
    BY <1>2 DEF Load
  <2>1. CASE /\ loaded' = [loaded EXCEPT ![s] = TRUE] /\ UNCHANGED pipeVars
             /\ dpc' = [dpc EXCEPT ![s] = "report"]
    BY <2>1 DEF StartTypeOK, ChildHolds, parentVars, childVars, clientVars, pipeVars
  <2>2. CASE /\ Write(s, "error") /\ UNCHANGED <<loaded, writers>>
             /\ dpc' = [dpc EXCEPT ![s] = "failed"]
    <3>1. pipe' \in [Starters -> Seq({"OK", "error"})]
      BY <2>2, WriteTyped DEF StartTypeOK
    <3> QED BY <2>2, <3>1 DEF StartTypeOK, ChildHolds, parentVars, childVars, clientVars
  <2>3. CASE DaemonGone(s) /\ UNCHANGED <<loaded, pipe>>
    BY <1>g, <2>3
  <2> QED BY <1>2, <2>1, <2>2, <2>3 DEF Load
<1>3. CASE Report(s)
  <2> dpc[s] = "report" /\ UNCHANGED <<parentVars, childVars, loaded, sig, clientVars>>
    BY <1>3 DEF Report
  <2>1. CASE Write(s, "OK") /\ Drop(s, "daemon") /\ dpc' = [dpc EXCEPT ![s] = "serve"]
    <3>1. pipe' \in [Starters -> Seq({"OK", "error"})]
      BY <2>1, WriteTyped DEF StartTypeOK
    <3> QED BY <2>1, <3>1 DEF StartTypeOK, Drop, ChildHolds, parentVars, childVars, clientVars
  <2>2. CASE DaemonGone(s) /\ UNCHANGED pipe
    BY <1>g, <2>2
  <2> QED BY <1>3, <2>1, <2>2 DEF Report
<1>4. CASE Finish(s)
  BY <1>4 DEF StartTypeOK, Finish, DaemonGone, Drop, ChildHolds, parentVars, childVars, clientVars
<1>5. CASE Stop(s)
  BY <1>5 DEF StartTypeOK, Stop, DaemonGone, Drop, ChildHolds, parentVars, childVars, clientVars
<1>6. CASE Accept(s)
  BY <1>6 DEF StartTypeOK, Accept, ChildHolds, parentVars, childVars, daemonVars, pipeVars
<1>7. CASE KilledLoading(s)
  BY <1>7 DEF StartTypeOK, KilledLoading, DaemonGone, Drop, ChildHolds, parentVars, childVars, clientVars
<1>8. CASE Signal(s)
  BY <1>8 DEF StartTypeOK, Signal, ChildHolds, parentVars, childVars, pipeVars, clientVars
<1> QED BY <1>1, <1>2, <1>3, <1>4, <1>5, <1>6, <1>7, <1>8 DEF Daemon

\* A step of a client keeps the types.
LEMMA ClientTypeOK ==
  ASSUME StartTypeOK, NEW c \in Clients, Connect(c) \/ Reset(c) PROVE StartTypeOK'
<1>1. CASE Connect(c)
  <2>1. /\ conn' \in [Clients -> Starters \cup {Nobody}]
        /\ cst' \in [Clients -> {"new", "wait", "served", "refused"}]
    <3>1. CASE \E s \in Starters : /\ conn' = [conn EXCEPT ![c] = s]
                                   /\ cst' = [cst EXCEPT ![c] = "wait"]
      BY <3>1 DEF StartTypeOK
    <3>2. CASE cst' = [cst EXCEPT ![c] = "refused"] /\ UNCHANGED conn
      BY <3>2 DEF StartTypeOK
    <3> QED BY <1>1, <3>1, <3>2 DEF Connect
  <2>2. UNCHANGED <<ppc, intr, cpc, dpc, loaded, sig, pipe, writers>>
    BY <1>1 DEF Connect, parentVars, childVars, daemonVars, pipeVars
  <2> QED BY <2>1, <2>2 DEF StartTypeOK, ChildHolds
<1>2. CASE Reset(c)
  BY <1>2 DEF StartTypeOK, Reset, ChildHolds, parentVars, childVars, daemonVars, pipeVars
<1> QED BY <1>1, <1>2

-----------------------------------------------------------------------------

\* What the parent does leaves pipe, daemon and conclusions in order.
LEMMA ParentIInv ==
  ASSUME StartIInv, NEW s \in Starters, Parent(s) \/ Interrupt(s)
  PROVE  Told' /\ Family' /\ Concluded'
<1> USE DEF StartIInv, StartTypeOK
<1> SUFFICES ASSUME NEW u \in Starters PROVE (ToldBy(u) /\ FamilyOf(u) /\ ConcludedBy(u))'
    BY DEF Told, Family, Concluded
<1>0. ToldBy(u) /\ FamilyOf(u) /\ ConcludedBy(u)
  BY DEF Told, Family, Concluded
<1>1. CASE Bind(s)
  BY <1>0, <1>1 DEF Bind, ToldBy, FamilyOf, ConcludedBy, Silent, childVars, daemonVars, pipeVars
<1>2. CASE MakePipe(s)
  BY <1>0, <1>2 DEF MakePipe, ToldBy, FamilyOf, ConcludedBy, Silent, childVars, daemonVars, pipeVars
<1>3. CASE Fork(s)
  BY <1>0, <1>3 DEF Fork, ToldBy, FamilyOf, ConcludedBy, Silent, daemonVars
<1>4. CASE ClosePipe(s)
  BY <1>0, <1>4 DEF ClosePipe, ToldBy, FamilyOf, ConcludedBy, Silent, childVars, daemonVars
<1>5. CASE ReadPipe(s)
  <2> UNCHANGED <<intr, cpc, dpc, loaded>>
    BY <1>5 DEF ReadPipe, childVars, daemonVars
  <2>1. CASE u # s
    BY <1>0, <1>5, <2>1 DEF ReadPipe, ToldBy, FamilyOf, ConcludedBy, Silent
  <2>2. CASE u = s /\ pipe[s] # <<>>
    <3>1. pipe[s] = <<"OK">> => ppc'[s] = "ok" /\ loaded[s]
      BY <1>0, <1>5, <2>2 DEF ReadPipe, ToldBy
    <3>2. pipe[s] = <<"error">> => ppc'[s] = "fail" /\ (Silent(s) \/ dpc[s] = "failed")
      BY <1>0, <1>5, <2>2 DEF ReadPipe, ToldBy, Silent
    <3> QED BY <1>0, <1>5, <2>2, <3>1, <3>2 DEF ReadPipe, ToldBy, FamilyOf, ConcludedBy, Silent
  <2>3. CASE u = s /\ pipe[s] = <<>>
    <3>1. cpc[s] = "exited"
      BY <1>0, <1>5, <2>3 DEF ReadPipe, FamilyOf, ChildHolds
    <3>2. Silent(s)
      BY <1>0, <1>5, <2>3, <3>1 DEF ReadPipe, ToldBy, Silent
    <3> QED BY <1>0, <1>5, <2>3, <3>1, <3>2 DEF ReadPipe, ToldBy, FamilyOf, ConcludedBy, Silent
  <2> QED BY <2>1, <2>2, <2>3
<1>6. CASE Interrupt(s)
  BY <1>0, <1>6 DEF Interrupt, ToldBy, FamilyOf, ConcludedBy, Silent, childVars, daemonVars, pipeVars
<1> QED BY <1>1, <1>2, <1>3, <1>4, <1>5, <1>6 DEF Parent

\* So does what the child does.
LEMMA ChildIInv ==
  ASSUME StartIInv, NEW s \in Starters, Child(s)
  PROVE  Told' /\ Family' /\ Concluded'
<1> USE DEF StartIInv, StartTypeOK
<1> SUFFICES ASSUME NEW u \in Starters PROVE (ToldBy(u) /\ FamilyOf(u) /\ ConcludedBy(u))'
    BY DEF Told, Family, Concluded
<1>0. ToldBy(u) /\ FamilyOf(u) /\ ConcludedBy(u)
  BY DEF Told, Family, Concluded
<1>1. CASE SetupFails(s)
  BY <1>0, <1>1 DEF SetupFails, ChildGone, ToldBy, FamilyOf, ConcludedBy, Silent, parentVars, daemonVars
<1>2. CASE ForkDaemon(s)
  BY <1>0, <1>2 DEF ForkDaemon, ToldBy, FamilyOf, ConcludedBy, Silent, parentVars
<1>3. CASE ChildExits(s)
  BY <1>0, <1>3 DEF ChildExits, ChildGone, ToldBy, FamilyOf, ConcludedBy, Silent, parentVars, daemonVars
<1> QED BY <1>1, <1>2, <1>3 DEF Child

\* And what the daemon does.
LEMMA DaemonIInv ==
  ASSUME StartIInv, NEW s \in Starters,
         Daemon(s) \/ Accept(s) \/ KilledLoading(s) \/ Signal(s)
  PROVE  Told' /\ Family' /\ Concluded'
<1> USE DEF StartIInv, StartTypeOK
<1> SUFFICES ASSUME NEW u \in Starters PROVE (ToldBy(u) /\ FamilyOf(u) /\ ConcludedBy(u))'
    BY DEF Told, Family, Concluded
<1>0. ToldBy(u) /\ FamilyOf(u) /\ ConcludedBy(u)
  BY DEF Told, Family, Concluded
<1>1. CASE CloseStreams(s)
  BY <1>0, <1>1 DEF CloseStreams, DaemonGone, ToldBy, FamilyOf, ConcludedBy, Silent, parentVars, childVars
<1>g. ASSUME DaemonGone(s), UNCHANGED <<parentVars, childVars, pipe>>,
             dpc[s] \in {"load", "report"}, ~ Readable(s), loaded' = loaded
      PROVE  (ToldBy(u) /\ FamilyOf(u) /\ ConcludedBy(u))'
  BY <1>0, <1>g DEF DaemonGone, Readable, ToldBy, FamilyOf, ConcludedBy, Silent, parentVars, childVars
<1>2. CASE Load(s)
  <2> dpc[s] = "load" /\ UNCHANGED <<ppc, intr, cpc>>
    BY <1>2 DEF Load, parentVars, childVars
  <2>1. CASE /\ loaded' = [loaded EXCEPT ![s] = TRUE] /\ UNCHANGED pipe
             /\ dpc' = [dpc EXCEPT ![s] = "report"]
    BY <1>0, <2>1 DEF ToldBy, FamilyOf, ConcludedBy, Silent
  <2>2. CASE /\ Write(s, "error") /\ UNCHANGED loaded
             /\ dpc' = [dpc EXCEPT ![s] = "failed"]
    <3>1. CASE u # s
      BY <1>0, <2>2, <3>1 DEF Write, ToldBy, FamilyOf, ConcludedBy, Silent
    <3>2. CASE u = s
      <4>1. pipe[s] = <<>>
        BY <1>0, <2>2, <3>2 DEF ToldBy
      <4>2. pipe'[s] = <<"error">>
        BY <2>2, <4>1, OneMessage DEF Write
      <4> QED BY <1>0, <2>2, <3>2, <4>2 DEF ToldBy, FamilyOf, ConcludedBy, Silent
    <3> QED BY <3>1, <3>2
  <2> QED BY <1>2, <1>g, <2>1, <2>2 DEF Load, pipeVars
<1>3. CASE Report(s)
  <2> dpc[s] = "report" /\ UNCHANGED <<ppc, intr, cpc, loaded>>
    BY <1>3 DEF Report, parentVars, childVars
  <2>1. CASE Write(s, "OK") /\ dpc' = [dpc EXCEPT ![s] = "serve"]
    <3>1. CASE u # s
      BY <1>0, <2>1, <3>1 DEF Write, ToldBy, FamilyOf, ConcludedBy, Silent
    <3>2. CASE u = s
      <4>1. pipe[s] = <<>>
        BY <1>0, <2>1, <3>2 DEF ToldBy
      <4>2. pipe'[s] = <<"OK">>
        BY <2>1, <4>1, OneMessage DEF Write
      <4> QED BY <1>0, <2>1, <3>2, <4>2 DEF ToldBy, FamilyOf, ConcludedBy, Silent
    <3> QED BY <3>1, <3>2
  <2> QED BY <1>3, <1>g, <2>1 DEF Report
<1>4. CASE Finish(s)
  BY <1>0, <1>4 DEF Finish, DaemonGone, ToldBy, FamilyOf, ConcludedBy, Silent, parentVars, childVars
<1>5. CASE Stop(s)
  BY <1>0, <1>5 DEF Stop, DaemonGone, ToldBy, FamilyOf, ConcludedBy, Silent, parentVars, childVars
<1>6. CASE Accept(s)
  BY <1>0, <1>6 DEF Accept, ToldBy, FamilyOf, ConcludedBy, Silent, parentVars, childVars, daemonVars, pipeVars
<1>7. CASE KilledLoading(s)
  BY <1>0, <1>7 DEF KilledLoading, DaemonGone, ToldBy, FamilyOf, ConcludedBy, Silent, parentVars, childVars
<1>8. CASE Signal(s)
  BY <1>0, <1>8 DEF Signal, ToldBy, FamilyOf, ConcludedBy, Silent, parentVars, childVars, pipeVars
<1> QED BY <1>1, <1>2, <1>3, <1>4, <1>5, <1>6, <1>7, <1>8 DEF Daemon

-----------------------------------------------------------------------------

\* No step but a bind makes a start listen that did not.
LEMMA OnlyBindListens ==
  ASSUME StartIInv, NEW s \in Starters, NEW u \in Starters,
         \/ Parent(s) /\ ~ Bind(s)
         \/ Interrupt(s) \/ Child(s)
         \/ Daemon(s) \/ Accept(s) \/ KilledLoading(s) \/ Signal(s),
         Listening(u)'
  PROVE  Listening(u)
<1> USE DEF StartIInv, StartTypeOK, Listening, ParentHolds, ChildHolds, DaemonHolds
<1>1. CASE Parent(s) /\ ~ Bind(s)
  BY <1>1 DEF Parent, MakePipe, Fork, ClosePipe, ReadPipe, childVars, daemonVars
<1>2. CASE Interrupt(s)
  BY <1>2 DEF Interrupt, childVars, daemonVars
<1>3. CASE Child(s)
  BY <1>3 DEF Child, SetupFails, ForkDaemon, ChildExits, ChildGone, parentVars, daemonVars
<1>4. CASE Daemon(s)
  BY <1>4 DEF Daemon, CloseStreams, Load, Report, Finish, Stop, DaemonGone, parentVars, childVars
<1>5. CASE Accept(s) \/ KilledLoading(s) \/ Signal(s)
  BY <1>5 DEF Accept, KilledLoading, Signal, DaemonGone, parentVars, childVars, daemonVars
<1> QED BY <1>1, <1>2, <1>3, <1>4, <1>5

\* A bind finds the port free, and then nobody else listens.
LEMMA BindOnePort ==
  ASSUME StartIInv, NEW s \in Starters, Bind(s) PROVE OnePort'
<1>1. \A u \in Starters : u # s => (Listening(u)' <=> Listening(u))
  BY DEF Bind, Listening, ParentHolds, ChildHolds, DaemonHolds, childVars, daemonVars
<1>2. CASE \E u \in Starters : Listening(u)
  <2>1. ppc'[s] = "fail" /\ UNCHANGED <<cpc, dpc>> /\ ppc[s] = "new"
    BY <1>2 DEF StartIInv, StartTypeOK, Bind, childVars, daemonVars
  <2>2. Listening(s)' => Listening(s)
    BY <2>1 DEF Listening, ParentHolds, ChildHolds, DaemonHolds
  <2> QED BY <1>1, <2>2 DEF StartIInv, OnePort
<1>3. CASE \A u \in Starters : ~ Listening(u)
  BY <1>1, <1>3 DEF OnePort
<1> QED BY <1>2, <1>3

\* A step keeps the inductive invariant.
LEMMA StartKept == StartIInv /\ [StartNext]_startVars => StartIInv'
<1> SUFFICES ASSUME StartIInv, [StartNext]_startVars PROVE StartIInv'
    OBVIOUS
<1>1. CASE UNCHANGED startVars
  BY <1>1 DEF StartIInv, StartTypeOK, Told, ToldBy, Family, FamilyOf, Concluded, ConcludedBy, Silent,
     OnePort, Listening, ParentHolds, ChildHolds, DaemonHolds, startVars, parentVars,
     childVars, daemonVars, pipeVars, clientVars
<1>2. ASSUME NEW c \in Clients, Connect(c) \/ Reset(c) PROVE StartIInv'
  <2>1. UNCHANGED <<parentVars, childVars, daemonVars, pipeVars>>
    BY <1>2 DEF Connect, Reset
  <2>2. StartTypeOK'
    BY <1>2, ClientTypeOK DEF StartIInv
  <2> QED BY <2>1, <2>2 DEF StartIInv, Told, ToldBy, Family, FamilyOf, Concluded, ConcludedBy,
         Silent, OnePort, Listening, ParentHolds, ChildHolds, DaemonHolds, parentVars,
         childVars, daemonVars, pipeVars
<1>3. ASSUME NEW s \in Starters,
             \/ Parent(s) \/ Child(s) \/ Daemon(s) \/ Accept(s)
             \/ Interrupt(s) \/ KilledLoading(s) \/ Signal(s)
      PROVE  StartIInv'
  <2>1. StartTypeOK'
    BY <1>3, ParentTypeOK, ChildTypeOK, DaemonTypeOK DEF StartIInv
  <2>2. Told' /\ Family' /\ Concluded'
    BY <1>3, ParentIInv, ChildIInv, DaemonIInv
  <2>3. OnePort'
    <3>1. CASE Bind(s)
      BY <3>1, BindOnePort
    <3>2. CASE ~ Bind(s)
      <4>1. \A u \in Starters : Listening(u)' => Listening(u)
        BY <1>3, <3>2, OnlyBindListens
      <4> QED BY <4>1 DEF StartIInv, OnePort
    <3> QED BY <3>1, <3>2
  <2> QED BY <2>1, <2>2, <2>3 DEF StartIInv
<1> QED BY <1>1, <1>2, <1>3 DEF StartNext

\* The inductive invariant holds always.
THEOREM StartInvariance == StartSpec => []StartIInv
<1> QED BY StartBegins, StartKept, PTL DEF StartSpec

-----------------------------------------------------------------------------

\* The variables keep their types, and the ends of the pipe are where start_daemon's
\* fork and close calls put them.
THEOREM TypesHold == StartSpec => []StartTypeOK
<1>1. StartIInv => StartTypeOK
  BY DEF StartIInv
<1> QED BY <1>1, StartInvariance, PTL

\* The start that returns 0 has a loaded daemon, but for a daemon that ended before
\* it could write into the pipe (start_daemon does not look at nbytes).
THEOREM ExitStatusHolds == StartSpec => []ReadyUnlessSilent
<1>1. StartIInv => ReadyUnlessSilent
  BY DEF StartIInv, Concluded, ConcludedBy, Silent, ReadyUnlessSilent
<1> QED BY <1>1, StartInvariance, PTL

\* The start that returns 1 without a signal has no daemon, and will have none.
THEOREM FailureHolds == StartSpec => []FailureLeavesNothing
<1>1. StartIInv => FailureLeavesNothing
  BY DEF StartIInv, Concluded, ConcludedBy, Silent, FailureLeavesNothing
<1> QED BY <1>1, StartInvariance, PTL

\* The exit status of a start says what became of its daemon.
THEOREM StatusIsTrue == StartSpec => []ExitStatusTrue
<1> QED BY ExitStatusHolds, FailureHolds, PTL DEF ExitStatusTrue

\* At most one start has the port, from its bind to the end of its last process.
THEOREM OneDaemonHolds == StartSpec => []OneDaemon
<1>1. StartIInv => OneDaemon
  BY DEF StartIInv, OnePort, Listening, OneDaemon
<1> QED BY <1>1, StartInvariance, PTL

-----------------------------------------------------------------------------
(* The string protocol.                                                    *)

Wanted == Strings \ {<<>>}    \* the strings that are really sent

Size(s) == digits[Len(s)]
One(s)  == <<Head(digits[Len(Size(s))])>>

\* What the receiver waits for in a phase, within the string x, and where in Encode(x) it is.
Target(x, ph) == IF ph = "one" THEN One(x) ELSE IF ph = "size" THEN Size(x) ELSE x
Place(x, ph)  == IF ph = "one" THEN 0 ELSE IF ph = "size" THEN 1 ELSE 1 + Len(Size(x))

\* The sequence q is found in T behind a.
Piece(q, T, a) == \A k \in 1 .. Len(q) : q[k] = T[a + k]

\* The strings S, of which all were sent but perhaps the last.
Begun(S) ==
  /\ S \in Seq(Wanted)
  /\ Len(S) \in {Len(sent), Len(sent) + 1}
  /\ \A i \in 1 .. Len(sent) : S[i] = sent[i]

\* The bytes T are those of the strings S, which end at off[0], off[1], ...
Whole(S, T, off) ==
  /\ off \in [0 .. Len(S) -> Nat]
  /\ off[0] = 0
  /\ \A i \in 1 .. Len(S) : off[i] = off[i - 1] + Len(Encode(S[i]))
  /\ \A i, j \in 0 .. Len(S) : i < j => off[i] < off[j]
  /\ \A i \in 1 .. Len(S) : Piece(Encode(S[i]), T, off[i - 1])

\* The last string is missing as far as its bytes are not on their way.
Sender(S, lost) ==
  /\ lost \in Nat
  /\ Len(obuf) + lost = 0 <=> Len(S) = Len(sent)
  /\ Len(S) # Len(sent) => Len(obuf) + lost <= Len(Encode(S[Len(S)]))
  /\ wst = "open" => lost = 0 /\ (obuf # <<>> => cur = S[Len(S)])
  /\ wst # "open" => obuf = <<>>
  /\ wst = "cut" <=> Len(S) # Len(sent) /\ 0 < lost /\ lost < Len(Encode(S[Len(S)]))

\* Behind what the receiver has taken, p bytes, there are three pieces.
Ahead(T, total, p, lost) ==
  /\ p \in Nat
  /\ total = p + Len(mbuf) + Len(net) + Len(obuf) + lost
  /\ Piece(mbuf, T, p)
  /\ Piece(net, T, p + Len(mbuf))
  /\ Piece(obuf, T, p + Len(mbuf) + Len(net))

\* The receiver is in the string behind those it has got.
InHand(S, T, off, p) ==
  LET x == S[Len(got) + 1] IN
  /\ Len(got) <= Len(S)
  /\ \A i \in 1 .. Len(got) : got[i] = S[i]
  /\ phase = "one" => p = off[Len(got)]
  /\ phase # "one" =>
       /\ Len(got) < Len(S)
       /\ p = off[Len(got)] + Place(x, phase) + Len(acc)
       /\ need + Len(acc) = Len(Target(x, phase))
  /\ Piece(acc, T, p - Len(acc))

Bytes(S, T, off, p, lost) ==
  /\ Begun(S)
  /\ Whole(S, T, off)
  /\ Sender(S, lost)
  /\ Ahead(T, off[Len(S)], p, lost)
  /\ InHand(S, T, off, p)

IInv == TypeOK /\ \E S, T, off, p, lost : Bytes(S, T, off, p, lost)

-----------------------------------------------------------------------------
(* Sequences and encodings.                                                *)

\* The two parts of a sequence that is cut.
LEMMA CutInTwo ==
  ASSUME NEW q \in Seq(Nat), NEW k \in 0 .. Len(q)
  PROVE  /\ SubSeq(q, 1, k) \in Seq(Nat) /\ Len(SubSeq(q, 1, k)) = k
         /\ \A i \in 1 .. k : SubSeq(q, 1, k)[i] = q[i]
         /\ SubSeq(q, k + 1, Len(q)) \in Seq(Nat) /\ Len(SubSeq(q, k + 1, Len(q))) = Len(q) - k
         /\ \A i \in 1 .. Len(q) - k : SubSeq(q, k + 1, Len(q))[i] = q[k + i]
<1>1. Len(q) \in Nat /\ \A i \in 1 .. Len(q) : q[i] \in Nat
  OBVIOUS
<1>2. /\ SubSeq(q, 1, k) \in Seq(Nat) /\ Len(SubSeq(q, 1, k)) = k
      /\ \A i \in 1 .. k : SubSeq(q, 1, k)[i] = q[i]
  BY <1>1, SubSeqProperties
<1>3. /\ SubSeq(q, k + 1, Len(q)) \in Seq(Nat) /\ Len(SubSeq(q, k + 1, Len(q))) = Len(q) - k
      /\ \A i \in 1 .. Len(q) - k : SubSeq(q, k + 1, Len(q))[i] = q[k + i]
  BY <1>1, SubSeqProperties
<1> QED BY <1>2, <1>3

\* The two parts of a sequence that is joined.
LEMMA JoinTwo ==
  ASSUME NEW u \in Seq(Nat), NEW v \in Seq(Nat)
  PROVE  /\ u \o v \in Seq(Nat) /\ Len(u \o v) = Len(u) + Len(v)
         /\ \A k \in 1 .. Len(u) : (u \o v)[k] = u[k]
         /\ \A k \in 1 .. Len(v) : (u \o v)[Len(u) + k] = v[k]
<1>1. Len(u) \in Nat /\ Len(v) \in Nat
  OBVIOUS
<1>2. /\ u \o v \in Seq(Nat) /\ Len(u \o v) = Len(u) + Len(v)
      /\ \A i \in 1 .. Len(u) + Len(v) : (u \o v)[i] = IF i <= Len(u) THEN u[i] ELSE v[i - Len(u)]
  BY ConcatProperties
<1>3. ASSUME NEW k \in 1 .. Len(u) PROVE (u \o v)[k] = u[k]
  BY <1>1, <1>2
<1>4. ASSUME NEW k \in 1 .. Len(v) PROVE (u \o v)[Len(u) + k] = v[k]
  <2>1. Len(u) + k \in 1 .. Len(u) + Len(v) /\ ~ Len(u) + k <= Len(u) /\ Len(u) + k - Len(u) = k
    BY <1>1
  <2> QED BY <1>2, <2>1
<1> QED BY <1>2, <1>3, <1>4

\* The two parts of a piece are pieces.
LEMMA PieceCut ==
  ASSUME NEW q \in Seq(Nat), NEW k \in 0 .. Len(q), NEW T, NEW a \in Nat, Piece(q, T, a)
  PROVE  /\ Piece(SubSeq(q, 1, k), T, a)
         /\ Piece(SubSeq(q, k + 1, Len(q)), T, a + k)
<1>1. Len(q) \in Nat /\ k \in Nat /\ k <= Len(q)
  OBVIOUS
<1> PICK u : u = SubSeq(q, 1, k)
  OBVIOUS
<1> PICK v : v = SubSeq(q, k + 1, Len(q))
  OBVIOUS
<1>2. /\ Len(u) = k /\ \A i \in 1 .. k : u[i] = q[i]
      /\ Len(v) = Len(q) - k /\ \A i \in 1 .. Len(q) - k : v[i] = q[k + i]
  BY CutInTwo
<1>3. ASSUME NEW i \in 1 .. Len(u) PROVE u[i] = T[a + i]
  <2>1. i \in 1 .. k /\ i \in 1 .. Len(q)
    BY <1>1, <1>2
  <2> QED BY <1>2, <2>1 DEF Piece
<1>4. ASSUME NEW i \in 1 .. Len(v) PROVE v[i] = T[a + k + i]
  <2>1. k + i \in 1 .. Len(q) /\ a + k + i = a + (k + i)
    BY <1>1, <1>2
  <2> QED BY <1>2, <2>1 DEF Piece
<1> QED BY <1>3, <1>4 DEF Piece

\* Two pieces, one behind the other, are one.
LEMMA PieceJoin ==
  ASSUME NEW u \in Seq(Nat), NEW v \in Seq(Nat), NEW T, NEW a \in Nat,
         Piece(u, T, a), Piece(v, T, a + Len(u))
  PROVE  Piece(u \o v, T, a)
<1> PICK q : q = u \o v
  OBVIOUS
<1>1. /\ Len(q) = Len(u) + Len(v)
      /\ \A k \in 1 .. Len(u) : q[k] = u[k]
      /\ \A k \in 1 .. Len(v) : q[Len(u) + k] = v[k]
  BY JoinTwo
<1>2. Len(u) \in Nat /\ Len(v) \in Nat
  OBVIOUS
<1>3. ASSUME NEW k \in 1 .. Len(q) PROVE q[k] = T[a + k]
  <2>1. CASE k <= Len(u)
    BY <1>1, <1>2, <2>1 DEF Piece
  <2>2. CASE ~ k <= Len(u)
    <3>1. /\ k - Len(u) \in 1 .. Len(v) /\ k = Len(u) + (k - Len(u))
          /\ a + k = a + Len(u) + (k - Len(u))
      BY <1>1, <1>2, <2>2
    <3> QED BY <1>1, <3>1 DEF Piece
  <2> QED BY <2>1, <2>2
<1> QED BY <1>3 DEF Piece

\* Pieces of the same length behind the same place are the same.
LEMMA PieceEqual ==
  ASSUME NEW u \in Seq(Nat), NEW v \in Seq(Nat), NEW T, NEW a \in Nat,
         Piece(u, T, a), Piece(v, T, a), Len(u) = Len(v)
  PROVE  u = v
BY SeqEqual DEF Piece

\* Strings, their sizes and the sizes of these.
LEMMA Sizes ==
  ASSUME NEW s \in Wanted
  PROVE  /\ s \in Seq(Nat) /\ Len(s) \in Nat \ {0}
         /\ Size(s) \in Seq(Nat) /\ Len(Size(s)) \in Nat \ {0}
         /\ IsNumber(Size(s)) /\ Value(Size(s)) = Len(s)
         /\ One(s) \in Seq(Nat) /\ Len(One(s)) = 1
         /\ IsNumber(One(s)) /\ Value(One(s)) = Len(Size(s))
<1>1. s \in Seq(Nat) /\ s # <<>>
  BY ProtocolAssumption DEF Wanted
<1>2. /\ Size(s) \in Seq(Nat) /\ IsNumber(Size(s)) /\ Value(Size(s)) = Len(s)
      /\ One(s) \in Seq(Nat) /\ IsNumber(One(s)) /\ Value(One(s)) = Len(Size(s))
  BY SizesAssumption DEF Wanted, Size, One
<1>3. Size(s) # <<>>
  BY <1>2 DEF IsNumber
<1>4. Len(One(s)) = 1
  BY DEF One
<1> HIDE DEF Size, One
<1>5. Len(s) \in Nat \ {0} /\ Len(Size(s)) \in Nat \ {0}
  BY <1>1, <1>2, <1>3, EmptySeq
<1> QED BY <1>1, <1>2, <1>4, <1>5

\* What is written for a string.
LEMMA Encoded ==
  ASSUME NEW s \in Wanted
  PROVE  /\ Encode(s) \in Seq(Nat)
         /\ Len(Encode(s)) = 1 + Len(Size(s)) + Len(s)
         /\ Encode(s)[1] = One(s)[1]
         /\ \A k \in 1 .. Len(Size(s)) : Encode(s)[1 + k] = Size(s)[k]
         /\ \A k \in 1 .. Len(s) : Encode(s)[1 + Len(Size(s)) + k] = s[k]
<1>1. Encode(s) = One(s) \o Size(s) \o s
  BY DEF Encode, One, Size
<1>2. /\ s \in Seq(Nat) /\ Size(s) \in Seq(Nat) /\ One(s) \in Seq(Nat) /\ Len(One(s)) = 1
      /\ Len(s) \in Nat /\ Len(Size(s)) \in Nat
  BY Sizes
<1> DEFINE u == One(s) \o Size(s)
           e == u \o s
<1>3. /\ u \in Seq(Nat) /\ Len(u) = 1 + Len(Size(s)) /\ u[1] = One(s)[1]
      /\ \A k \in 1 .. Len(Size(s)) : u[1 + k] = Size(s)[k]
  <2> HIDE DEF Size, One
  <2>1. /\ u \in Seq(Nat) /\ Len(u) = Len(One(s)) + Len(Size(s))
        /\ \A k \in 1 .. Len(One(s)) : u[k] = One(s)[k]
        /\ \A k \in 1 .. Len(Size(s)) : u[Len(One(s)) + k] = Size(s)[k]
    BY <1>2, JoinTwo
  <2> QED BY <1>2, <2>1
<1> HIDE DEF u
<1>4. /\ e \in Seq(Nat) /\ Len(e) = Len(u) + Len(s)
      /\ \A k \in 1 .. Len(u) : e[k] = u[k]
      /\ \A k \in 1 .. Len(s) : e[Len(u) + k] = s[k]
  BY <1>2, <1>3, JoinTwo
<1> HIDE DEF e
<1>5. 1 \in 1 .. Len(u) /\ \A k \in 1 .. Len(Size(s)) : 1 + k \in 1 .. Len(u)
  BY <1>2, <1>3
<1>6. e[1] = One(s)[1] /\ \A k \in 1 .. Len(Size(s)) : e[1 + k] = Size(s)[k]
  BY <1>3, <1>4, <1>5
<1>7. /\ e \in Seq(Nat) /\ Len(e) = 1 + Len(Size(s)) + Len(s)
      /\ \A k \in 1 .. Len(s) : e[1 + Len(Size(s)) + k] = s[k]
  BY <1>3, <1>4
<1>8. Encode(s) = e
  BY <1>1 DEF u, e
<1> QED BY <1>6, <1>7, <1>8

\* What the receiver waits for is in what is written, phase by phase.
LEMMA Targets ==
  ASSUME NEW x \in Wanted, NEW T, NEW b \in Nat, Piece(Encode(x), T, b),
         NEW ph \in {"one", "size", "data"}
  PROVE  /\ Target(x, ph) \in Seq(Nat) /\ Len(Target(x, ph)) \in Nat \ {0}
         /\ Place(x, ph) \in Nat
         /\ Place(x, ph) + Len(Target(x, ph)) <= Len(Encode(x))
         /\ Piece(Target(x, ph), T, b + Place(x, ph))
<1>1. /\ Encode(x) \in Seq(Nat)
      /\ Len(Encode(x)) = 1 + Len(Size(x)) + Len(x)
      /\ Encode(x)[1] = One(x)[1]
      /\ \A k \in 1 .. Len(Size(x)) : Encode(x)[1 + k] = Size(x)[k]
      /\ \A k \in 1 .. Len(x) : Encode(x)[1 + Len(Size(x)) + k] = x[k]
  BY Encoded
<1>2. /\ x \in Seq(Nat) /\ Len(x) \in Nat \ {0}
      /\ Size(x) \in Seq(Nat) /\ Len(Size(x)) \in Nat \ {0}
      /\ One(x) \in Seq(Nat) /\ Len(One(x)) = 1
  BY Sizes
<1> PICK e : e = Encode(x)
  OBVIOUS
<1> PICK m : m = Size(x)
  OBVIOUS
<1> PICK d : d = One(x)
  OBVIOUS
<1>3. \A k \in 1 .. Len(e) : e[k] = T[b + k]
  BY DEF Piece
<1> HIDE DEF Size, One
<1>4. CASE ph = "one"
  <2>1. Target(x, ph) = d /\ Place(x, ph) = 0
    BY <1>4 DEF Target, Place
  <2>2. \A k \in 1 .. Len(d) : k = 1 /\ b + 0 + k = b + 1 /\ 1 \in 1 .. Len(e)
    BY <1>1, <1>2
  <2>3. Piece(d, T, b + 0)
    BY <1>1, <1>3, <2>2 DEF Piece
  <2>4. 0 + Len(d) <= Len(Encode(x)) /\ Len(d) \in Nat \ {0} /\ 0 \in Nat
    BY <1>1, <1>2
  <2>5. d \in Seq(Nat)
    BY <1>2
  <2> QED BY <2>1, <2>3, <2>4, <2>5, Zenon
<1>5. CASE ph = "size"
  <2>1. Target(x, ph) = m /\ Place(x, ph) = 1
    BY <1>5 DEF Target, Place
  <2>2. \A k \in 1 .. Len(m) : b + 1 + k = b + (1 + k) /\ 1 + k \in 1 .. Len(e)
    <3>1. Len(m) \in Nat /\ Len(x) \in Nat /\ Len(e) = 1 + Len(m) + Len(x)
      BY <1>1, <1>2
    <3> QED BY <3>1
  <2>3. Piece(m, T, b + 1)
    BY <1>1, <1>3, <2>2, SMTT(30) DEF Piece
  <2> QED BY <1>1, <1>2, <2>1, <2>3
<1>6. CASE ph = "data"
  <2>1. Target(x, ph) = x /\ Place(x, ph) = 1 + Len(m)
    BY <1>6 DEF Target, Place
  <2>2. \A k \in 1 .. Len(x) : b + (1 + Len(m)) + k = b + (1 + Len(m) + k)
                             /\ 1 + Len(m) + k \in 1 .. Len(e)
    <3>1. Len(m) \in Nat /\ Len(x) \in Nat /\ Len(e) = 1 + Len(m) + Len(x)
      BY <1>1, <1>2
    <3> QED BY <3>1
  <2>3. Piece(x, T, b + (1 + Len(m)))
    BY <1>1, <1>3, <2>2 DEF Piece
  <2> QED BY <1>1, <1>2, <2>1, <2>3
<1> QED BY <1>4, <1>5, <1>6

-----------------------------------------------------------------------------
(* The invariant.                                                          *)

\* What there is of numbers, and how they are ordered.
LEMMA Numbers ==
  ASSUME TypeOK, NEW S, NEW T, NEW off, NEW p, NEW lost, Bytes(S, T, off, p, lost)
  PROVE  /\ Len(S) \in Nat /\ Len(sent) \in Nat /\ Len(got) \in Nat /\ Len(got) <= Len(S)
         /\ Len(mbuf) \in Nat /\ Len(net) \in Nat /\ Len(obuf) \in Nat /\ Len(acc) \in Nat
         /\ p \in Nat /\ lost \in Nat /\ off[Len(S)] \in Nat /\ off[Len(got)] \in Nat
         /\ off[Len(S)] = p + Len(mbuf) + Len(net) + Len(obuf) + lost
         /\ off[Len(got)] <= p /\ p - Len(acc) \in Nat
<1>1. /\ Len(S) \in Nat /\ Len(sent) \in Nat /\ Len(got) \in Nat /\ Len(got) <= Len(S)
      /\ Len(mbuf) \in Nat /\ Len(net) \in Nat /\ Len(obuf) \in Nat /\ Len(acc) \in Nat
  <2>1. S \in Seq(Wanted)
    BY DEF Bytes, Begun
  <2> QED BY <2>1 DEF TypeOK, Bytes, InHand
<1>2. off[Len(S)] \in Nat /\ off[Len(got)] \in Nat
  <2>1. Len(S) \in 0 .. Len(S) /\ Len(got) \in 0 .. Len(S)
    BY <1>1
  <2> QED BY <2>1 DEF Bytes, Whole
<1>3. p \in Nat /\ lost \in Nat /\ off[Len(S)] = p + Len(mbuf) + Len(net) + Len(obuf) + lost
  BY DEF Bytes, Ahead, Sender
<1>4. off[Len(got)] <= p /\ p - Len(acc) \in Nat
  <2>1. CASE phase = "one"
    <3>1. Len(acc) = 0 /\ p = off[Len(got)]
      BY <2>1 DEF TypeOK, Bytes, InHand
    <3> QED BY <1>2, <3>1
  <2>2. CASE phase # "one"
    <3> PICK x : x = S[Len(got) + 1]
      OBVIOUS
    <3>1. Len(got) < Len(S) /\ p = off[Len(got)] + Place(x, phase) + Len(acc)
      BY <2>2 DEF Bytes, InHand
    <3>2. x \in Wanted
      BY <1>1, <3>1 DEF Bytes, Begun
    <3>3. Place(x, phase) \in Nat
      <4>1. Len(Size(x)) \in Nat
        BY <3>2, Sizes
      <4> HIDE DEF Size
      <4> QED BY <4>1 DEF Place
    <3> QED BY <1>1, <1>2, <3>1, <3>3, SMTT(30)
  <2> QED BY <2>1, <2>2
<1> QED BY <1>1, <1>2, <1>3, <1>4

\* The string the receiver is in, if there is one.
LEMMA TheString ==
  ASSUME TypeOK, NEW S, NEW T, NEW off, NEW p, NEW lost, Bytes(S, T, off, p, lost),
         Len(got) < Len(S), NEW x, x = S[Len(got) + 1]
  PROVE  /\ x \in Wanted
         /\ off[Len(got) + 1] = off[Len(got)] + Len(Encode(x))
         /\ off[Len(got) + 1] \in Nat /\ off[Len(got) + 1] <= off[Len(S)]
         /\ Target(x, phase) \in Seq(Nat) /\ Len(Target(x, phase)) \in Nat \ {0}
         /\ Place(x, phase) \in Nat
         /\ Place(x, phase) + Len(Target(x, phase)) <= Len(Encode(x))
         /\ Piece(Target(x, phase), T, off[Len(got)] + Place(x, phase))
         /\ p = off[Len(got)] + Place(x, phase) + Len(acc)
         /\ need + Len(acc) = Len(Target(x, phase))
         /\ p < off[Len(got) + 1] /\ off[Len(got)] + Place(x, phase) <= p
<1>1. Len(S) \in Nat /\ Len(got) \in Nat /\ off[Len(got)] \in Nat
  BY Numbers
<1>2. Len(got) + 1 \in 1 .. Len(S) /\ Len(got) + 1 \in 0 .. Len(S) /\ Len(S) \in 0 .. Len(S)
  BY <1>1
<1>3. x \in Wanted
  BY <1>2 DEF Bytes, Begun
<1>4. /\ off[Len(got) + 1] = off[Len(got)] + Len(Encode(x))
      /\ Piece(Encode(x), T, off[Len(got)])
  <2>1. Len(got) + 1 - 1 = Len(got)
    BY <1>1
  <2> QED BY <1>2, <2>1 DEF Bytes, Whole
<1>5. off[Len(got) + 1] \in Nat /\ off[Len(got) + 1] <= off[Len(S)]
  <2>1. off[Len(got) + 1] \in Nat /\ off[Len(S)] \in Nat
    BY <1>2 DEF Bytes, Whole
  <2>2. Len(got) + 1 = Len(S) \/ Len(got) + 1 < Len(S)
    BY <1>1
  <2>3. Len(got) + 1 < Len(S) => off[Len(got) + 1] < off[Len(S)]
    BY <1>2 DEF Bytes, Whole
  <2> QED BY <2>1, <2>2, <2>3
<1>6. phase \in {"one", "size", "data"}
  BY DEF TypeOK
<1>7. /\ Target(x, phase) \in Seq(Nat) /\ Len(Target(x, phase)) \in Nat \ {0}
      /\ Place(x, phase) \in Nat
      /\ Place(x, phase) + Len(Target(x, phase)) <= Len(Encode(x))
      /\ Piece(Target(x, phase), T, off[Len(got)] + Place(x, phase))
  BY <1>1, <1>3, <1>4, <1>6, Targets
<1>8. /\ p = off[Len(got)] + Place(x, phase) + Len(acc)
      /\ need + Len(acc) = Len(Target(x, phase))
  <2>1. CASE phase = "one"
    <3>1. p = off[Len(got)] /\ Len(acc) = 0 /\ need = 1
      BY <2>1 DEF Bytes, InHand, TypeOK
    <3>2. Place(x, phase) = 0 /\ Target(x, phase) = One(x)
      BY <2>1 DEF Place, Target
    <3>3. Len(One(x)) = 1
      BY <1>3, Sizes
    <3> QED BY <1>1, <3>1, <3>2, <3>3
  <2>2. CASE phase # "one"
    BY <2>2 DEF Bytes, InHand
  <2> QED BY <2>1, <2>2
<1>9. p < off[Len(got) + 1] /\ off[Len(got)] + Place(x, phase) <= p
  <2>1. need \in Nat /\ need > 0 /\ Len(acc) \in Nat /\ p \in Nat /\ Len(Target(x, phase)) \in Nat
    BY <1>7, Numbers DEF TypeOK
  <2>2. Len(Encode(x)) \in Nat
    <3>1. Encode(x) \in Seq(Nat)
      BY <1>3, Encoded
    <3> QED BY <3>1
  <2>3. \A b, t, e \in Nat :
          /\ need > 0 /\ p = off[Len(got)] + b + Len(acc) /\ need + Len(acc) = t
          /\ b + t <= e /\ off[Len(got) + 1] = off[Len(got)] + e
          => p < off[Len(got) + 1] /\ off[Len(got)] + b <= p
    BY <1>1, <1>5, <2>1, SMTT(30)
  <2>4. /\ need > 0 /\ p = off[Len(got)] + Place(x, phase) + Len(acc)
        /\ need + Len(acc) = Len(Target(x, phase))
        /\ Place(x, phase) + Len(Target(x, phase)) <= Len(Encode(x))
        /\ off[Len(got) + 1] = off[Len(got)] + Len(Encode(x))
        => p < off[Len(got) + 1] /\ off[Len(got)] + Place(x, phase) <= p
    BY <1>7, <2>1, <2>2, <2>3, Zenon
  <2> QED BY <1>4, <1>7, <1>8, <2>1, <2>4, Zenon
<1> QED BY <1>3, <1>4, <1>5, <1>7, <1>8, <1>9

\* The receiver has no string that was not sent whole.
LEMMA GotSent ==
  ASSUME TypeOK, NEW S, NEW T, NEW off, NEW p, NEW lost, Bytes(S, T, off, p, lost)
  PROVE  Len(got) <= Len(sent)
<1>1. /\ Len(S) \in Nat /\ Len(sent) \in Nat /\ Len(got) \in Nat /\ Len(got) <= Len(S)
      /\ Len(mbuf) \in Nat /\ Len(net) \in Nat /\ Len(obuf) \in Nat /\ lost \in Nat /\ p \in Nat
      /\ off[Len(S)] = p + Len(mbuf) + Len(net) + Len(obuf) + lost /\ off[Len(got)] <= p
      /\ off[Len(got)] \in Nat
  BY Numbers
<1>2. Len(S) \in {Len(sent), Len(sent) + 1}
  BY DEF Bytes, Begun
<1>3. Len(obuf) + lost = 0 <=> Len(S) = Len(sent)
  BY DEF Bytes, Sender
<1>4. CASE Len(got) = Len(S)
  <2>1. Len(obuf) + lost = 0
    BY <1>1, <1>4
  <2> QED BY <1>3, <1>4, <2>1, <1>1
<1> QED BY <1>1, <1>2, <1>4

\* The same of the next state.
LEMMA GotSentNext ==
  ASSUME TypeOK', NEW S, NEW T, NEW off, NEW p, NEW lost, Bytes(S, T, off, p, lost)'
  PROVE  Len(got') <= Len(sent')
<1>1. (TypeOK /\ Bytes(S, T, off, p, lost) => Len(got) <= Len(sent))'
  BY GotSent, PTL
<1> QED BY <1>1

-----------------------------------------------------------------------------
(* The sender's steps.                                                     *)

\* A piece within the first bytes stays where it is when others are added behind them.
LEMMA PieceKept ==
  ASSUME NEW q \in Seq(Nat), NEW T, NEW T2, NEW a \in Nat, NEW last \in Nat,
         Piece(q, T, a), a + Len(q) <= last, \A j \in Nat : j <= last => T2[j] = T[j]
  PROVE  Piece(q, T2, a)
<1>1. Len(q) \in Nat
  OBVIOUS
<1>2. \A k \in 1 .. Len(q) : a + k \in Nat /\ a + k <= last
  BY <1>1
<1> QED BY <1>2 DEF Piece

\* WriteString: the new string is behind all that was begun.
LEMMA WriteStringKeeps ==
  ASSUME TypeOK, NEW S, NEW T, NEW off, NEW p, NEW lost, Bytes(S, T, off, p, lost), WriteString
  PROVE  TypeOK' /\ \E S2, T2, off2 : Bytes(S2, T2, off2, p, lost)'
<1>1. PICK s \in Wanted : cur' = s /\ obuf' = Encode(s)
  BY DEF WriteString, Wanted
<1>2. /\ wst = "open" /\ obuf = <<>>
      /\ UNCHANGED <<sent, wst, net, mbuf, phase, need, acc, got, result>>
  BY DEF WriteString, readVars
<1> PICK e : e = Encode(s)
  OBVIOUS
<1>3. e \in Seq(Nat) /\ Len(e) \in Nat /\ Len(e) > 0
  <2>1. Len(Size(s)) \in Nat /\ Len(s) \in Nat
    BY Sizes
  <2>2. e \in Seq(Nat) /\ Len(e) = 1 + Len(Size(s)) + Len(s)
    BY Encoded
  <2> QED BY <2>1, <2>2
<1>4. /\ Len(S) \in Nat /\ Len(sent) \in Nat /\ Len(got) \in Nat /\ Len(got) <= Len(S)
      /\ Len(mbuf) \in Nat /\ Len(net) \in Nat /\ Len(obuf) = 0 /\ Len(acc) \in Nat
      /\ p \in Nat /\ off[Len(S)] \in Nat /\ off[Len(got)] \in Nat
      /\ off[Len(S)] = p + Len(mbuf) + Len(net) + Len(obuf) + lost
      /\ p - Len(acc) \in Nat
  BY <1>2, Numbers
<1>5. lost = 0 /\ Len(S) = Len(sent) /\ S \in Seq(Wanted) /\ \A i \in 1 .. Len(sent) : S[i] = sent[i]
  BY <1>2, <1>4 DEF Bytes, Sender, Begun
<1> PICK N : N = Len(S)
  OBVIOUS
<1> PICK L : L = off[N]
  OBVIOUS
<1>6. N \in Nat /\ L \in Nat /\ L = p + Len(mbuf) + Len(net)
  BY <1>4, <1>5
<1>7. PICK S2 : S2 = Append(S, s)
  OBVIOUS
<1>8. S2 \in Seq(Wanted) /\ Len(S2) = N + 1 /\ S2[N + 1] = s /\ \A i \in 1 .. N : S2[i] = S[i]
  BY <1>5, <1>7, AppendProperties
<1>9. PICK T2 : T2 = [j \in Nat |-> IF j <= L THEN T[j] ELSE e[j - L]]
  OBVIOUS
<1>10. \A j \in Nat : j <= L => T2[j] = T[j]
  BY <1>9
<1>11. Piece(e, T2, L)
  <2>1. ASSUME NEW k \in 1 .. Len(e) PROVE e[k] = T2[L + k]
    <3>1. PICK m : m = L + k
      OBVIOUS
    <3>2. m \in Nat /\ ~ m <= L /\ m - L = k
      BY <1>3, <1>6, <3>1
    <3>3. T2[m] = e[m - L]
      BY <1>9, <3>2
    <3> QED BY <3>1, <3>2, <3>3
  <2> QED BY <2>1 DEF Piece
<1>12. PICK off2 : off2 = [i \in 0 .. N + 1 |-> IF i = N + 1 THEN L + Len(e) ELSE off[i]]
  OBVIOUS
<1>13. /\ off \in [0 .. N -> Nat] /\ off[0] = 0
       /\ \A i \in 1 .. N : off[i] = off[i - 1] + Len(Encode(S[i]))
       /\ \A i, j \in 0 .. N : i < j => off[i] < off[j]
       /\ \A i \in 1 .. N : Piece(Encode(S[i]), T, off[i - 1])
  BY DEF Bytes, Whole
<1>14. off2[N + 1] = L + Len(e) /\ \A i \in 0 .. N : off2[i] = off[i]
  <2>1. N + 1 \in 0 .. N + 1 /\ \A i \in 0 .. N : i \in 0 .. N + 1 /\ i # N + 1
    BY <1>6
  <2> QED BY <1>12, <2>1
<1>15. \A i \in 0 .. N : off[i] \in Nat /\ off[i] <= L
  <2> TAKE i \in 0 .. N
  <2>1. off[i] \in Nat
    BY <1>13
  <2>2. CASE i = N
    <3>1. L <= L
      BY <1>6
    <3> QED BY <2>1, <2>2, <3>1, Zenon
  <2>3. CASE i # N
    <3>1. N \in 0 .. N /\ i < N
      BY <1>6, <2>3
    <3>2. off[i] < L
      BY <1>13, <3>1
    <3> QED BY <1>6, <2>1, <3>2
  <2> QED BY <2>2, <2>3
<1>w. Whole(S2, T2, off2)
  <2>1. off2 \in [0 .. N + 1 -> Nat]
    BY <1>3, <1>6, <1>12, <1>14, <1>15, SMTT(30)
  <2>2. off2[0] = 0
    BY <1>6, <1>13, <1>14
  <2>3. ASSUME NEW i \in 1 .. N + 1
        PROVE  off2[i] = off2[i - 1] + Len(Encode(S2[i])) /\ Piece(Encode(S2[i]), T2, off2[i - 1])
    <3>1. i - 1 \in 0 .. N /\ off2[i - 1] = off[i - 1]
      BY <1>6, <1>14
    <3>2. CASE i = N + 1
      <4>1. i - 1 = N
        BY <1>6, <3>2
      <4> QED BY <1>8, <1>11, <1>14, <3>1, <3>2, <4>1
    <3>3. CASE i # N + 1
      <4>1. i \in 1 .. N /\ i \in 0 .. N
        BY <1>6, <3>3
      <4>2. /\ off[i] = off[i - 1] + Len(Encode(S[i])) /\ Piece(Encode(S[i]), T, off[i - 1])
            /\ off2[i] = off[i] /\ S2[i] = S[i] /\ off[i - 1] \in Nat /\ off[i] <= L
        BY <1>8, <1>13, <1>14, <1>15, <3>1, <4>1
      <4>3. Encode(S[i]) \in Seq(Nat)
        <5>1. S[i] \in Wanted
          BY <1>5, <4>1
        <5> QED BY <5>1, Encoded
      <4>4. Piece(Encode(S[i]), T2, off[i - 1])
        BY <1>6, <1>10, <4>2, <4>3, PieceKept
      <4> QED BY <3>1, <4>2, <4>4
    <3> QED BY <3>2, <3>3
  <2>4. ASSUME NEW i \in 0 .. N + 1, NEW j \in 0 .. N + 1, i < j
        PROVE  off2[i] < off2[j]
    <3>1. i \in 0 .. N
      BY <1>6, <2>4
    <3>2. CASE j = N + 1
      <4>1. off[i] <= L /\ off[i] \in Nat /\ L < L + Len(e)
        BY <1>3, <1>6, <1>15, <3>1
      <4> QED BY <1>3, <1>6, <1>14, <3>1, <3>2, <4>1
    <3>3. CASE j # N + 1
      <4>1. j \in 0 .. N
        BY <1>6, <3>3
      <4> QED BY <1>13, <1>14, <2>4, <3>1, <4>1
    <3> QED BY <3>2, <3>3
  <2> QED BY <1>8, <2>1, <2>2, <2>3, <2>4 DEF Whole
<1>b. Begun(S2)'
  BY <1>2, <1>5, <1>6, <1>8 DEF Begun
<1>s. Sender(S2, lost)'
  <2>1. Len(obuf') = Len(e)
    BY <1>1
  <2> QED BY <1>1, <1>2, <1>3, <1>5, <1>6, <1>8, <2>1 DEF Sender
<1>a. Ahead(T2, off2[Len(S2)], p, lost)'
  <2>1. mbuf \in Seq(Nat) /\ net \in Seq(Nat)
    BY DEF TypeOK
  <2>2. Piece(mbuf, T, p) /\ Piece(net, T, p + Len(mbuf))
    BY DEF Bytes, Ahead
  <2>3. /\ p + Len(mbuf) <= L /\ p + Len(mbuf) \in Nat /\ p + Len(mbuf) + Len(net) <= L
    BY <1>4, <1>6
  <2>4. Piece(mbuf, T2, p) /\ Piece(net, T2, p + Len(mbuf))
    BY <1>4, <1>6, <1>10, <2>1, <2>2, <2>3, PieceKept
  <2>5. Piece(e, T2, p + Len(mbuf) + Len(net))
    BY <1>6, <1>11
  <2>6. off2[Len(S2)] = p + Len(mbuf) + Len(net) + Len(e) + lost
    BY <1>3, <1>4, <1>5, <1>6, <1>8, <1>14
  <2> QED BY <1>1, <1>2, <1>4, <2>4, <2>5, <2>6 DEF Ahead
<1>h. InHand(S2, T2, off2, p)'
  <2>1. Len(got) \in 0 .. N /\ off2[Len(got)] = off[Len(got)]
    BY <1>4, <1>6, <1>14
  <2>2. Len(got) <= Len(S2) /\ \A i \in 1 .. Len(got) : got[i] = S2[i]
    <3>1. \A i \in 1 .. Len(got) : i \in 1 .. N
      BY <1>4, <1>6
    <3> QED BY <1>4, <1>6, <1>8, <3>1 DEF Bytes, InHand
  <2>3. Piece(acc, T2, p - Len(acc))
    <3>1. acc \in Seq(Nat) /\ Piece(acc, T, p - Len(acc))
      BY DEF Bytes, InHand, TypeOK
    <3>2. p - Len(acc) + Len(acc) <= L
      BY <1>4, <1>6
    <3> QED BY <1>4, <1>6, <1>10, <3>1, <3>2, PieceKept
  <2>4. phase = "one" => p = off2[Len(got)]
    BY <2>1 DEF Bytes, InHand
  <2>5. ASSUME phase # "one"
        PROVE  /\ Len(got) < Len(S2)
               /\ p = off2[Len(got)] + Place(S2[Len(got) + 1], phase) + Len(acc)
               /\ need + Len(acc) = Len(Target(S2[Len(got) + 1], phase))
    <3>1. Len(got) < N
      BY <2>5 DEF Bytes, InHand
    <3>2. S2[Len(got) + 1] = S[Len(got) + 1] /\ Len(got) < Len(S2)
      BY <1>4, <1>6, <1>8, <3>1
    <3> QED BY <2>1, <2>5, <3>2 DEF Bytes, InHand
  <2> QED BY <1>2, <2>2, <2>3, <2>4, <2>5 DEF InHand
<1>t. TypeOK'
  BY <1>1, <1>2, <1>3 DEF TypeOK, Wanted
<1> QED
  <2>1. Bytes(S2, T2, off2, p, lost)'
    BY <1>w, <1>b, <1>s, <1>a, <1>h DEF Bytes, Whole
  <2> QED BY <1>t, <2>1

\* Transfer: the string is sent when its last byte is on its way.
LEMMA TransferKeeps ==
  ASSUME TypeOK, NEW S, NEW T, NEW off, NEW p, NEW lost, Bytes(S, T, off, p, lost), Transfer
  PROVE  TypeOK' /\ Bytes(S, T, off, p, lost)'
<1>1. PICK k \in 1 .. Len(obuf) :
        /\ Len(net) + k <= NetCap
        /\ net' = net \o SubSeq(obuf, 1, k)
        /\ obuf' = SubSeq(obuf, k + 1, Len(obuf))
        /\ sent' = IF k = Len(obuf) THEN Append(sent, cur) ELSE sent
        /\ cur' = IF k = Len(obuf) THEN <<>> ELSE cur
  BY DEF Transfer
<1>2. wst = "open" /\ UNCHANGED <<wst, mbuf, phase, need, acc, got, result>>
  BY DEF Transfer, readVars
<1>3. /\ Len(S) \in Nat /\ Len(sent) \in Nat /\ Len(got) \in Nat
      /\ Len(mbuf) \in Nat /\ Len(net) \in Nat /\ Len(obuf) \in Nat
      /\ p \in Nat /\ off[Len(S)] = p + Len(mbuf) + Len(net) + Len(obuf) + lost
  BY Numbers
<1>4. obuf \in Seq(Nat) /\ net \in Seq(Nat) /\ k \in 0 .. Len(obuf) /\ k \in Nat /\ k > 0
      /\ k <= Len(obuf) /\ obuf # <<>>
  BY <1>1, <1>3 DEF TypeOK
<1>5. lost = 0 /\ Len(S) = Len(sent) + 1 /\ cur = S[Len(S)] /\ S \in Seq(Wanted)
      /\ Len(obuf) <= Len(Encode(S[Len(S)])) /\ \A i \in 1 .. Len(sent) : S[i] = sent[i]
  BY <1>2, <1>3, <1>4 DEF Bytes, Begun, Sender
<1>6. cur \in Wanted
  <2>1. Len(S) \in 1 .. Len(S)
    BY <1>3, <1>5
  <2> QED BY <1>5, <2>1
<1> PICK u : u = SubSeq(obuf, 1, k)
  OBVIOUS
<1>7. /\ u \in Seq(Nat) /\ Len(u) = k
      /\ obuf' \in Seq(Nat) /\ Len(obuf') = Len(obuf) - k
  BY <1>1, <1>4, CutInTwo
<1>8. net' \in Seq(Nat) /\ Len(net') = Len(net) + k
  BY <1>1, <1>4, <1>7, JoinTwo
<1>9. ASSUME k = Len(obuf)
      PROVE  /\ Begun(S)' /\ Sender(S, lost)'
             /\ sent' \in Seq(Strings \ {<<>>}) /\ cur' \in Strings \cup {<<>>}
  <2>1. /\ sent' = Append(sent, cur) /\ cur' = <<>>
        /\ sent \in Seq(Wanted)
    BY <1>1, <1>9 DEF TypeOK, Wanted
  <2>2. /\ sent' \in Seq(Wanted) /\ Len(sent') = Len(sent) + 1 /\ sent'[Len(sent) + 1] = cur
        /\ \A i \in 1 .. Len(sent) : sent'[i] = sent[i]
    BY <1>6, <2>1, AppendProperties
  <2>3. Len(obuf') = 0 /\ obuf' = <<>>
    BY <1>3, <1>7, <1>9, EmptySeq
  <2>4. ASSUME NEW i \in 1 .. Len(sent') PROVE S[i] = sent'[i]
    <3>1. i = Len(sent) + 1 \/ i \in 1 .. Len(sent)
      BY <1>3, <2>2
    <3> QED BY <1>5, <2>2, <3>1
  <2>5. Begun(S)'
    BY <1>5, <2>2, <2>4 DEF Begun
  <2>6. Len(S) = Len(sent')
    BY <1>5, <2>2
  <2>7. Sender(S, lost)'
    BY <1>2, <1>5, <2>3, <2>6 DEF Sender
  <2>8. sent' \in Seq(Strings \ {<<>>}) /\ cur' \in Strings \cup {<<>>}
    BY <2>1, <2>2 DEF Wanted
  <2> QED BY <2>5, <2>7, <2>8
<1>10. ASSUME k # Len(obuf)
       PROVE  /\ Begun(S)' /\ Sender(S, lost)'
              /\ sent' \in Seq(Strings \ {<<>>}) /\ cur' \in Strings \cup {<<>>}
  <2>1. sent' = sent /\ cur' = cur /\ Len(obuf') > 0 /\ Len(obuf') <= Len(obuf)
    BY <1>1, <1>3, <1>4, <1>7, <1>10, SMTT(30)
  <2>2. Begun(S)'
    BY <2>1 DEF Begun, Bytes
  <2>3. Len(S) # Len(sent) /\ Len(obuf') + lost # 0 /\ Len(obuf') + lost <= Len(obuf) + lost
    BY <1>3, <1>5, <1>7, <2>1, SMTT(30)
  <2>4. Len(obuf') + lost <= Len(Encode(S[Len(S)]))
    <3>1. Encode(S[Len(S)]) \in Seq(Nat)
      BY <1>5, <1>6, Encoded
    <3>2. Len(Encode(S[Len(S)])) \in Nat
      BY <3>1
    <3> QED BY <1>3, <1>5, <1>7, <2>3, <3>2
  <2>5. Sender(S, lost)'
    BY <1>2, <1>5, <2>1, <2>3, <2>4 DEF Sender
  <2>6. sent' \in Seq(Strings \ {<<>>}) /\ cur' \in Strings \cup {<<>>}
    BY <2>1 DEF TypeOK
  <2> QED BY <2>2, <2>5, <2>6
<1>w. Whole(S, T, off) /\ Whole(S, T, off)'
  BY DEF Bytes, Whole
<1>a. Ahead(T, off[Len(S)], p, lost)'
  <2>1. Piece(mbuf, T, p) /\ Piece(net, T, p + Len(mbuf)) /\ Piece(obuf, T, p + Len(mbuf) + Len(net))
    BY DEF Bytes, Ahead
  <2>2. p + Len(mbuf) + Len(net) \in Nat /\ p + Len(mbuf) \in Nat
    BY <1>3
  <2>3. Piece(u, T, p + Len(mbuf) + Len(net)) /\ Piece(obuf', T, p + Len(mbuf) + Len(net) + k)
    BY <1>1, <1>4, <2>1, <2>2, PieceCut
  <2>4. Piece(net', T, p + Len(mbuf))
    BY <1>1, <1>4, <1>7, <2>1, <2>2, <2>3, PieceJoin
  <2>5. p + Len(mbuf) + Len(net) + k = p + Len(mbuf) + Len(net')
    BY <1>3, <1>4, <1>8
  <2>6. off[Len(S)] = p + Len(mbuf) + Len(net') + Len(obuf') + lost
    BY <1>3, <1>4, <1>5, <1>7, <1>8
  <2> QED BY <1>2, <1>3, <2>1, <2>3, <2>4, <2>5, <2>6 DEF Ahead
<1>h. InHand(S, T, off, p)'
  BY <1>2 DEF Bytes, InHand
<1>t. net' \in Seq(Nat) /\ Len(net') <= NetCap /\ obuf' \in Seq(Nat)
  BY <1>1, <1>7, <1>8
<1>z. TypeOK'
  BY <1>2, <1>9, <1>10, <1>t DEF TypeOK
<1> QED BY <1>9, <1>10, <1>w, <1>a, <1>h, <1>z DEF Bytes

\* Close: what is still to be written is lost, and the sender is cut off if that is a part of it.
LEMMA CloseKeeps ==
  ASSUME TypeOK, NEW S, NEW T, NEW off, NEW p, NEW lost, Bytes(S, T, off, p, lost), Close,
         NEW n \in Nat, n = Len(obuf)
  PROVE  TypeOK' /\ Bytes(S, T, off, p, n)'
<1>1. /\ wst = "open" /\ wst' = (IF obuf = <<>> \/ obuf = Encode(cur) THEN "closed" ELSE "cut")
      /\ obuf' = <<>> /\ cur' = <<>>
      /\ UNCHANGED <<sent, net, mbuf, phase, need, acc, got, result>>
  BY DEF Close, readVars
<1>2. /\ Len(S) \in Nat /\ Len(sent) \in Nat /\ Len(mbuf) \in Nat /\ Len(net) \in Nat
      /\ Len(obuf) \in Nat /\ p \in Nat
      /\ off[Len(S)] = p + Len(mbuf) + Len(net) + Len(obuf) + lost
  BY Numbers
<1>3. lost = 0 /\ obuf \in Seq(Nat)
  BY <1>1 DEF Bytes, Sender, TypeOK
<1>4. wst' = "cut" <=> Len(S) # Len(sent) /\ 0 < n /\ n < Len(Encode(S[Len(S)]))
  <2>1. CASE n = 0
    <3>1. obuf = <<>>
      BY <1>3, <2>1, EmptySeq
    <3> QED BY <1>1, <2>1, <3>1
  <2>2. CASE n # 0
    <3>1. obuf # <<>> /\ 0 < n
      BY <1>2, <2>2
    <3>2. /\ Len(S) = Len(sent) + 1 /\ S \in Seq(Wanted) /\ cur = S[Len(S)]
          /\ n <= Len(Encode(cur))
      BY <1>1, <1>2, <1>3, <2>2, <3>1 DEF Bytes, Sender, Begun
    <3>3. cur \in Wanted /\ Len(S) - 1 + 1 = Len(S) /\ Len(S) \in 1 .. Len(S)
      <4>1. Len(S) \in 1 .. Len(S) /\ Len(S) - 1 + 1 = Len(S)
        BY <1>2, <3>2
      <4> QED BY <3>2, <4>1
    <3>4. Encode(cur) \in Seq(Nat) /\ Len(Encode(cur)) \in Nat
      <4>1. Encode(cur) \in Seq(Nat)
        BY <3>3, Encoded
      <4> QED BY <4>1
    <3>5. n = Len(Encode(cur)) => obuf = Encode(cur)
      <4>1. /\ Piece(Encode(cur), T, off[Len(sent)]) /\ off[Len(S)] = off[Len(sent)] + Len(Encode(cur))
            /\ off[Len(sent)] \in Nat
        <5>1. Len(sent) \in 0 .. Len(S) /\ Len(S) - 1 = Len(sent)
          BY <1>2, <3>2, <3>3
        <5> QED BY <3>2, <3>3, <5>1 DEF Bytes, Whole
      <4>2. Piece(obuf, T, p + Len(mbuf) + Len(net)) /\ p + Len(mbuf) + Len(net) \in Nat
        BY <1>2 DEF Bytes, Ahead
      <4>3. p + Len(mbuf) + Len(net) + n = off[Len(sent)] + Len(Encode(cur))
        BY <1>2, <1>3, <4>1
      <4>4. \A a, b, c \in Nat : a + c = b + c => a = b
        OBVIOUS
      <4> HAVE n = Len(Encode(cur))
      <4>5. p + Len(mbuf) + Len(net) + n = off[Len(sent)] + n
        BY <4>3, Zenon
      <4>6. p + Len(mbuf) + Len(net) = off[Len(sent)]
        BY <4>1, <4>2, <4>4, <4>5, Zenon
      <4> QED BY <1>3, <3>4, <4>1, <4>2, <4>6, PieceEqual, Zenon
    <3>6. wst' = "cut" <=> n # Len(Encode(cur))
      BY <1>1, <3>1, <3>5
    <3> QED BY <1>2, <3>1, <3>2, <3>4, <3>6
  <2> QED BY <2>1, <2>2
<1>5. Begun(S)' /\ Whole(S, T, off)' /\ InHand(S, T, off, p)'
  BY <1>1 DEF Bytes, Begun, Whole, InHand
<1>6. Ahead(T, off[Len(S)], p, n)'
  <2>1. Piece(mbuf, T, p) /\ Piece(net, T, p + Len(mbuf))
    BY DEF Bytes, Ahead
  <2>2. Piece(obuf', T, p + Len(mbuf) + Len(net)) /\ Len(obuf') = 0
    BY <1>1 DEF Piece
  <2>3. off[Len(S)] = p + Len(mbuf) + Len(net) + 0 + n
    BY <1>2, <1>3
  <2> QED BY <1>1, <1>2, <2>1, <2>2, <2>3 DEF Ahead
<1>7. Sender(S, n)'
  <2>1. /\ n \in Nat /\ (n = 0 <=> Len(S) = Len(sent)) /\ wst' # "open"
        /\ (Len(S) # Len(sent) => n <= Len(Encode(S[Len(S)])))
    BY <1>1, <1>2, <1>3 DEF Bytes, Sender
  <2>2. Len(obuf') + n = n
    BY <1>1, <1>2
  <2> QED BY <1>1, <1>4, <2>1, <2>2 DEF Sender
<1>8. TypeOK'
  BY <1>1 DEF TypeOK
<1> QED BY <1>5, <1>6, <1>7, <1>8 DEF Bytes

\* While something is to be written, the sender is within one of the strings.
LEMMA SenderInString ==
  ASSUME TypeOK, NEW S, NEW T, NEW off, NEW p, NEW lost, Bytes(S, T, off, p, lost)
  PROVE  wst = "open" /\ obuf # <<>> => cur \in Wanted
<1> HAVE wst = "open" /\ obuf # <<>>
<1>1. Len(obuf) \in Nat /\ Len(obuf) # 0 /\ Len(sent) \in Nat
  <2>1. obuf \in Seq(Nat)
    BY DEF TypeOK
  <2> QED BY <2>1, EmptySeq, Numbers
<1>2. lost = 0 /\ Len(S) = Len(sent) + 1 /\ cur = S[Len(S)] /\ S \in Seq(Wanted)
  BY <1>1 DEF Bytes, Begun, Sender
<1>3. Len(S) \in 1 .. Len(S)
  BY <1>1, <1>2
<1> QED BY <1>2, <1>3

-----------------------------------------------------------------------------
(* The receiver's steps.                                                   *)

\* ReadPacket: the buffer, which was empty, has the first of the bytes on their way.
LEMMA ReadPacketKeeps ==
  ASSUME TypeOK, NEW S, NEW T, NEW off, NEW p, NEW lost, Bytes(S, T, off, p, lost), ReadPacket
  PROVE  TypeOK' /\ Bytes(S, T, off, p, lost)'
<1>1. /\ mbuf = <<>> /\ UNCHANGED <<sent, cur, obuf, wst, phase, need, acc, got, result>>
  BY DEF ReadPacket, senderVars
<1>2. PICK k \in 1 .. Len(net) :
        k <= BuffSize /\ mbuf' = SubSeq(net, 1, k) /\ net' = SubSeq(net, k + 1, Len(net))
  BY DEF ReadPacket
<1>3. /\ Len(mbuf) = 0 /\ Len(net) \in Nat /\ Len(obuf) \in Nat /\ p \in Nat
      /\ off[Len(S)] = p + Len(mbuf) + Len(net) + Len(obuf) + lost
  BY <1>1, Numbers
<1>4. net \in Seq(Nat) /\ k \in 0 .. Len(net) /\ k \in Nat /\ k <= Len(net)
      /\ lost \in Nat /\ Len(net) <= NetCap /\ NetCap \in Nat
  BY <1>2, <1>3, ProtocolAssumption DEF TypeOK, Bytes, Sender
<1>5. /\ mbuf' \in Seq(Nat) /\ Len(mbuf') = k
      /\ net' \in Seq(Nat) /\ Len(net') = Len(net) - k
  BY <1>2, <1>4, CutInTwo
<1>6. Ahead(T, off[Len(S)], p, lost)'
  <2>1. Piece(net, T, p)
    <3>1. p + Len(mbuf) = p
      BY <1>3
    <3> QED BY <3>1 DEF Bytes, Ahead
  <2>2. Piece(mbuf', T, p) /\ Piece(net', T, p + k)
    BY <1>2, <1>3, <1>4, <2>1, PieceCut
  <2>3. Piece(obuf, T, p + Len(mbuf) + Len(net))
    BY DEF Bytes, Ahead
  <2>4. /\ p + Len(mbuf) + Len(net) = p + k + Len(net')
        /\ off[Len(S)] = p + k + Len(net') + Len(obuf) + lost
    BY <1>3, <1>4, <1>5
  <2> QED BY <1>1, <1>3, <1>5, <2>2, <2>3, <2>4 DEF Ahead
<1>7. Begun(S)' /\ Whole(S, T, off)' /\ Sender(S, lost)' /\ InHand(S, T, off, p)'
  BY <1>1 DEF Bytes, Begun, Whole, Sender, InHand
<1>8. Len(net') <= NetCap
  BY <1>4, <1>5
<1>9. TypeOK'
  BY <1>1, <1>2, <1>5, <1>8 DEF TypeOK
<1> QED BY <1>6, <1>7, <1>9 DEF Bytes

\* At the end of what comes, the receiver has all that was sent whole, and is between two
\* strings unless the sender was cut off.
LEMMA AtTheEnd ==
  ASSUME TypeOK, NEW S, NEW T, NEW off, NEW p, NEW lost, Bytes(S, T, off, p, lost), ReadEof
  PROVE  Len(got) = Len(sent) /\ (phase = "one" <=> wst # "cut")
<1>1. /\ mbuf = <<>> /\ net = <<>> /\ wst # "open"
  BY DEF ReadEof
<1>2. obuf = <<>>
  BY <1>1 DEF Bytes, Sender
<1>3. /\ Len(S) \in Nat /\ Len(sent) \in Nat /\ Len(got) \in Nat /\ Len(got) <= Len(sent)
      /\ p \in Nat /\ lost \in Nat /\ off[Len(S)] \in Nat /\ off[Len(got)] \in Nat
      /\ off[Len(S)] = p + lost /\ off[Len(got)] <= p /\ Len(acc) \in Nat
  <2>1. Len(mbuf) = 0 /\ Len(net) = 0 /\ Len(obuf) = 0
    BY <1>1, <1>2
  <2> QED BY <2>1, Numbers, GotSent
<1>4. /\ Len(S) \in {Len(sent), Len(sent) + 1} /\ (lost = 0 <=> Len(S) = Len(sent))
      /\ (Len(S) # Len(sent) => lost <= Len(Encode(S[Len(S)])))
      /\ (wst = "cut" <=> Len(S) # Len(sent) /\ 0 < lost /\ lost < Len(Encode(S[Len(S)])))
  <2>1. Len(obuf) + lost = lost
    BY <1>2, <1>3
  <2> QED BY <2>1 DEF Bytes, Begun, Sender
<1>5. phase = "one" => p = off[Len(got)]
  BY DEF Bytes, InHand
<1>6. \A i, j \in 0 .. Len(S) : i < j => off[i] < off[j]
  BY DEF Bytes, Whole
<1>7. need \in Nat /\ need > 0
  BY DEF TypeOK
<1>8. CASE Len(S) = Len(sent)
  <2>1. p = off[Len(S)] /\ wst # "cut"
    BY <1>3, <1>4, <1>8
  <2>2. phase = "one"
    <3> SUFFICES ASSUME phase # "one" PROVE FALSE
      OBVIOUS
    <3>1. Len(got) < Len(S)
      BY DEF Bytes, InHand
    <3>2. p < off[Len(got) + 1] /\ off[Len(got) + 1] <= off[Len(S)] /\ off[Len(got) + 1] \in Nat
      BY <3>1, TheString
    <3> QED BY <1>3, <2>1, <3>2
  <2>3. Len(got) = Len(S)
    <3> SUFFICES ASSUME Len(got) # Len(S) PROVE FALSE
      OBVIOUS
    <3>1. Len(got) < Len(S) /\ Len(got) \in 0 .. Len(S) /\ Len(S) \in 0 .. Len(S)
      BY <1>3, <1>8
    <3>2. off[Len(got)] < off[Len(S)]
      BY <1>6, <3>1
    <3> QED BY <1>3, <1>5, <2>1, <2>2, <3>2
  <2> QED BY <1>8, <2>1, <2>2, <2>3
<1>9. CASE Len(S) # Len(sent)
  <2>1. Len(S) = Len(sent) + 1 /\ lost > 0 /\ Len(got) < Len(S)
    BY <1>3, <1>4, <1>9
  <2> PICK x : x = S[Len(got) + 1]
    OBVIOUS
  <2> PICK b : b = Place(x, phase)
    OBVIOUS
  <2> PICK c : c = off[Len(got) + 1]
    OBVIOUS
  <2> PICK l : l = Len(Encode(S[Len(S)]))
    OBVIOUS
  <2>2. c \in Nat /\ b \in Nat /\ x \in Wanted /\ p < c /\ off[Len(got)] + b <= p
    BY <2>1, TheString
  <2>5. Len(sent) = Len(S) - 1 /\ Len(S) \in 1 .. Len(S)
    BY <1>3, <2>1
  <2>6. off[Len(S)] = off[Len(sent)] + l
    BY <2>5 DEF Bytes, Whole
  <2>7. off[Len(sent)] \in Nat
    <3>1. Len(sent) \in 0 .. Len(S)
      BY <1>3, <2>1
    <3> QED BY <3>1 DEF Bytes, Whole
  <2>8. l \in Nat
    <3>1. S[Len(S)] \in Wanted
      BY <2>5 DEF Bytes, Begun
    <3>2. Encode(S[Len(S)]) \in Seq(Nat)
      BY <3>1, Encoded
    <3> QED BY <3>2
  <2>9. off[Len(sent)] <= p
    BY <1>3, <1>4, <1>9, <2>6, <2>7, <2>8
  <2>10. Len(got) = Len(sent)
    <3> SUFFICES ASSUME Len(got) # Len(sent) PROVE FALSE
      OBVIOUS
    <3>1. /\ Len(got) + 1 <= Len(sent)
          /\ Len(got) + 1 \in 0 .. Len(S) /\ Len(sent) \in 0 .. Len(S)
      BY <1>3, <2>1
    <3>2. Len(got) + 1 = Len(sent) \/ Len(got) + 1 < Len(sent)
      BY <1>3, <3>1
    <3>3. c = off[Len(sent)] \/ c < off[Len(sent)]
      BY <1>6, <3>1, <3>2
    <3> QED BY <1>3, <2>2, <2>7, <2>9, <3>3, SMTT(30)
  <2>11. phase = "one" => wst # "cut"
    <3> HAVE phase = "one"
    <3>1. lost = l
      BY <1>3, <1>5, <2>6, <2>7, <2>8, <2>10
    <3> QED BY <1>4, <2>8, <3>1
  <2>12. phase # "one" => wst = "cut"
    <3> HAVE phase # "one"
    <3>1. b > 0
      <4>1. Len(Size(x)) \in Nat
        BY <2>2, Sizes
      <4> HIDE DEF Size
      <4>2. b = 1 \/ b = 1 + Len(Size(x))
        BY DEF Place
      <4> QED BY <4>1, <4>2
    <3>2. off[Len(sent)] < p
      BY <1>3, <2>2, <2>7, <2>10, <3>1
    <3>3. lost < l
      BY <1>3, <2>6, <2>7, <2>8, <3>2
    <3> QED BY <1>4, <1>9, <2>1, <3>3
  <2> QED BY <2>10, <2>11, <2>12
<1> QED BY <1>8, <1>9

\* Where the receiver is after a step.
LEMMA InHandNext ==
  ASSUME NEW S, NEW T, NEW off, NEW p,
         Len(got') <= Len(S), \A i \in 1 .. Len(got') : got'[i] = S[i],
         phase' = "one" => p = off[Len(got')],
         phase' # "one" =>
           /\ Len(got') < Len(S)
           /\ p = off[Len(got')] + Place(S[Len(got') + 1], phase') + Len(acc')
           /\ need' + Len(acc') = Len(Target(S[Len(got') + 1], phase')),
         Piece(acc', T, p - Len(acc'))
  PROVE  InHand(S, T, off, p)'
BY Zenon DEF InHand

\* What the receiver does with what it waited for: it goes on to the next phase, and a string that
\* is complete is one more of those it has got.
LEMMA Completes ==
  ASSUME TypeOK, NEW x \in Wanted, NEW s, s = Target(x, phase), Complete(s)
  PROVE  /\ result' = result /\ acc' = <<>>
         /\ phase = "one" => phase' = "size" /\ need' = Len(Size(x)) /\ got' = got
         /\ phase = "size" => phase' = "data" /\ need' = Len(x) /\ got' = got
         /\ phase = "data" => phase' = "one" /\ need' = 1 /\ got' = Append(got, x)
<1>1. /\ Len(x) \in Nat \ {0} /\ Len(Size(x)) \in Nat \ {0}
      /\ IsNumber(Size(x)) /\ Value(Size(x)) = Len(x)
      /\ IsNumber(One(x)) /\ Value(One(x)) = Len(Size(x))
  BY Sizes
<1> HIDE DEF Size, One
<1>2. phase \in {"one", "size", "data"}
  BY DEF TypeOK
<1>3. CASE phase = "one"
  <2>1. s = One(x)
    BY <1>3 DEF Target
  <2>2. IsNumber(s) /\ Value(s) = Len(Size(x)) /\ Value(s) # 0
    BY <1>1, <2>1
  <2>3. Expect("size", Value(s)) /\ UNCHANGED <<got, result>>
    BY <1>3, <2>2 DEF Complete
  <2> QED BY <1>3, <2>2, <2>3 DEF Expect
<1>4. CASE phase = "size"
  <2>1. s = Size(x)
    BY <1>4 DEF Target
  <2>2. IsNumber(s) /\ Value(s) = Len(x) /\ Value(s) # 0
    BY <1>1, <2>1
  <2>3. Expect("data", Value(s)) /\ UNCHANGED <<got, result>>
    BY <1>4, <2>2 DEF Complete
  <2> QED BY <1>4, <2>2, <2>3 DEF Expect
<1>5. CASE phase = "data"
  <2>1. s = x
    BY <1>5 DEF Target
  <2>2. Expect("one", 1) /\ got' = Append(got, s) /\ UNCHANGED result
    BY <1>5 DEF Complete
  <2> QED BY <1>5, <2>1, <2>2 DEF Expect
<1> QED BY <1>2, <1>3, <1>4, <1>5

\* Consume: the receiver takes what it needs, and a string it has completed is the next of those
\* that were sent whole.
LEMMA ConsumeKeeps ==
  ASSUME TypeOK, NEW S, NEW T, NEW off, NEW p, NEW lost, Bytes(S, T, off, p, lost), Consume
  PROVE  /\ TypeOK' /\ \E p2 : Bytes(S, T, off, p2, lost)'
         /\ \/ got' = got
            \/ Len(got) < Len(sent) /\ got' = Append(got, sent[Len(got) + 1])
         /\ result' = result
<1>1. /\ result = "receive" /\ mbuf # <<>>
      /\ UNCHANGED <<sent, cur, obuf, wst, net>>
  BY DEF Consume, senderVars
<1>2. /\ Len(S) \in Nat /\ Len(sent) \in Nat /\ Len(got) \in Nat
      /\ Len(mbuf) \in Nat /\ Len(net) \in Nat /\ Len(obuf) \in Nat /\ Len(acc) \in Nat
      /\ p \in Nat /\ lost \in Nat /\ off[Len(S)] \in Nat /\ off[Len(got)] \in Nat
      /\ off[Len(S)] = p + Len(mbuf) + Len(net) + Len(obuf) + lost
      /\ p - Len(acc) \in Nat /\ Len(got) <= Len(S)
  BY Numbers
<1>3. mbuf \in Seq(Nat) /\ acc \in Seq(Nat) /\ need \in Nat /\ need > 0 /\ Len(mbuf) > 0
  BY <1>1, <1>2, EmptySeq DEF TypeOK
<1>g. PICK g \in Nat : g = off[Len(got)]
  BY <1>2
<1>l. PICK L \in Nat : L = off[Len(S)]
  BY <1>2
<1>n. L = p + Len(mbuf) + Len(net) + Len(obuf) + lost /\ p \in Nat /\ lost \in Nat
  BY <1>2, <1>l, Zenon
<1>4. PICK k : k = (IF need < Len(mbuf) THEN need ELSE Len(mbuf))
  OBVIOUS
<1>5. PICK s : s = acc \o SubSeq(mbuf, 1, k)
  OBVIOUS
<1>6. /\ mbuf' = SubSeq(mbuf, k + 1, Len(mbuf))
      /\ k = need => Complete(s)
      /\ k # need => acc' = s /\ need' = need - k /\ UNCHANGED <<phase, got, result>>
  BY <1>4, <1>5 DEF Consume
<1>7. k \in Nat /\ k > 0 /\ k <= need /\ k <= Len(mbuf) /\ k \in 0 .. Len(mbuf)
  BY <1>2, <1>3, <1>4
<1>p. PICK q \in Nat : q = p + k
  BY <1>n, <1>7
<1> PICK u : u = SubSeq(mbuf, 1, k)
  OBVIOUS
<1>8. u \in Seq(Nat) /\ Len(u) = k /\ mbuf' \in Seq(Nat) /\ Len(mbuf') = Len(mbuf) - k
  BY <1>3, <1>6, <1>7, CutInTwo
<1>9. Piece(u, T, p) /\ Piece(mbuf', T, q)
  <2>1. Piece(mbuf, T, p)
    BY DEF Bytes, Ahead
  <2>2. Piece(u, T, p) /\ Piece(mbuf', T, p + k)
    BY <1>2, <1>3, <1>6, <1>7, <2>1, PieceCut
  <2> QED BY <1>p, <2>2, Zenon
<1>10. s \in Seq(Nat) /\ Len(s) = Len(acc) + k /\ Piece(s, T, p - Len(acc))
  <2>1. s = acc \o u
    BY <1>5
  <2>2. p - Len(acc) + Len(acc) = p
    BY <1>2
  <2>3. Piece(acc, T, p - Len(acc)) /\ Piece(u, T, p - Len(acc) + Len(acc))
    BY <1>9, <2>2 DEF Bytes, InHand
  <2>4. s \in Seq(Nat) /\ Len(s) = Len(acc) + k
    BY <1>3, <1>8, <2>1, JoinTwo
  <2>5. Piece(s, T, p - Len(acc))
    BY <1>2, <1>3, <1>8, <2>1, <2>3, PieceJoin
  <2> QED BY <2>4, <2>5
<1>a. Ahead(T, off[Len(S)], q, lost)'
  <2>1. Piece(net, T, p + Len(mbuf)) /\ Piece(obuf, T, p + Len(mbuf) + Len(net))
    BY DEF Bytes, Ahead
  <2>2. q + Len(mbuf') = p + Len(mbuf) /\ L = q + Len(mbuf') + Len(net) + Len(obuf) + lost
    <3>1. /\ Len(mbuf) \in Nat /\ Len(net) \in Nat /\ Len(obuf) \in Nat
          /\ Len(mbuf') = Len(mbuf) - k /\ k \in Nat /\ k <= Len(mbuf)
      BY <1>2, <1>7, <1>8
    <3> QED BY <1>n, <1>p, <3>1
  <2>3. off[Len(S)] = q + Len(mbuf') + Len(net) + Len(obuf) + lost
    BY <1>l, <2>2, Zenon
  <2> QED BY <1>1, <1>9, <2>1, <2>2, <2>3 DEF Ahead
<1>b. Begun(S)' /\ Whole(S, T, off)' /\ Sender(S, lost)'
  BY <1>1 DEF Bytes, Begun, Whole, Sender
<1>m. mbuf' \in Seq(Nat) /\ Len(mbuf') <= BuffSize
  <2>1. Len(mbuf) <= BuffSize /\ BuffSize \in Nat
    BY ProtocolAssumption DEF TypeOK
  <2> QED BY <1>2, <1>7, <1>8, <2>1
<1>11. Len(got) < Len(S)
  <2>1. CASE phase = "one"
    <3>1. p = g
      BY <1>g, <2>1 DEF Bytes, InHand
    <3>2. g # L
      <4>1. Len(mbuf) \in Nat /\ Len(net) \in Nat /\ Len(obuf) \in Nat
        BY <1>2
      <4> QED BY <1>3, <1>n, <3>1, <4>1
    <3>3. Len(got) # Len(S)
      BY <1>g, <1>l, <3>2, Zenon
    <3> QED BY <1>2, <3>3
  <2>2. CASE phase # "one"
    BY <2>2 DEF Bytes, InHand
  <2> QED BY <2>1, <2>2
<1>12. PICK x : x = S[Len(got) + 1]
  OBVIOUS
<1>13. /\ x \in Wanted
       /\ off[Len(got) + 1] = off[Len(got)] + Len(Encode(x))
       /\ off[Len(got) + 1] \in Nat /\ off[Len(got) + 1] <= off[Len(S)]
       /\ Target(x, phase) \in Seq(Nat) /\ Len(Target(x, phase)) \in Nat \ {0}
       /\ Place(x, phase) \in Nat
       /\ Piece(Target(x, phase), T, off[Len(got)] + Place(x, phase))
       /\ p = off[Len(got)] + Place(x, phase) + Len(acc)
       /\ need + Len(acc) = Len(Target(x, phase))
  BY <1>11, <1>12, TheString
<1>x. PICK b \in Nat : b = Place(x, phase)
  BY <1>13
<1>y. PICK t \in Nat : t = Len(Target(x, phase))
  BY <1>13
<1>z. PICK a \in Nat : a = Len(acc)
  BY <1>2
<1>o. p = g + b + a /\ need + a = t
  BY <1>g, <1>13, <1>x, <1>y, <1>z, Zenon
<1>k. k \in Nat /\ need \in Nat /\ k > 0 /\ k <= need
  BY <1>3, <1>7
<1>q. PICK m \in Nat : m = Len(s)
  BY <1>10
<1>r. m = a + k
  BY <1>10, <1>q, <1>z, Zenon
<1>14. p - Len(acc) = off[Len(got)] + Place(x, phase)
       /\ off[Len(got)] + Place(x, phase) \in Nat
  <2>1. p - a = g + b /\ g + b \in Nat
    BY <1>o
  <2> QED BY <1>g, <1>x, <1>z, <2>1, Zenon
<1>15. phase \in {"one", "size", "data"} /\ \A i \in 1 .. Len(got) : got[i] = S[i]
  BY DEF TypeOK, Bytes, InHand
<1>16. CASE k # need
  <2>1. acc' = s /\ need' = need - k /\ UNCHANGED <<phase, got, result>>
    BY <1>6, <1>16
  <2>2. phase # "one"
    <3>1. phase = "one" => need = 1
      BY DEF TypeOK
    <3> QED BY <1>3, <1>7, <1>16, <3>1
  <2>3. q = g + b + m /\ need - k + m = t /\ need - k \in Nat \ {0} /\ q - m = p - a
    BY <1>k, <1>o, <1>p, <1>r, <1>16
  <2>4. /\ q = off[Len(got)] + Place(x, phase) + Len(s)
        /\ need - k + Len(s) = Len(Target(x, phase)) /\ need - k \in Nat \ {0}
        /\ q - Len(s) = p - Len(acc)
    BY <1>g, <1>q, <1>x, <1>y, <1>z, <2>3, Zenon
  <2>5. Piece(s, T, q - Len(s))
    BY <1>10, <2>4, Zenon
  <2>6. InHand(S, T, off, q)'
    <3>1. got' = got /\ phase' = phase /\ phase' # "one"
      BY <2>1, <2>2
    <3>2. Len(got') <= Len(S) /\ Len(got') < Len(S) /\ \A i \in 1 .. Len(got') : got'[i] = S[i]
      BY <1>2, <1>11, <1>15, <3>1, Zenon
    <3>3. x = S[Len(got') + 1]
      BY <1>12, <3>1, Zenon
    <3>4. /\ q = off[Len(got')] + Place(S[Len(got') + 1], phase') + Len(acc')
          /\ need' + Len(acc') = Len(Target(S[Len(got') + 1], phase'))
          /\ Piece(acc', T, q - Len(acc'))
      BY <2>1, <2>4, <2>5, <3>1, <3>3, Zenon
    <3> QED BY <3>1, <3>2, <3>4, InHandNext, Zenon
  <2>7. TypeOK'
    BY <1>1, <1>10, <1>m, <2>1, <2>2, <2>4 DEF TypeOK
  <2>8. Bytes(S, T, off, q, lost)'
    BY <1>a, <1>b, <2>6 DEF Bytes
  <2> QED BY <2>1, <2>7, <2>8
<1>17. CASE k = need
  <2>1. s = Target(x, phase)
    <3>1. m = t
      BY <1>k, <1>o, <1>r, <1>17
    <3>2. Len(s) = Len(Target(x, phase))
      BY <1>q, <1>y, <3>1, Zenon
    <3>3. Piece(s, T, off[Len(got)] + Place(x, phase))
      BY <1>10, <1>14, Zenon
    <3> QED BY <1>10, <1>13, <1>14, <3>2, <3>3, PieceEqual, Zenon
  <2>2. /\ result' = result /\ acc' = <<>>
        /\ phase = "one" => phase' = "size" /\ need' = Len(Size(x)) /\ got' = got
        /\ phase = "size" => phase' = "data" /\ need' = Len(x) /\ got' = got
        /\ phase = "data" => phase' = "one" /\ need' = 1 /\ got' = Append(got, x)
    BY <1>6, <1>13, <1>17, <2>1, Completes
  <2>3. q = g + b + m
    BY <1>k, <1>o, <1>p, <1>r, <1>17
  <2>4. /\ Len(x) \in Nat \ {0} /\ Len(Size(x)) \in Nat \ {0} /\ Len(One(x)) = 1
        /\ Len(Encode(x)) = 1 + Len(Size(x)) + Len(x)
    BY <1>13, Sizes, Encoded
  <2> HIDE DEF Size, One
  <2>z. PICK z \in Nat : z = Len(Size(x))
    BY <2>4
  <2>5. Len(acc') = 0 /\ Piece(acc', T, q - Len(acc'))
    BY <2>2 DEF Piece
  <2>t. acc' \in Seq(Nat)
    BY <2>2
  <2>6. ASSUME phase # "data"
        PROVE  TypeOK' /\ InHand(S, T, off, q)' /\ got' = got
    <3>1. CASE phase = "one"
      <4>1. phase' = "size" /\ need' = Len(Size(x)) /\ got' = got
        BY <2>2, <3>1
      <4>2. b = 0 /\ m = 1 /\ Place(x, "size") = 1 /\ Target(x, "size") = Size(x)
        BY <1>q, <1>x, <2>1, <2>4, <3>1 DEF Place, Target
      <4>3. /\ q = off[Len(got)] + Place(x, "size") + Len(acc')
            /\ need' + Len(acc') = Len(Target(x, "size"))
        <5>1. q = g + 1 + 0 /\ z + 0 = z
          BY <2>3, <4>2
        <5> QED BY <1>g, <2>5, <2>z, <4>1, <4>2, <5>1, Zenon
      <4>4. InHand(S, T, off, q)'
        <5>1. phase' # "one"
          BY <4>1
        <5>2. Len(got') <= Len(S) /\ Len(got') < Len(S) /\ \A i \in 1 .. Len(got') : got'[i] = S[i]
          BY <1>2, <1>11, <1>15, <4>1, Zenon
        <5>3. x = S[Len(got') + 1]
          BY <1>12, <4>1, Zenon
        <5>4. /\ q = off[Len(got')] + Place(S[Len(got') + 1], phase') + Len(acc')
              /\ need' + Len(acc') = Len(Target(S[Len(got') + 1], phase'))
          BY <4>1, <4>3, <5>3, Zenon
        <5> QED BY <2>5, <5>1, <5>2, <5>4, InHandNext, Zenon
      <4>5. TypeOK'
        BY <1>1, <1>m, <2>2, <2>4, <2>t, <4>1 DEF TypeOK
      <4> QED BY <4>1, <4>4, <4>5
    <3>2. CASE phase = "size"
      <4>1. phase' = "data" /\ need' = Len(x) /\ got' = got
        BY <2>2, <3>2
      <4>2. b = 1 /\ m = z /\ Place(x, "data") = 1 + z /\ Target(x, "data") = x
        BY <1>q, <1>x, <2>1, <2>z, <3>2 DEF Place, Target
      <4>3. /\ q = off[Len(got)] + Place(x, "data") + Len(acc')
            /\ need' + Len(acc') = Len(Target(x, "data"))
        <5>1. q = g + (1 + z) + 0 /\ \A i \in Nat : i + 0 = i
          BY <2>3, <4>2
        <5> QED BY <1>g, <2>4, <2>5, <4>1, <4>2, <5>1, Zenon
      <4>4. InHand(S, T, off, q)'
        <5>1. phase' # "one"
          BY <4>1
        <5>2. Len(got') <= Len(S) /\ Len(got') < Len(S) /\ \A i \in 1 .. Len(got') : got'[i] = S[i]
          BY <1>2, <1>11, <1>15, <4>1, Zenon
        <5>3. x = S[Len(got') + 1]
          BY <1>12, <4>1, Zenon
        <5>4. /\ q = off[Len(got')] + Place(S[Len(got') + 1], phase') + Len(acc')
              /\ need' + Len(acc') = Len(Target(S[Len(got') + 1], phase'))
          BY <4>1, <4>3, <5>3, Zenon
        <5> QED BY <2>5, <5>1, <5>2, <5>4, InHandNext, Zenon
      <4>5. TypeOK'
        BY <1>1, <1>m, <2>2, <2>4, <2>t, <4>1 DEF TypeOK
      <4> QED BY <4>1, <4>4, <4>5
    <3> QED BY <1>15, <2>6, <3>1, <3>2
  <2>7. ASSUME phase = "data"
        PROVE  /\ TypeOK' /\ InHand(S, T, off, q)'
               /\ Len(got) < Len(sent) /\ got' = Append(got, sent[Len(got) + 1])
    <3>1. phase' = "one" /\ need' = 1 /\ got' = Append(got, x)
      BY <2>2, <2>7
    <3>2. got \in Seq(Wanted)
      BY DEF TypeOK, Wanted
    <3>3. /\ got' \in Seq(Wanted) /\ Len(got') = Len(got) + 1 /\ got'[Len(got) + 1] = x
          /\ \A i \in 1 .. Len(got) : got'[i] = got[i]
      BY <1>13, <3>1, <3>2, AppendProperties
    <3>4. q = off[Len(got) + 1]
      <4>1. b = 1 + z /\ s = x
        BY <1>x, <2>1, <2>7, <2>z DEF Place, Target
      <4>2. m = Len(x) /\ Len(Encode(x)) = 1 + z + m
        BY <1>q, <2>4, <2>z, <4>1, Zenon
      <4>3. q = g + (1 + z + m)
        BY <2>3, <4>1
      <4> QED BY <1>g, <1>13, <4>2, <4>3, Zenon
    <3>5. ASSUME NEW i \in 1 .. Len(got') PROVE got'[i] = S[i]
      <4>1. i = Len(got) + 1 \/ i \in 1 .. Len(got)
        BY <1>2, <3>3
      <4> QED BY <1>12, <1>15, <3>3, <4>1
    <3>6. InHand(S, T, off, q)'
      <4>1. Len(got') <= Len(S)
        BY <1>2, <1>11, <3>3
      <4>2. q = off[Len(got')]
        BY <3>3, <3>4, Zenon
      <4> QED BY <2>5, <3>1, <3>5, <4>1, <4>2, InHandNext, Zenon
    <3>7. TypeOK'
      <4>1. got' \in Seq(Strings \ {<<>>})
        BY <3>3 DEF Wanted
      <4> QED BY <1>1, <1>m, <2>2, <2>t, <3>1, <4>1 DEF TypeOK
    <3>8. Bytes(S, T, off, q, lost)'
      BY <1>a, <1>b, <3>6 DEF Bytes
    <3>9. Len(got') <= Len(sent')
      BY <3>7, <3>8, GotSentNext
    <3>10. Len(got) < Len(sent) /\ Len(got) + 1 \in 1 .. Len(sent)
      BY <1>1, <1>2, <3>3, <3>9
    <3>11. x = sent[Len(got) + 1]
      BY <1>12, <3>10 DEF Bytes, Begun
    <3> QED BY <3>1, <3>6, <3>7, <3>10, <3>11
  <2>8. CASE phase = "data"
    <3>1. Bytes(S, T, off, q, lost)'
      BY <1>a, <1>b, <2>7, <2>8 DEF Bytes
    <3> QED BY <2>2, <2>7, <2>8, <3>1
  <2>9. CASE phase # "data"
    <3>1. Bytes(S, T, off, q, lost)'
      BY <1>a, <1>b, <2>6, <2>9 DEF Bytes
    <3> QED BY <2>2, <2>6, <2>9, <3>1
  <2> QED BY <2>8, <2>9
<1> QED BY <1>16, <1>17

-----------------------------------------------------------------------------
(* The invariant holds.                                                    *)

\* At the start nothing was begun.
LEMMA InitEstablishes == Init => IInv
<1> SUFFICES ASSUME Init PROVE IInv
  OBVIOUS
<1>1. TypeOK
  BY ProtocolAssumption DEF Init, TypeOK
<1>2. PICK off : off = [i \in 0 .. 0 |-> 0]
  OBVIOUS
<1>3. off \in [0 .. 0 -> Nat] /\ off[0] = 0
  BY <1>2
<1>4. /\ sent = <<>> /\ cur = <<>> /\ obuf = <<>> /\ wst = "open" /\ net = <<>> /\ mbuf = <<>>
      /\ phase = "one" /\ acc = <<>> /\ got = <<>>
  BY DEF Init
<1>5. Begun(<<>>) /\ Sender(<<>>, 0)
  BY <1>4 DEF Begun, Sender
<1>6. Whole(<<>>, <<>>, off)
  BY <1>3 DEF Whole
<1>7. Ahead(<<>>, off[Len(<<>>)], 0, 0)
  BY <1>3, <1>4 DEF Ahead, Piece
<1>8. InHand(<<>>, <<>>, off, 0)
  BY <1>3, <1>4 DEF InHand, Piece
<1> QED BY <1>1, <1>5, <1>6, <1>7, <1>8 DEF IInv, Bytes

\* Every step keeps the invariant.
LEMMA StepKeeps == IInv /\ [Next]_vars => IInv'
<1> SUFFICES ASSUME IInv, [Next]_vars PROVE IInv'
  OBVIOUS
<1>1. TypeOK
  BY DEF IInv
<1>2. PICK S, T, off, p, lost : Bytes(S, T, off, p, lost)
  BY DEF IInv
<1>3. CASE WriteString
  <2>1. TypeOK' /\ \E S2, T2, off2 : Bytes(S2, T2, off2, p, lost)'
    BY <1>1, <1>2, <1>3, WriteStringKeeps, Zenon
  <2> QED BY <2>1, Zenon DEF IInv
<1>4. CASE Transfer
  <2>1. TypeOK' /\ Bytes(S, T, off, p, lost)'
    BY <1>1, <1>2, <1>4, TransferKeeps, Zenon
  <2> QED BY <2>1 DEF IInv
<1>5. CASE Close
  <2>1. Len(obuf) \in Nat
    BY <1>1 DEF TypeOK
  <2> PICK n \in Nat : n = Len(obuf)
    BY <2>1
  <2> QED BY <1>1, <1>2, <1>5, CloseKeeps, Zenon DEF IInv
<1>6. CASE ReadPacket
  <2>1. TypeOK' /\ Bytes(S, T, off, p, lost)'
    BY <1>1, <1>2, <1>6, ReadPacketKeeps, Zenon
  <2> QED BY <2>1 DEF IInv
<1>7. CASE ReadEof
  <2>1. UNCHANGED <<sent, cur, obuf, wst, net, mbuf, phase, need, acc, got>>
        /\ result' \in {"false", "throw"}
    BY <1>7 DEF ReadEof, senderVars
  <2>2. Bytes(S, T, off, p, lost)'
    BY <1>2, <2>1 DEF Bytes, Begun, Whole, Sender, Ahead, InHand
  <2>3. TypeOK'
    BY <1>1, <2>1 DEF TypeOK
  <2> QED BY <2>2, <2>3, Zenon DEF IInv
<1>8. CASE Consume
  <2>1. TypeOK' /\ \E p2 : Bytes(S, T, off, p2, lost)'
    BY <1>1, <1>2, <1>8, ConsumeKeeps, Zenon
  <2> QED BY <2>1, Zenon DEF IInv
<1>9. CASE UNCHANGED vars
  <2>1. UNCHANGED <<sent, cur, obuf, wst, net, mbuf, phase, need, acc, got, result>>
    BY <1>9 DEF vars, senderVars, readVars
  <2>2. Bytes(S, T, off, p, lost)'
    BY <1>2, <2>1 DEF Bytes, Begun, Whole, Sender, Ahead, InHand
  <2>3. TypeOK'
    BY <1>1, <2>1 DEF TypeOK
  <2> QED BY <2>2, <2>3, Zenon DEF IInv
<1> QED BY <1>3, <1>4, <1>5, <1>6, <1>7, <1>8, <1>9 DEF Next, Receiver

\* The positions of the strings and of the receiver, in every state of the two ends.
THEOREM Invariance == Spec => []IInv
<1>1. Init => IInv
  BY InitEstablishes
<1>2. IInv /\ [Next]_vars => IInv'
  BY StepKeeps
<1> QED BY <1>1, <1>2, PTL DEF Spec

\* The type invariant: the buffer and the network hold no more than they can, and only strings of
\* those that may be sent are received.
THEOREM TypeCorrect == Spec => []TypeOK
<1>1. IInv => TypeOK
  BY DEF IInv
<1> QED BY <1>1, Invariance, PTL

-----------------------------------------------------------------------------
(* The channel.                                                            *)

\* What is left of a sequence behind n places.
LEMMA Rest ==
  ASSUME NEW D, NEW q \in Seq(D), NEW n \in 0 .. Len(q), NEW r, r = SubSeq(q, n + 1, Len(q))
  PROVE  /\ r \in Seq(D) /\ Len(r) = Len(q) - n
         /\ \A i \in 1 .. Len(q) - n : r[i] = q[n + i]
<1>1. Len(q) \in Nat /\ \A i \in 1 .. Len(q) : q[i] \in D
  OBVIOUS
<1> QED BY <1>1, SubSeqProperties

\* If something is appended, it is behind what is left.
LEMMA RestAppended ==
  ASSUME NEW D, NEW q \in Seq(D), NEW n \in 0 .. Len(q), NEW x \in D, NEW q2, q2 = Append(q, x)
  PROVE  SubSeq(q2, n + 1, Len(q2)) = SubSeq(q, n + 1, Len(q)) \o <<x>>
<1>1. q2 \in Seq(D) /\ Len(q2) = Len(q) + 1 /\ q2[Len(q) + 1] = x /\ \A i \in 1 .. Len(q) : q2[i] = q[i]
  BY AppendProperties
<1>2. PICK r : r = SubSeq(q, n + 1, Len(q))
  OBVIOUS
<1>3. PICK r2 : r2 = SubSeq(q2, n + 1, Len(q2))
  OBVIOUS
<1>4. Len(q) \in Nat /\ n \in Nat /\ n <= Len(q) /\ n \in 0 .. Len(q2)
  BY <1>1
<1>5. r \in Seq(D) /\ Len(r) = Len(q) - n /\ \A i \in 1 .. Len(q) - n : r[i] = q[n + i]
  BY <1>2, Rest
<1>6. r2 \in Seq(D) /\ Len(r2) = Len(q) + 1 - n /\ \A i \in 1 .. Len(q) + 1 - n : r2[i] = q2[n + i]
  BY <1>1, <1>3, <1>4, Rest, SMTT(30)
<1>7. PICK c : c = r \o <<x>>
  OBVIOUS
<1>8. /\ c \in Seq(D) /\ Len(c) = Len(r) + 1 /\ c[Len(r) + 1] = x
      /\ \A i \in 1 .. Len(r) : c[i] = r[i]
  <2>1. c = Append(r, x)
    BY <1>5, <1>7
  <2> QED BY <1>5, <2>1, AppendProperties
<1>9. Len(c) = Len(r2)
  BY <1>4, <1>5, <1>6, <1>8
<1>10. ASSUME NEW i \in 1 .. Len(r2) PROVE c[i] = r2[i]
  <2>1. CASE i = Len(r) + 1
    <3>1. n + i = Len(q) + 1 /\ i \in 1 .. Len(q) + 1 - n
      BY <1>4, <1>5, <1>6, <2>1
    <3> QED BY <1>1, <1>6, <1>8, <2>1, <3>1
  <2>2. CASE i # Len(r) + 1
    <3>1. i \in 1 .. Len(r) /\ i \in 1 .. Len(q) - n /\ n + i \in 1 .. Len(q) /\ i \in 1 .. Len(q) + 1 - n
      BY <1>4, <1>5, <1>6, <2>2
    <3> QED BY <1>1, <1>5, <1>6, <1>8, <3>1
  <2> QED BY <2>1, <2>2
<1>11. c = r2
  BY <1>6, <1>8, <1>9, <1>10, SeqEqual
<1> QED BY <1>2, <1>3, <1>7, <1>11

\* The first of a sequence that has one.
LEMMA HeadIsFirst ==
  ASSUME NEW D, NEW r \in Seq(D), Len(r) > 0
  PROVE  r # <<>> /\ Head(r) = r[1]
OBVIOUS

\* The first of what is left, and what is left then.
LEMMA RestTaken ==
  ASSUME NEW D, NEW q \in Seq(D), NEW n \in 0 .. Len(q), n < Len(q), NEW r, r = SubSeq(q, n + 1, Len(q))
  PROVE  r # <<>> /\ Head(r) = q[n + 1] /\ Tail(r) = SubSeq(q, n + 1 + 1, Len(q))
<1>1. Len(q) \in Nat /\ n \in Nat /\ n + 1 \in 0 .. Len(q)
  OBVIOUS
<1>2. r \in Seq(D) /\ Len(r) = Len(q) - n /\ \A i \in 1 .. Len(q) - n : r[i] = q[n + i]
  BY Rest
<1>3. r # <<>> /\ Head(r) = q[n + 1]
  <2>1. Len(r) > 0 /\ 1 \in 1 .. Len(q) - n
    BY <1>1, <1>2
  <2>2. r # <<>> /\ Head(r) = r[1]
    BY <1>2, <2>1, HeadIsFirst, Zenon
  <2> QED BY <1>2, <2>1, <2>2
<1>4. PICK r2 : r2 = SubSeq(q, n + 1 + 1, Len(q))
  OBVIOUS
<1>5. r2 \in Seq(D) /\ Len(r2) = Len(q) - (n + 1) /\ \A i \in 1 .. Len(q) - (n + 1) : r2[i] = q[n + 1 + i]
  BY <1>1, <1>4, Rest
<1>6. PICK h : h = Tail(r)
  OBVIOUS
<1>7. h \in Seq(D) /\ Len(h) = Len(r) - 1 /\ \A i \in 1 .. Len(r) - 1 : h[i] = r[i + 1]
  BY <1>2, <1>3, <1>6, HeadTailProperties
<1>8. Len(h) = Len(r2)
  BY <1>1, <1>2, <1>5, <1>7
<1>9. ASSUME NEW i \in 1 .. Len(h) PROVE h[i] = r2[i]
  <2>1. /\ i \in 1 .. Len(r) - 1 /\ i + 1 \in 1 .. Len(q) - n /\ n + (i + 1) = n + 1 + i
        /\ i \in 1 .. Len(q) - (n + 1)
    BY <1>1, <1>2, <1>7
  <2> QED BY <1>2, <1>5, <1>7, <2>1
<1>10. h = r2
  BY <1>5, <1>7, <1>8, <1>9, SeqEqual
<1> QED BY <1>3, <1>4, <1>6, <1>10

\* Nothing is left of a sequence behind its end.
LEMMA RestEmpty ==
  ASSUME NEW D, NEW q \in Seq(D)
  PROVE  SubSeq(q, Len(q) + 1, Len(q)) = <<>>
<1> PICK r : r = SubSeq(q, Len(q) + 1, Len(q))
  OBVIOUS
<1>1. Len(q) \in Nat /\ Len(q) \in 0 .. Len(q)
  OBVIOUS
<1>2. r \in Seq(D) /\ Len(r) = Len(q) - Len(q)
  BY <1>1, Rest
<1> QED BY <1>1, <1>2, EmptySeq

\* One step of the two ends is a step of the channel, or none.
LEMMA StepMaps == IInv /\ IInv' /\ [Next]_vars => [Channel!Next]_(Channel!vars)
<1> SUFFICES ASSUME IInv, IInv', [Next]_vars PROVE [Channel!Next]_(Channel!vars)
  OBVIOUS
<1>1. TypeOK /\ TypeOK'
  BY DEF IInv
<1>2. PICK S, T, off, p, lost : Bytes(S, T, off, p, lost)
  BY DEF IInv
<1>3. /\ sent \in Seq(Wanted) /\ Len(sent) \in Nat /\ Len(got) \in Nat
      /\ Len(got) \in 0 .. Len(sent) /\ Len(got) <= Len(sent)
  <2>1. Len(got) <= Len(sent)
    BY <1>1, <1>2, GotSent
  <2> QED BY <1>1, <2>1, SMTT(30) DEF TypeOK, Wanted
<1>4. CASE WriteString
  <2>1. PICK s \in Wanted : cur' = s /\ obuf' = Encode(s)
    BY <1>4 DEF WriteString, Wanted
  <2>2. obuf' # <<>>
    <3>1. Encode(s) \in Seq(Nat) /\ Len(Encode(s)) = 1 + Len(Size(s)) + Len(s)
      BY Encoded
    <3>2. Len(Size(s)) \in Nat /\ Len(s) \in Nat
      BY Sizes
    <3>3. Len(Encode(s)) # 0
      BY <3>1, <3>2
    <3> QED BY <2>1, <3>3, EmptySeq
  <2>3. wst = "open" /\ obuf = <<>> /\ UNCHANGED <<sent, wst, got, result>> /\ s \in Strings
    BY <1>4 DEF WriteString, readVars, Wanted
  <2>4. Channel!Send
    BY <2>1, <2>2, <2>3, Zenon DEF Channel!Send
  <2> QED BY <2>4 DEF Channel!Next
<1>5. CASE Transfer
  <2>1. PICK k \in 1 .. Len(obuf) :
          /\ obuf' = SubSeq(obuf, k + 1, Len(obuf))
          /\ sent' = IF k = Len(obuf) THEN Append(sent, cur) ELSE sent
          /\ cur' = IF k = Len(obuf) THEN <<>> ELSE cur
    BY <1>5 DEF Transfer
  <2>2. wst = "open" /\ UNCHANGED <<wst, got, result>>
    BY <1>5 DEF Transfer, readVars
  <2>3. obuf \in Seq(Nat) /\ Len(obuf) \in Nat /\ k \in 0 .. Len(obuf) /\ obuf # <<>>
    BY <1>1 DEF TypeOK
  <2>4. Len(obuf') = Len(obuf) - k /\ obuf' \in Seq(Nat)
    BY <2>1, <2>3, CutInTwo
  <2>5. CASE k = Len(obuf)
    <3>1. obuf' = <<>>
      BY <2>3, <2>4, <2>5, EmptySeq
    <3>2. cur \in Wanted /\ sent' = Append(sent, cur)
      <4>1. sent' = Append(sent, cur)
        BY <2>1, <2>5
      <4>2. wst = "open" /\ obuf # <<>> => cur \in Wanted
        BY <1>1, <1>2, SenderInString
      <4> QED BY <2>2, <2>3, <4>1, <4>2
    <3>3. SubSeq(sent', Len(got) + 1, Len(sent')) = SubSeq(sent, Len(got) + 1, Len(sent)) \o <<cur>>
      BY <1>3, <3>2, RestAppended
    <3>4. <<cur>> # <<>>
      OBVIOUS
    <3>5. Channel!Sent
      BY <2>2, <2>3, <3>1, <3>3, <3>4, Zenon DEF Channel!Sent
    <3> QED BY <3>5 DEF Channel!Next
  <2>6. CASE k # Len(obuf)
    <3>1. Len(obuf') # 0
      BY <2>3, <2>4, <2>6
    <3>2. obuf' # <<>> /\ sent' = sent /\ cur' = cur
      BY <2>1, <2>6, <3>1
    <3>3. UNCHANGED Channel!vars
      BY <2>2, <2>3, <3>2, Zenon DEF Channel!vars
    <3> QED BY <3>3
  <2> QED BY <2>5, <2>6
<1>6. CASE Close
  <2>1. /\ wst = "open" /\ wst' = (IF obuf = <<>> \/ obuf = Encode(cur) THEN "closed" ELSE "cut")
        /\ obuf' = <<>> /\ UNCHANGED <<sent, got, result>>
    BY <1>6 DEF Close, readVars
  <2>2. <<cur>> # <<>>
    OBVIOUS
  <2>3. wst' \in IF (IF obuf = <<>> THEN <<>> ELSE <<cur>>) = <<>> THEN {"closed"} ELSE {"closed", "cut"}
    BY <2>1, <2>2
  <2>4. Channel!Close
    BY <2>1, <2>3, Zenon DEF Channel!Close
  <2> QED BY <2>4 DEF Channel!Next
<1>7. CASE ReadPacket
  <2>1. UNCHANGED <<sent, cur, obuf, wst, got, result>>
    BY <1>7 DEF ReadPacket, senderVars
  <2>2. UNCHANGED Channel!vars
    BY <2>1, Zenon DEF Channel!vars
  <2> QED BY <2>2
<1>8. CASE ReadEof
  <2>1. Len(got) = Len(sent) /\ (phase = "one" <=> wst # "cut")
    BY <1>1, <1>2, <1>8, AtTheEnd
  <2>2. /\ result = "receive" /\ UNCHANGED <<sent, cur, obuf, wst, got>>
        /\ wst # "open" /\ result' = IF phase = "one" THEN "false" ELSE "throw"
    BY <1>8 DEF ReadEof, senderVars
  <2>3. SubSeq(sent, Len(got) + 1, Len(sent)) = <<>>
    BY <1>3, <2>1, RestEmpty
  <2>4. wst \in {"closed", "cut"}
    BY <1>1, <2>2 DEF TypeOK
  <2>5. CASE wst = "closed"
    <3>1. result' = "false"
      BY <2>1, <2>2, <2>5
    <3>2. Channel!ReceiveEof
      BY <2>2, <2>3, <2>5, <3>1, Zenon DEF Channel!ReceiveEof
    <3> QED BY <3>2 DEF Channel!Next
  <2>6. CASE wst = "cut"
    <3>1. result' = "throw"
      BY <2>1, <2>2, <2>6
    <3>2. Channel!ReceiveThrows
      BY <2>2, <2>3, <2>6, <3>1, Zenon DEF Channel!ReceiveThrows
    <3> QED BY <3>2 DEF Channel!Next
  <2> QED BY <2>4, <2>5, <2>6
<1>9. CASE Consume
  <2>1. /\ got' = got \/ (Len(got) < Len(sent) /\ got' = Append(got, sent[Len(got) + 1]))
        /\ result' = result
    BY <1>1, <1>2, <1>9, ConsumeKeeps, Zenon
  <2>2. UNCHANGED <<sent, cur, obuf, wst>> /\ result = "receive"
    BY <1>9 DEF Consume, senderVars
  <2>3. CASE got' = got
    <3>1. UNCHANGED Channel!vars
      BY <2>1, <2>2, <2>3, Zenon DEF Channel!vars
    <3> QED BY <3>1
  <2>4. CASE Len(got) < Len(sent) /\ got' = Append(got, sent[Len(got) + 1])
    <3> PICK r : r = SubSeq(sent, Len(got) + 1, Len(sent))
      OBVIOUS
    <3>1. r # <<>> /\ Head(r) = sent[Len(got) + 1]
          /\ Tail(r) = SubSeq(sent, Len(got) + 1 + 1, Len(sent))
      BY <1>3, <2>4, RestTaken
    <3>2. Len(got') = Len(got) + 1
      <4>1. Len(got) + 1 \in 1 .. Len(sent)
        BY <1>3, <2>4
      <4>2. got \in Seq(Wanted) /\ sent[Len(got) + 1] \in Wanted
        BY <1>1, <1>3, <4>1 DEF TypeOK, Wanted
      <4> QED BY <2>4, <4>2, AppendProperties
    <3>3. SubSeq(sent', Len(got') + 1, Len(sent')) = Tail(r)
      BY <2>2, <3>1, <3>2, Zenon
    <3>4. Channel!Receive
      BY <2>1, <2>2, <2>4, <3>1, <3>3, Zenon DEF Channel!Receive
    <3> QED BY <3>4 DEF Channel!Next
  <2> QED BY <2>1, <2>3, <2>4
<1>10. CASE UNCHANGED vars
  <2>1. UNCHANGED <<sent, cur, obuf, wst, got, result>>
    BY <1>10 DEF vars, senderVars, readVars
  <2>2. UNCHANGED Channel!vars
    BY <2>1, Zenon DEF Channel!vars
  <2> QED BY <2>2
<1> QED BY <1>4, <1>5, <1>6, <1>7, <1>8, <1>9, <1>10 DEF Next, Receiver

\* sWrite and sRead implement the channel of strings: what was sent whole is received, once and in
\* order, however the bytes are cut into packets; and the end tells whether a string was cut off.
THEOREM Implements == Spec => ImplementsChannel
<1>1. Init => Channel!Init
  <2> SUFFICES ASSUME Init PROVE Channel!Init
    OBVIOUS
  <2>1. sent = <<>> /\ got = <<>> /\ obuf = <<>> /\ wst = "open" /\ result = "receive"
    BY DEF Init
  <2>2. SubSeq(sent, Len(got) + 1, Len(sent)) = <<>>
    <3>1. sent \in Seq(Wanted) /\ Len(got) = Len(sent)
      BY <2>1
    <3> QED BY <3>1, RestEmpty
  <2> QED BY <2>1, <2>2, Zenon DEF Channel!Init
<1>2. IInv /\ IInv' /\ [Next]_vars => [Channel!Next]_(Channel!vars)
  BY StepMaps
<1> QED BY <1>1, <1>2, Invariance, PTL DEF Spec, ImplementsChannel, Channel!Spec

=============================================================================
