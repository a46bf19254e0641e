----------------------------- MODULE AwgRunner -----------------------------
(***************************************************************************)
(* The AmneziaWG runner (amneziawg.go): StartAmneziaWg and StopAmneziaWg   *)
(* on the one active runner, the accept loop of its SOCKS5 listener, and   *)
(* the goroutines of its connections: the two copiers of a CONNECT and the *)
(* four kinds of goroutine of a UDP ASSOCIATE.                             *)
(*                                                                         *)
(* awgGlobalMu is held from the beginning to the end of a start or a stop: *)
(* op is the call that holds it and at its next statement.  The identity   *)
(* of a runner is used again when nothing refers to it any more.           *)
(***************************************************************************)
EXTENDS Naturals, FiniteSets

CONSTANTS
  MaxRunners,   \* bound: how many runners something still refers to
  Conns,        \* the connections that clients of the SOCKS port make
  Sources,      \* the UDP addresses that datagrams come from
  Families      \* the address families of their destinations

ASSUME AwgAssumption == MaxRunners \in Nat \ {0} /\ "none" \notin Sources

Runners == 1..MaxRunners

VARIABLES
  op, at,           \* who holds awgGlobalMu, and where it is
  building,         \* the runner that a start has built
  activeAwgRunner,  \* 0 is nil
  runner,           \* per runner: device, listener, context, accept loop
  conn              \* per connection: its handler and what that has started

hostVars == <<op, at, building, activeAwgRunner>>
vars == <<hostVars, runner, conn>>

NoRunner == [dev |-> "none", listener |-> FALSE, running |-> FALSE, ctx |-> "none",
             accepting |-> FALSE]

\* at: where the handler is.  copier and done: the goroutines of a CONNECT and
\* their channel.  The rest is a UDP association: watch are the goroutines that
\* wait for the control connection and for the context, reader the one that
\* reads datagrams ("none" when it has ended) with the datagram it works on, and
\* respond the response loops, one for each tunnel socket that was opened.
NoConn == [r |-> 0, at |-> "none", peer |-> TRUE, copier |-> {}, done |-> 0,
           watch |-> {}, reader |-> "none", src |-> "none", fam |-> "none", clientAddr |-> "none",
           tunnels |-> {}, respond |-> {}, tunnelsClosed |-> FALSE, finished |-> FALSE,
           served |-> {}]

AwgInit ==
  /\ op = "none" /\ at = "none"
  /\ building = 0 /\ activeAwgRunner = 0
  /\ runner = [r \in Runners |-> NoRunner]
  /\ conn = [k \in Conns |-> NoConn]

Cancelled(k) == runner[conn[k].r].ctx = "done"
DeviceUp(k) == runner[conn[k].r].dev = "up"

\* No goroutine of a connection is left.
Quiet(k) == /\ conn[k].at \in {"none", "over"}
            /\ conn[k].copier = {} /\ conn[k].watch = {}
            /\ conn[k].reader = "none" /\ conn[k].respond = {}

-----------------------------------------------------------------------------
(* StartAmneziaWg and StopAmneziaWg.                                       *)

Return == op' = "none" /\ at' = "none"

StartEnter ==
  /\ op = "none"
  /\ op' = "start"
  /\ at' = IF activeAwgRunner = 0 THEN "build" ELSE "cancel"
  /\ UNCHANGED <<building, activeAwgRunner, runner, conn>>

StopEnter ==
  /\ op = "none" /\ activeAwgRunner # 0
  /\ op' = "stop" /\ at' = "cancel"
  /\ UNCHANGED <<building, activeAwgRunner, runner, conn>>

\* AmneziaWgRunner.Stop: the flag and the context, the listener, the device.
StopCancel ==
  /\ at = "cancel"
  /\ runner' = [runner EXCEPT ![activeAwgRunner].running = FALSE, ![activeAwgRunner].ctx = "done"]
  /\ at' = "closeListener"
  /\ UNCHANGED <<op, building, activeAwgRunner, conn>>

StopListener ==
  /\ at = "closeListener"
  /\ runner' = [runner EXCEPT ![activeAwgRunner].listener = FALSE]
  /\ at' = "closeDevice"
  /\ UNCHANGED <<op, building, activeAwgRunner, conn>>

StopDevice ==
  /\ at = "closeDevice"
  /\ runner' = [runner EXCEPT ![activeAwgRunner].dev = "closed"]
  /\ activeAwgRunner' = 0
  /\ IF op = "start" THEN at' = "build" /\ UNCHANGED op ELSE Return
  /\ UNCHANGED <<building, conn>>

Unused(r) ==
  /\ r # activeAwgRunner /\ ~runner[r].accepting
  /\ \A k \in Conns : conn[k].r = r => Quiet(k)

\* ParseAmneziaWgSettings and NewAmneziaWgRunner, which closes the device that
\* it cannot configure.
Build ==
  /\ at = "build"
  /\ \/ /\ \E r \in Runners :
             /\ Unused(r)
             /\ building' = r
             /\ runner' = [runner EXCEPT ![r] = [NoRunner EXCEPT !.dev = "created"]]
        /\ at' = "up" /\ UNCHANGED op
     \/ Return /\ UNCHANGED <<building, runner>>
  /\ UNCHANGED <<activeAwgRunner, conn>>

\* AmneziaWgRunner.Start: dev.Up and protectPeerSockets ...
DeviceUpStep ==
  /\ at = "up"
  /\ \/ /\ runner' = [runner EXCEPT ![building].dev = "up"]
        /\ at' = "listen" /\ UNCHANGED op
     \/ /\ runner' = [runner EXCEPT ![building].dev = "closed"]
        /\ Return
  /\ UNCHANGED <<building, activeAwgRunner, conn>>

\* ... and the listener, the context and the accept loop.  The port may be taken.
ListenFailureKeepsDevice ==
  /\ at = "listen"
  /\ \/ /\ \A r \in Runners : ~runner[r].listener
        /\ runner' = [runner EXCEPT ![building] = [dev |-> "up", listener |-> TRUE, running |-> TRUE,
                                               ctx |-> "live", accepting |-> TRUE]]
        /\ activeAwgRunner' = building
     \/ UNCHANGED <<runner, activeAwgRunner>>
  /\ Return
  /\ UNCHANGED <<building, conn>>

Listen ==
  /\ at = "listen"
  /\ \/ /\ \A r \in Runners : ~runner[r].listener
        /\ runner' = [runner EXCEPT ![building] = [dev |-> "up", listener |-> TRUE, running |-> TRUE,
                                               ctx |-> "live", accepting |-> TRUE]]
        /\ activeAwgRunner' = building
     \/ /\ runner' = [runner EXCEPT ![building].dev = "closed"]
        /\ UNCHANGED activeAwgRunner
  /\ Return
  /\ UNCHANGED <<building, conn>>

HostStep == StopCancel \/ StopListener \/ StopDevice \/ Build \/ DeviceUpStep \/ Listen

-----------------------------------------------------------------------------
(* serveSocks and handleSocksConn.                                         *)

Accept(r, k) ==
  /\ runner[r].accepting /\ runner[r].listener
  /\ Quiet(k)
  /\ conn' = [conn EXCEPT ![k] = [NoConn EXCEPT !.r = r, !.at = "negotiate"]]
  /\ UNCHANGED <<hostVars, runner>>

\* An error of Accept ends the loop once the context is over.
AcceptEnds(r) ==
  /\ runner[r].accepting /\ ~runner[r].listener /\ runner[r].ctx = "done"
  /\ runner' = [runner EXCEPT ![r].accepting = FALSE]
  /\ UNCHANGED <<hostVars, conn>>

\* The client closes its end.
ClientGoes(k) ==
  /\ conn[k].at # "none" /\ conn[k].peer
  /\ conn' = [conn EXCEPT ![k].peer = FALSE]
  /\ UNCHANGED <<hostVars, runner>>

\* The SOCKS negotiation and request: refused, a CONNECT that was dialled
\* through the tunnel, or an association with its socket.
Negotiate(k) ==
  /\ conn[k].at = "negotiate"
  /\ \/ conn' = [conn EXCEPT ![k].at = "over"]
     \/ /\ conn[k].peer /\ DeviceUp(k)
        /\ conn' = [conn EXCEPT ![k].at = "copy", ![k].copier = {"up", "down"}]
     \/ /\ conn[k].peer
        /\ conn' = [conn EXCEPT ![k].at = "serve", ![k].watch = {"control", "ctx"},
                                ![k].reader = "read"]
  /\ UNCHANGED <<hostVars, runner>>

-----------------------------------------------------------------------------
(* CONNECT.                                                                *)

DoneCapacityOne == 1

DoneCapacity == 2

\* A copier ends, with its stream or because a side was closed, and sends to done.
CopyEnds(k, g) ==
  /\ g \in conn[k].copier
  /\ conn[k].done < DoneCapacity
  /\ conn' = [conn EXCEPT ![k].copier = @ \ {g}, ![k].done = @ + 1]
  /\ UNCHANGED <<hostVars, runner>>

\* The select at the end of handleSocksConn, and the deferred closes.
ConnectEnds(k) ==
  /\ conn[k].at = "copy"
  /\ \/ conn[k].done > 0 /\ conn' = [conn EXCEPT ![k].at = "over", ![k].done = @ - 1]
     \/ Cancelled(k) /\ conn' = [conn EXCEPT ![k].at = "over"]
  /\ UNCHANGED <<hostVars, runner>>

-----------------------------------------------------------------------------
(* UDP ASSOCIATE.                                                          *)

\* The goroutine that drains the control connection, and the one of the context.
ControlEnds(k) ==
  /\ "control" \in conn[k].watch
  /\ ~conn[k].peer \/ conn[k].at = "over"
  /\ conn' = [conn EXCEPT ![k].watch = @ \ {"control"}, ![k].finished = TRUE]
  /\ UNCHANGED <<hostVars, runner>>

ContextEnds(k) ==
  /\ "ctx" \in conn[k].watch
  /\ Cancelled(k)
  /\ conn' = [conn EXCEPT ![k].watch = @ \ {"ctx"}, ![k].finished = TRUE]
  /\ UNCHANGED <<hostVars, runner>>

\* tunnelFor under tunnelMu: the socket of the family, opened if it is the first.
MayOpenAlways(k) == DeviceUp(k)

MayOpen(k) == ~conn[k].tunnelsClosed /\ DeviceUp(k)

\* The reader gets a datagram and the tunnel socket for it; without one it drops it.
ReadDatagram(k, s, f) ==
  /\ conn[k].reader = "read" /\ conn[k].at # "over"
  /\ \/ f \in conn[k].tunnels /\ ~conn[k].tunnelsClosed
        /\ conn' = [conn EXCEPT ![k].reader = "forward", ![k].src = s, ![k].fam = f]
     \/ f \notin conn[k].tunnels /\ MayOpen(k)
        /\ conn' = [conn EXCEPT ![k].reader = "forward", ![k].src = s, ![k].fam = f,
                                ![k].tunnels = @ \cup {f}, ![k].respond = @ \cup {f}]
  /\ UNCHANGED <<hostVars, runner>>

\* The first source is the client; only its datagrams are forwarded.
AnySource(k) == TRUE

AllowedSource(k) == conn[k].clientAddr \in {"none", conn[k].src}

Forward(k) ==
  /\ conn[k].reader = "forward"
  /\ conn' = [conn EXCEPT ![k].reader = "read",
                          ![k].clientAddr = IF @ = "none" THEN conn[k].src ELSE @,
                          ![k].served = IF AllowedSource(k) THEN @ \cup {conn[k].src} ELSE @,
                          ![k].src = "none", ![k].fam = "none"]
  /\ UNCHANGED <<hostVars, runner>>

\* A response goes to the client, if there is one already.
Reply(k, f) ==
  /\ f \in conn[k].respond /\ f \in conn[k].tunnels
  /\ conn[k].clientAddr # "none"
  /\ conn' = [conn EXCEPT ![k].served = @ \cup {conn[k].clientAddr}]
  /\ UNCHANGED <<hostVars, runner>>

\* A response loop ends when its socket, or the device under it, is closed.
RespondEnds(k, f) ==
  /\ f \in conn[k].respond
  /\ f \notin conn[k].tunnels \/ ~DeviceUp(k)
  /\ conn' = [conn EXCEPT ![k].respond = @ \ {f}, ![k].finished = TRUE]
  /\ UNCHANGED <<hostVars, runner>>

\* The deferred cleanup: first the tunnel sockets, under tunnelMu ...
CloseTunnels(k) ==
  /\ conn[k].at = "serve" /\ conn[k].finished
  /\ conn' = [conn EXCEPT ![k].at = "closeUdp", ![k].tunnelsClosed = TRUE, ![k].tunnels = {}]
  /\ UNCHANGED <<hostVars, runner>>

\* ... then the client's socket and the control connection.
CloseClient(k) ==
  /\ conn[k].at = "closeUdp"
  /\ conn' = [conn EXCEPT ![k].at = "over"]
  /\ UNCHANGED <<hostVars, runner>>

ReaderEnds(k) ==
  /\ conn[k].reader = "read" /\ conn[k].at = "over"
  /\ conn' = [conn EXCEPT ![k].reader = "none", ![k].finished = TRUE]
  /\ UNCHANGED <<hostVars, runner>>

UdpEnds(k) ==
  \/ ControlEnds(k) \/ ContextEnds(k) \/ CloseTunnels(k) \/ CloseClient(k)
  \/ Forward(k) \/ ReaderEnds(k)

-----------------------------------------------------------------------------
AwgNext ==
  \/ StartEnter \/ StopEnter \/ HostStep
  \/ \E r \in Runners : AcceptEnds(r) \/ \E k \in Conns : Accept(r, k)
  \/ \E k \in Conns :
       \/ ClientGoes(k) \/ Negotiate(k) \/ ConnectEnds(k) \/ UdpEnds(k)
       \/ \E g \in {"up", "down"} : CopyEnds(k, g)
       \/ \E f \in Families : Reply(k, f) \/ RespondEnds(k, f)
       \/ \E s \in Sources, f \in Families : ReadDatagram(k, s, f)

AwgSpec == AwgInit /\ [][AwgNext]_vars

(* Goroutines that can go on are scheduled.  A copier is sure to end only   *)
(* when both of its connections are closed; nothing is assumed about what   *)
(* clients send, nor that a negotiation makes progress.                     *)
FairAwgSpec ==
  /\ AwgSpec
  /\ WF_vars(HostStep)
  /\ \A r \in Runners : WF_vars(AcceptEnds(r))
  /\ \A k \in Conns :
       /\ WF_vars(ConnectEnds(k)) /\ WF_vars(ControlEnds(k)) /\ WF_vars(ContextEnds(k))
       /\ WF_vars(CloseTunnels(k)) /\ WF_vars(CloseClient(k))
       /\ WF_vars(Forward(k)) /\ WF_vars(ReaderEnds(k))
       /\ \A g \in {"up", "down"} : WF_vars(conn[k].at = "over" /\ CopyEnds(k, g))
       /\ \A f \in Families : WF_vars(RespondEnds(k, f))

-----------------------------------------------------------------------------
RunnerStates == [dev : {"none", "created", "up", "closed"}, listener : BOOLEAN,
                 running : BOOLEAN, ctx : {"none", "live", "done"}, accepting : BOOLEAN]

ConnStates == [r : 0..MaxRunners, at : {"none", "negotiate", "copy", "serve", "closeUdp", "over"},
               peer : BOOLEAN, copier : SUBSET {"up", "down"}, done : 0..DoneCapacity,
               watch : SUBSET {"control", "ctx"}, reader : {"none", "read", "forward"},
               src : Sources \cup {"none"}, fam : Families \cup {"none"},
               clientAddr : Sources \cup {"none"}, tunnels : SUBSET Families,
               respond : SUBSET Families, tunnelsClosed : BOOLEAN, finished : BOOLEAN,
               served : SUBSET Sources]

(* Every variable has a value that its Go counterpart can have, and a      *)
(* runner that is active is running whenever awgGlobalMu is free.          *)
AwgTypeOK ==
  /\ op \in {"none", "start", "stop"}
  /\ at \in {"none", "cancel", "closeListener", "closeDevice", "build", "up", "listen"}
  /\ {building, activeAwgRunner} \subseteq 0..MaxRunners
  /\ runner \in [Runners -> RunnerStates]
  /\ conn \in [Conns -> ConnStates]
  /\ op = "none" /\ activeAwgRunner # 0 => runner[activeAwgRunner].running

(* Whenever awgGlobalMu is free, the only device and the only listener are *)
(* those of the active runner: no failed start and no stop leaves a tunnel *)
(* up or the SOCKS port taken.                                             *)
OnlyActiveRunnerIsUp ==
  op = "none" =>
    \A r \in Runners :
      /\ runner[r].dev \in {"created", "up"} => r = activeAwgRunner
      /\ runner[r].listener <=> r = activeAwgRunner

(* The state is well typed, the active runner is one that runs, and it is  *)
(* the only one that is up.                                                *)
AwgInv == AwgTypeOK /\ OnlyActiveRunnerIsUp

(* An association never serves two sources: every datagram that goes into  *)
(* the tunnel, and every answer that comes out, is of the client that sent *)
(* the first one (amneziawg.go:1248 "accepting packets from a different    *)
(* source would expose the tunnel to unrelated local processes").          *)
OneClient == \A k \in Conns : Cardinality(conn[k].served) <= 1

(* An association that is over has closed all its tunnel sockets, although *)
(* its reader may be opening one while the cleanup runs.                   *)
TunnelSocketsClosed == \A k \in Conns : conn[k].at = "over" => conn[k].tunnels = {}

(* The inductive strengthening of AwgInv: what a start or a stop has done  *)
(* at each of its statements.                                              *)
RunnersFollowCall ==
  /\ op = "none" <=> at = "none"
  /\ at \in {"cancel", "closeListener", "closeDevice"} => activeAwgRunner # 0
  /\ at \in {"build", "up", "listen"} => activeAwgRunner = 0 /\ op = "start"
  /\ at \in {"up", "listen"} => building # 0
  /\ \A r \in Runners :
       /\ runner[r].dev \in {"created", "up"} =>
            r = activeAwgRunner \/ (r = building /\ at \in {"up", "listen"})
       /\ runner[r].listener <=> r = activeAwgRunner /\ at # "closeDevice"
       /\ r = activeAwgRunner /\ at \in {"none", "cancel"} => runner[r].running

(* That of TunnelSocketsClosed: only an association that is served has     *)
(* tunnel sockets, and its reader cannot open one any more during cleanup. *)
SocketsFollowHandler(k) ==
  /\ conn[k].at # "serve" => conn[k].tunnels = {}
  /\ conn[k].at = "closeUdp" => conn[k].tunnelsClosed
  /\ conn[k].reader # "none" => conn[k].at \in {"serve", "closeUdp", "over"}

(* That of OneClient: only the client's address was served, and the reader *)
(* that forwards a datagram has its source.                                *)
ServedIsClient(k) ==
  /\ conn[k].served \subseteq {conn[k].clientAddr} \ {"none"}
  /\ conn[k].reader = "forward" => conn[k].src # "none"

(* After a stop nothing goes on serving: the accept loop ends, and so does *)
(* every goroutine of a connection whose request was accepted.             *)
StopEndsServing ==
  /\ \A r \in Runners : runner[r].ctx = "done" ~> ~runner[r].accepting
  /\ \A k \in Conns :
       (conn[k].at \in {"copy", "serve"} /\ Cancelled(k)) ~> Quiet(k)
=============================================================================
