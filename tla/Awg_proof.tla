----------------------------- MODULE Awg_proof -----------------------------
(***************************************************************************)
(* The two halves of AmneziaWG.  The runner leaves nothing up, serves one  *)
(* client and closes its tunnel sockets, for any number of runners,        *)
(* connections, sources and address families.  A start configures a device *)
(* within the limits and finds its endpoints fairly and in time, for any   *)
(* configuration, any number of peers and servers, and any answers.        *)
(***************************************************************************)
EXTENDS AwgRunner, AwgConfig, FiniteSetTheorems, SequenceTheorems, WellFoundedInduction, TLAPS

USE AwgAssumption

-----------------------------------------------------------------------------
(* The runner: which steps touch what.                                     *)

ConnStep(k) ==
  \/ ClientGoes(k) \/ Negotiate(k) \/ ConnectEnds(k) \/ UdpEnds(k)
  \/ \E g \in {"up", "down"} : CopyEnds(k, g)
  \/ \E f \in Families : Reply(k, f) \/ RespondEnds(k, f)
  \/ \E s \in Sources, f \in Families : ReadDatagram(k, s, f)

CallStep == StartEnter \/ StopEnter \/ HostStep

LEMMA AwgSteps ==
  ASSUME [AwgNext]_vars
  PROVE  \/ CallStep
         \/ \E r \in Runners : AcceptEnds(r)
         \/ \E r \in Runners, k \in Conns : Accept(r, k)
         \/ \E k \in Conns : ConnStep(k)
         \/ UNCHANGED vars
BY DEF AwgNext, CallStep, ConnStep

(* A step of a connection changes that connection alone.                   *)
LEMMA ConnStepIsLocal ==
  ASSUME NEW k \in Conns, ConnStep(k)
  PROVE  UNCHANGED <<hostVars, runner>>
BY DEF ConnStep, ClientGoes, Negotiate, ConnectEnds, UdpEnds, CopyEnds, Reply, RespondEnds,
       ReadDatagram, ControlEnds, ContextEnds, CloseTunnels, CloseClient, Forward, ReaderEnds

-----------------------------------------------------------------------------
(* Type correctness.                                                       *)

CallTypeOK ==
  /\ op \in {"none", "start", "stop"}
  /\ at \in {"none", "cancel", "closeListener", "closeDevice", "build", "up", "listen"}
  /\ building \in 0..MaxRunners /\ activeAwgRunner \in 0..MaxRunners
  /\ runner \in [Runners -> RunnerStates]

LEMMA NoRunnerType == NoRunner \in RunnerStates
BY DEF NoRunner, RunnerStates

LEMMA NoConnType == NoConn \in ConnStates
BY DEF NoConn, ConnStates, DoneCapacity

LEMMA AwgTypeInit == AwgInit => CallTypeOK /\ conn \in [Conns -> ConnStates]
BY NoRunnerType, NoConnType DEF AwgInit, CallTypeOK

LEMMA CallTypeNext ==
  ASSUME CallTypeOK, RunnersFollowCall, CallStep
  PROVE  CallTypeOK'
<1> USE DEF CallTypeOK
<1>1. CASE StartEnter BY <1>1 DEF StartEnter
<1>2. CASE StopEnter BY <1>2 DEF StopEnter
<1>3. CASE StopCancel \/ StopListener \/ StopDevice
  <2>1. activeAwgRunner \in Runners /\ runner[activeAwgRunner] \in RunnerStates
    BY <1>3 DEF RunnersFollowCall, StopCancel, StopListener, StopDevice, Runners
  <2>2. CASE StopCancel
    BY <2>1, <2>2 DEF StopCancel, RunnerStates
  <2>3. CASE StopListener
    BY <2>1, <2>3 DEF StopListener, RunnerStates
  <2>4. CASE StopDevice
    BY <2>1, <2>4 DEF StopDevice, RunnerStates, Return
  <2> QED BY <1>3, <2>2, <2>3, <2>4
<1>4. CASE Build
  <2>1. ASSUME NEW r \in Runners, building' = r,
               runner' = [runner EXCEPT ![r] = [NoRunner EXCEPT !.dev = "created"]]
        PROVE  runner' \in [Runners -> RunnerStates] /\ building' \in 0..MaxRunners
    <3>1. [NoRunner EXCEPT !.dev = "created"] \in RunnerStates
      BY DEF NoRunner, RunnerStates
    <3> QED BY <2>1, <3>1 DEF Runners
  <2> QED BY <1>4, <2>1 DEF Build, Return
<1>5. CASE DeviceUpStep \/ Listen
  <2>1. building \in Runners /\ runner[building] \in RunnerStates
    BY <1>5 DEF RunnersFollowCall, DeviceUpStep, Listen, Runners
  <2>2. CASE DeviceUpStep
    BY <2>1, <2>2 DEF DeviceUpStep, RunnerStates, Return
  <2>3. CASE Listen
    <3>1. [dev |-> "up", listener |-> TRUE, running |-> TRUE, ctx |-> "live", accepting |-> TRUE]
            \in RunnerStates
      BY DEF RunnerStates
    <3>2. [runner[building] EXCEPT !.dev = "closed"] \in RunnerStates
      BY <2>1 DEF RunnerStates
    <3> QED BY <2>1, <2>3, <3>1, <3>2 DEF Listen, Return
  <2> QED BY <1>5, <2>2, <2>3
<1> QED BY <1>1, <1>2, <1>3, <1>4, <1>5 DEF CallStep, HostStep

LEMMA ConnTypeNext ==
  ASSUME conn \in [Conns -> ConnStates], NEW k \in Conns, ServedIsClient(k), ConnStep(k)
  PROVE  conn' \in [Conns -> ConnStates]
<1>1. conn[k] \in ConnStates
  OBVIOUS
<1> USE <1>1 DEF ConnStates, DoneCapacity
<1>2. CASE ClientGoes(k)
  BY <1>2, ZenonT(40) DEF ClientGoes
<1>3. CASE Negotiate(k)
  BY <1>3 DEF Negotiate
<1>4. CASE ConnectEnds(k)
  BY <1>4 DEF ConnectEnds
<1>5. CASE ControlEnds(k)
  BY <1>5, ZenonT(40) DEF ControlEnds
<1>6. CASE ContextEnds(k)
  BY <1>6, ZenonT(40) DEF ContextEnds
<1>7. CASE CloseTunnels(k)
  BY <1>7, ZenonT(40) DEF CloseTunnels
<1>8. CASE CloseClient(k) \/ ReaderEnds(k)
  BY <1>8 DEF CloseClient, ReaderEnds
<1>9. CASE Forward(k)
  <2>1. conn[k].src \in Sources
    BY <1>9 DEF Forward, ServedIsClient
  <2> DEFINE c == conn[k]
             a == IF c.clientAddr = "none" THEN c.src ELSE c.clientAddr
             v == IF AllowedSource(k) THEN c.served \cup {c.src} ELSE c.served
  <2>2. a \in Sources \cup {"none"}
    BY <2>1
  <2>3. v \in SUBSET Sources
    BY <2>1
  <2>4. conn' = [conn EXCEPT ![k].reader = "read", ![k].clientAddr = a, ![k].served = v,
                             ![k].src = "none", ![k].fam = "none"]
    BY <1>9 DEF Forward
  <2> HIDE DEF a, v
  <2> QED BY <2>2, <2>3, <2>4, ZenonT(90)
<1>10. ASSUME NEW g \in {"up", "down"}, CopyEnds(k, g) PROVE conn' \in [Conns -> ConnStates]
  BY <1>10 DEF CopyEnds
<1>11. ASSUME NEW f \in Families, Reply(k, f) PROVE conn' \in [Conns -> ConnStates]
  BY <1>11, ZenonT(40) DEF Reply
<1>12. ASSUME NEW f \in Families, RespondEnds(k, f) PROVE conn' \in [Conns -> ConnStates]
  BY <1>12, ZenonT(40) DEF RespondEnds
<1>13. ASSUME NEW s \in Sources, NEW f \in Families, ReadDatagram(k, s, f)
       PROVE  conn' \in [Conns -> ConnStates]
  BY <1>13, SMTT(30) DEF ReadDatagram
<1> QED
  BY <1>2, <1>3, <1>4, <1>5, <1>6, <1>7, <1>8, <1>9, <1>10, <1>11, <1>12, <1>13
  DEF ConnStep, UdpEnds

FreshConn(r) == [NoConn EXCEPT !.r = r, !.at = "negotiate"]

LEMMA FreshConnType ==
  ASSUME NEW r \in Runners
  PROVE  /\ FreshConn(r) \in ConnStates
         /\ FreshConn(r).at = "negotiate" /\ FreshConn(r).reader = "none"
         /\ FreshConn(r).tunnels = {} /\ FreshConn(r).served = {}
<1> DEFINE bound == [NoConn EXCEPT !.r = r]
<1>1. NoConn.reader = "none" /\ NoConn.tunnels = {} /\ NoConn.served = {}
  BY DEF NoConn
<1>2. /\ bound \in ConnStates
      /\ bound.reader = "none" /\ bound.tunnels = {} /\ bound.served = {}
  <2> HIDE DEF NoConn
  <2> QED BY <1>1, NoConnType DEF ConnStates, Runners
<1> HIDE DEF bound
<1>3. FreshConn(r) = [bound EXCEPT !.at = "negotiate"]
  BY Zenon DEF FreshConn, bound
<1> QED BY <1>2, <1>3 DEF ConnStates

LEMMA AcceptType ==
  ASSUME conn \in [Conns -> ConnStates], NEW r \in Runners, NEW k \in Conns, Accept(r, k)
  PROVE  conn' \in [Conns -> ConnStates] /\ conn'[k] = FreshConn(r)
<1>1. conn' = [conn EXCEPT ![k] = FreshConn(r)]
  BY Zenon DEF Accept, FreshConn
<1> QED BY <1>1, FreshConnType

LEMMA AcceptEndsType ==
  ASSUME CallTypeOK, NEW r \in Runners, AcceptEnds(r)
  PROVE  CallTypeOK'
<1>1. runner[r] \in RunnerStates
  BY DEF CallTypeOK
<1>2. [runner[r] EXCEPT !.accepting = FALSE] \in RunnerStates
  BY <1>1 DEF RunnerStates
<1> QED BY <1>2 DEF AcceptEnds, CallTypeOK, hostVars

-----------------------------------------------------------------------------
(* What a start or a stop has done so far.                                 *)

LEMMA CallNext ==
  ASSUME CallTypeOK, RunnersFollowCall, CallStep
  PROVE  RunnersFollowCall'
<1> USE DEF CallTypeOK, RunnersFollowCall, Runners
<1>r. \A r \in Runners : runner[r] \in RunnerStates
  OBVIOUS
<1>1. CASE StartEnter BY <1>1 DEF StartEnter
<1>2. CASE StopEnter BY <1>2 DEF StopEnter
<1>3. CASE StopCancel
  BY <1>3, <1>r DEF StopCancel, RunnerStates
<1>4. CASE StopListener
  BY <1>4, <1>r DEF StopListener, RunnerStates
<1>5. CASE StopDevice
  BY <1>5, <1>r DEF StopDevice, RunnerStates, Return
<1>6. CASE Build
  BY <1>6, <1>r DEF Build, RunnerStates, Return, NoRunner, Unused
<1>7. CASE DeviceUpStep
  BY <1>7, <1>r DEF DeviceUpStep, RunnerStates, Return
<1>8. CASE Listen
  BY <1>8, <1>r DEF Listen, RunnerStates, Return
<1> QED BY <1>1, <1>2, <1>3, <1>4, <1>5, <1>6, <1>7, <1>8 DEF CallStep, HostStep

LEMMA AcceptEndsKeepsCall ==
  ASSUME CallTypeOK, RunnersFollowCall, NEW r \in Runners, AcceptEnds(r)
  PROVE  RunnersFollowCall'
<1>1. runner[r] \in RunnerStates
  BY DEF CallTypeOK
<1> QED BY <1>1 DEF CallTypeOK, RunnersFollowCall, AcceptEnds, hostVars, RunnerStates

-----------------------------------------------------------------------------
(* What the goroutines of a connection may do.                             *)

AssociationOK(k) == SocketsFollowHandler(k) /\ ServedIsClient(k)

LEMMA AssociationNext ==
  ASSUME conn \in [Conns -> ConnStates], NEW k \in Conns, AssociationOK(k), ConnStep(k)
  PROVE  AssociationOK(k)'
<1>1. conn[k] \in ConnStates
  OBVIOUS
<1> USE <1>1 DEF ConnStates, AssociationOK, SocketsFollowHandler, ServedIsClient
<1>2. CASE ClientGoes(k) BY <1>2 DEF ClientGoes
<1>3. CASE Negotiate(k) BY <1>3 DEF Negotiate
<1>4. CASE ConnectEnds(k) BY <1>4 DEF ConnectEnds
<1>5. CASE ControlEnds(k) BY <1>5 DEF ControlEnds
<1>6. CASE ContextEnds(k) BY <1>6 DEF ContextEnds
<1>7. CASE CloseTunnels(k) BY <1>7 DEF CloseTunnels
<1>8. CASE CloseClient(k) BY <1>8 DEF CloseClient
<1>9. CASE ReaderEnds(k) BY <1>9 DEF ReaderEnds
<1>10. CASE Forward(k)
  <2>1. SocketsFollowHandler(k)'
    BY <1>10 DEF Forward
  <2>2. /\ conn'[k].reader = "read"
        /\ conn'[k].clientAddr = IF conn[k].clientAddr = "none" THEN conn[k].src
                                                                ELSE conn[k].clientAddr
        /\ conn'[k].served = IF AllowedSource(k) THEN conn[k].served \cup {conn[k].src}
                                                 ELSE conn[k].served
    BY <1>10 DEF Forward
  <2>3. conn[k].src # "none"
    BY <1>10 DEF Forward
  <2> QED BY <2>1, <2>2, <2>3 DEF AllowedSource
<1>11. ASSUME NEW g \in {"up", "down"}, CopyEnds(k, g) PROVE AssociationOK(k)'
  BY <1>11 DEF CopyEnds
<1>12. ASSUME NEW f \in Families, Reply(k, f) PROVE AssociationOK(k)'
  BY <1>12 DEF Reply
<1>13. ASSUME NEW f \in Families, RespondEnds(k, f) PROVE AssociationOK(k)'
  BY <1>13 DEF RespondEnds
<1>14. ASSUME NEW s \in Sources, NEW f \in Families, ReadDatagram(k, s, f)
       PROVE  AssociationOK(k)'
  BY <1>14 DEF ReadDatagram, MayOpen
<1> QED
  BY <1>2, <1>3, <1>4, <1>5, <1>6, <1>7, <1>8, <1>9, <1>10, <1>11, <1>12, <1>13, <1>14
  DEF ConnStep, UdpEnds

LEMMA ConnStepIsOfOne ==
  ASSUME conn \in [Conns -> ConnStates], NEW k \in Conns, NEW j \in Conns, j # k,
         ConnStep(k) \/ \E r \in Runners : Accept(r, k)
  PROVE  conn'[j] = conn[j]
BY DEF ConnStep, ClientGoes, Negotiate, ConnectEnds, UdpEnds, CopyEnds, Reply, RespondEnds,
       ReadDatagram, ControlEnds, ContextEnds, CloseTunnels, CloseClient, Forward, ReaderEnds, Accept

-----------------------------------------------------------------------------
AwgInductive ==
  /\ CallTypeOK /\ RunnersFollowCall
  /\ conn \in [Conns -> ConnStates]
  /\ \A k \in Conns : AssociationOK(k)

LEMMA AwgInductiveInit == AwgInit => AwgInductive
<1> SUFFICES ASSUME AwgInit PROVE AwgInductive OBVIOUS
<1>1. RunnersFollowCall
  BY DEF AwgInit, RunnersFollowCall, NoRunner, Runners
<1>2. \A k \in Conns : AssociationOK(k)
  BY DEF AwgInit, AssociationOK, SocketsFollowHandler, ServedIsClient, NoConn
<1> QED BY <1>1, <1>2, AwgTypeInit DEF AwgInductive

LEMMA AwgInductiveNext == AwgInductive /\ [AwgNext]_vars => AwgInductive'
<1> SUFFICES ASSUME AwgInductive, [AwgNext]_vars PROVE AwgInductive' OBVIOUS
<1> USE DEF AwgInductive
<1>1. CASE CallStep
  <2>1. UNCHANGED conn
    BY <1>1 DEF CallStep, StartEnter, StopEnter, HostStep, StopCancel, StopListener, StopDevice,
                Build, DeviceUpStep, Listen
  <2>2. \A k \in Conns : AssociationOK(k)'
    BY <2>1 DEF AssociationOK, SocketsFollowHandler, ServedIsClient
  <2> QED BY <1>1, <2>1, <2>2, CallTypeNext, CallNext
<1>2. ASSUME NEW r \in Runners, AcceptEnds(r) PROVE AwgInductive'
  <2>1. \A k \in Conns : AssociationOK(k)'
    BY <1>2 DEF AcceptEnds, AssociationOK, SocketsFollowHandler, ServedIsClient
  <2> QED BY <1>2, <2>1, AcceptEndsType, AcceptEndsKeepsCall DEF AcceptEnds
<1>3. ASSUME NEW k \in Conns, UNCHANGED <<hostVars, runner>>, AssociationOK(k)',
             conn' \in [Conns -> ConnStates], \A j \in Conns \ {k} : conn'[j] = conn[j]
      PROVE  AwgInductive'
  <2>1. CallTypeOK' /\ RunnersFollowCall'
    BY <1>3 DEF CallTypeOK, RunnersFollowCall, hostVars
  <2>2. \A j \in Conns : AssociationOK(j)'
    BY <1>3 DEF AssociationOK, SocketsFollowHandler, ServedIsClient
  <2> QED BY <1>3, <2>1, <2>2
<1>4. ASSUME NEW r \in Runners, NEW k \in Conns, Accept(r, k) PROVE AwgInductive'
  <2>1. AssociationOK(k)'
    BY <1>4, AcceptType, FreshConnType DEF AssociationOK, SocketsFollowHandler, ServedIsClient
  <2> QED BY <1>3, <1>4, <2>1, AcceptType, ConnStepIsOfOne DEF Accept
<1>5. ASSUME NEW k \in Conns, ConnStep(k) PROVE AwgInductive'
  <2>1. conn \in [Conns -> ConnStates] /\ AssociationOK(k)
    OBVIOUS
  <2>2. AssociationOK(k)'
    BY <1>5, <2>1, AssociationNext
  <2>3. conn' \in [Conns -> ConnStates]
    BY <1>5, <2>1, ConnTypeNext DEF AssociationOK
  <2>4. UNCHANGED <<hostVars, runner>>
    BY <1>5, ConnStepIsLocal
  <2>5. \A j \in Conns \ {k} : conn'[j] = conn[j]
    BY <1>5, <2>1, ConnStepIsOfOne
  <2> QED BY <1>3, <2>2, <2>3, <2>4, <2>5
<1>6. CASE UNCHANGED vars
  BY <1>6 DEF vars, hostVars, CallTypeOK, RunnersFollowCall, AssociationOK, SocketsFollowHandler,
              ServedIsClient
<1> QED BY <1>1, <1>2, <1>4, <1>5, <1>6, AwgSteps

(* The invariant of the runner: what every statement of a start or a stop  *)
(* has reached, and what the goroutines of a connection rely on.           *)
THEOREM AwgInvariant == AwgSpec => []AwgInductive
BY AwgInductiveInit, AwgInductiveNext, PTL DEF AwgSpec

(* No failed start and no stop leaves a tunnel up or the SOCKS port taken. *)
THEOREM OnlyTheActiveIsUp == AwgSpec => []AwgInv
<1>1. AwgInductive => AwgInv
  BY DEF AwgInductive, AwgInv, AwgTypeOK, CallTypeOK, OnlyActiveRunnerIsUp, RunnersFollowCall, Runners
<1> QED BY <1>1, AwgInvariant, PTL

(* An association serves the client that sent the first datagram, and      *)
(* nobody else.                                                            *)
THEOREM OneClientOnly == AwgSpec => []OneClient
<1>1. AwgInductive => OneClient
  <2> SUFFICES ASSUME AwgInductive, NEW k \in Conns PROVE Cardinality(conn[k].served) <= 1
    BY DEF OneClient
  <2>1. conn[k].served \subseteq {conn[k].clientAddr}
    BY DEF AwgInductive, AssociationOK, ServedIsClient
  <2>2. IsFiniteSet({conn[k].clientAddr}) /\ Cardinality({conn[k].clientAddr}) = 1
    BY FS_Singleton
  <2>3. Cardinality(conn[k].served) <= Cardinality({conn[k].clientAddr})
    BY <2>1, <2>2, FS_Subset
  <2> QED BY <2>2, <2>3
<1> QED BY <1>1, AwgInvariant, PTL

(* An association that is over has no tunnel socket left.                  *)
THEOREM NoTunnelSocketLeft == AwgSpec => []TunnelSocketsClosed
<1>1. AwgInductive => TunnelSocketsClosed
  BY DEF AwgInductive, TunnelSocketsClosed, AssociationOK, SocketsFollowHandler
<1> QED BY <1>1, AwgInvariant, PTL

-----------------------------------------------------------------------------
(* The settings: minima, addresses, and what is taken from an answer.      *)

LEMMA MinOfNaturals ==
  ASSUME NEW T, T \subseteq Nat, T # {}
  PROVE  Min(T) \in T /\ \A x \in T : Min(T) <= x
<1> DEFINE Less == {ss \in Nat \X Nat : ss[1] < ss[2]}
<1>0. IsWellFoundedOn(Less, Nat)
  BY NatLessThanWellFounded, Zenon DEF OpToRel
<1> HIDE DEF Less
<1>1. PICK x \in T : \A y \in T : ~ (<<y, x>> \in Less)
  BY <1>0, WFMin
<1>2. \A y \in T : x <= y
  <2> SUFFICES ASSUME NEW y \in T PROVE x <= y
    OBVIOUS
  <2>1. <<y, x>> \in Less <=> y < x
    BY DEF Less
  <2> QED BY <1>1, <2>1
<1> QED BY <1>2 DEF Min

LEMMA MinOfTwo ==
  ASSUME NEW a \in Int, NEW b \in Int
  PROVE  Min({a, b}) = IF a <= b THEN a ELSE b
<1> DEFINE m == IF a <= b THEN a ELSE b
           IsMin(x) == \A y \in {a, b} : x <= y
<1>1. m \in {a, b} /\ IsMin(m)
  OBVIOUS
<1>2. Min({a, b}) \in {a, b} /\ IsMin(Min({a, b}))
  BY <1>1 DEF Min
<1> QED BY <1>1, <1>2

LEMMA UnmapFacts ==
  ASSUME NEW v \in Addresses
  PROVE  /\ Unmap(v) \in Addresses /\ Unmap(v).ip = v.ip /\ ~Unmap(v).mapped
         /\ IsUnspecified(Unmap(v)) <=> v.ip \in Zeros
         /\ IsUnspecified(v) <=> v.ip \in Zeros /\ ~v.mapped
         /\ Unmap(v) = [ip |-> v.ip, mapped |-> FALSE]
<1>1. CASE v \in [ip : IPv4, mapped : BOOLEAN]
  BY <1>1 DEF Addresses, Unmap, IsUnspecified
<1>2. CASE v \in [ip : IPv6, mapped : {FALSE}]
  BY <1>2 DEF Addresses, Unmap, IsUnspecified
<1> QED BY <1>1, <1>2 DEF Addresses

\* The addresses of an answer that an endpoint may have.
Usable(answer) == {Unmap(answer[i]) : i \in DOMAIN answer} \ {v \in Addresses : v.ip \in Zeros}

LEMMA PreferredIsUsable ==
  ASSUME NEW answer \in Seq(Addresses)
  PROVE  /\ usableAmneziaWgAddresses(answer) = {} <=> Usable(answer) = {}
         /\ usableAmneziaWgAddresses(answer) # {} =>
              /\ Preferred(answer) \in Usable(answer)
              /\ Preferred(answer) \in Addresses
              /\ ~Preferred(answer).mapped /\ Preferred(answer).ip \notin Zeros
              /\ Is4(Preferred(answer)) \/ \A v \in Usable(answer) : ~Is4(v)
<1> DEFINE usable == usableAmneziaWgAddresses(answer)
           four == {k \in usable : Is4(Unmap(answer[k]))}
           T == IF four = {} THEN usable ELSE four
<1>1. \A k \in DOMAIN answer :
        /\ answer[k] \in Addresses /\ Unmap(answer[k]) \in Addresses
        /\ Unmap(answer[k]).ip = answer[k].ip /\ ~Unmap(answer[k]).mapped
        /\ IsUnspecified(Unmap(answer[k])) <=> answer[k].ip \in Zeros
  BY UnmapFacts
<1>2. Usable(answer) = {Unmap(answer[k]) : k \in usable}
  BY <1>1 DEF Usable, usableAmneziaWgAddresses
<1>3. ASSUME usable # {}
      PROVE  /\ Min(T) \in usable
             /\ Is4(Unmap(answer[Min(T)])) \/ \A k \in usable : ~Is4(Unmap(answer[k]))
  <2>1. T \subseteq Nat /\ T # {}
    BY <1>3 DEF usableAmneziaWgAddresses
  <2>2. Min(T) \in T
    BY <2>1, MinOfNaturals
  <2> QED BY <2>2
<1>4. Preferred(answer) = Unmap(answer[Min(T)])
  BY DEF Preferred
<1>5. usable \subseteq DOMAIN answer /\ \A k \in usable : answer[k].ip \notin Zeros
  BY <1>1 DEF usableAmneziaWgAddresses
<1> HIDE DEF usable, T
<1>6. ASSUME usable # {}
      PROVE  /\ Preferred(answer) \in Usable(answer) /\ Preferred(answer) \in Addresses
             /\ ~Preferred(answer).mapped /\ Preferred(answer).ip \notin Zeros
             /\ Is4(Preferred(answer)) \/ \A v \in Usable(answer) : ~Is4(v)
  BY <1>1, <1>2, <1>3, <1>4, <1>5, <1>6
<1>7. usable = {} <=> Usable(answer) = {}
  BY <1>2
<1> QED BY <1>6, <1>7 DEF usable

LEMMA AnswerIsAddresses ==
  ASSUME NEW answer \in Answers \cup {<< >>} \cup {<<v>> : v \in Addresses}
  PROVE  answer \in Seq(Addresses)
<1>1. CASE answer \in Answers
  BY <1>1, AnswersAreAddresses
<1>2. CASE answer = << >>
  BY <1>2
<1>3. ASSUME NEW v \in Addresses, answer = <<v>> PROVE answer \in Seq(Addresses)
  BY <1>3
<1> QED BY <1>1, <1>2, <1>3

-----------------------------------------------------------------------------
(* The inductive invariant of a start, one part per lemma.                 *)
ConfigInductive ==
  /\ SettingsChecked /\ EndpointsPlain /\ DeviceWritten
  /\ DeadlinesNest /\ NothingOffered /\ EndpointIsBest /\ AskedInTurn

ConfigAnswers == Answers \cup {<< >>} \cup {<<v>> : v \in Addresses}

LEMMA OutboundSettings ==
  ASSUME NEW S, NEW B, NEW q \in Seq([wireguard : B, settings : S])
  PROVE  \A k \in DOMAIN q : q[k].settings \in S
<1> DEFINE Outbound == [wireguard : B, settings : S]
<1>1. \A o \in Outbound : o.settings \in S
  OBVIOUS
<1>2. q \in Seq(Outbound)
  OBVIOUS
<1> HIDE DEF Outbound
<1>3. \A k \in DOMAIN q : q[k] \in Outbound
  BY <1>2
<1> QED BY <1>1, <1>3

LEMMA ParsedSettings ==
  ASSUME NEW config \in Configs
  PROVE  Parse(config) \in Settings \cup {NoSettings}
<1> DEFINE found == {k \in DOMAIN config.outbounds :
                       config.outbounds[k].wireguard /\ config.outbounds[k].settings.secretKey # "none"}
<1>1. /\ config.direct \in Settings \cup {NoSettings}
      /\ config.settings \in Settings \cup {NoSettings}
      /\ config.outbounds \in Seq([wireguard : BOOLEAN, settings : Settings])
  BY ConfigsAreParsed
<1>2. ASSUME found # {} PROVE config.outbounds[Min(found)].settings \in Settings
  <2>1. found \subseteq Nat /\ found \subseteq DOMAIN config.outbounds
    BY <1>1
  <2>2. Min(found) \in DOMAIN config.outbounds
    BY <1>2, <2>1, MinOfNaturals
  <2>3. \A k \in DOMAIN config.outbounds : config.outbounds[k].settings \in Settings
    BY <1>1, OutboundSettings
  <2> QED BY <2>2, <2>3
<1> DEFINE direct == config.direct # NoSettings
           whole == config.settings # NoSettings /\ config.settings.secretKey # "none"
<1>3. Parse(config) = CASE direct -> config.direct
                        [] whole -> config.settings
                        [] found # {} -> config.outbounds[Min(found)].settings
                        [] OTHER -> NoSettings
  BY DEF Parse
<1> HIDE DEF direct, whole, found
<1> QED BY <1>1, <1>2, <1>3

LEMMA SettingsCheckedNext ==
  ASSUME ConfigInductive, [ConfigNext]_configVars PROVE SettingsChecked'
<1> USE DEF SettingsChecked, Resolving, Asking
<1>1. SettingsChecked
  BY DEF ConfigInductive
<1>2. ASSUME NEW config \in Configs, NewAmneziaWgRunner(config) PROVE SettingsChecked'
  <2>1. /\ stage = "idle" /\ endpoint' = << >> /\ asked' = << >> /\ settings = NoSettings
        /\ \/ /\ stage' = "resolve" /\ settings' = Parse(config) /\ settings' # NoSettings
              /\ Compatible(settings') /\ DnsOK(settings') /\ dns' = netstackDNSAddresses(settings')
           \/ stage' = "refused" /\ settings' = settings
    BY <1>1, <1>2 DEF NewAmneziaWgRunner
  <2>2. Parse(config) \in Settings \cup {NoSettings}
    BY ParsedSettings
  <2> QED BY <2>1, <2>2
<1>3. ASSUME NEW answer \in ConfigAnswers, Result(answer) PROVE SettingsChecked'
  <2>1. /\ stage' \in {"resolve", "configured", "refused"} /\ UNCHANGED <<settings, dns>>
    BY <1>3 DEF Result, AskNext
  <2> QED BY <1>1, <1>3, <2>1 DEF Result
<1>4. CASE EndpointText \/ EndpointLiteral \/ BeginLookup \/ Tick
  BY <1>1, <1>4 DEF EndpointText, EndpointLiteral, BeginLookup, Tick
<1>5. CASE Configure
  <2>1. stage = "resolve" /\ stage' \in {"refused", "ready"} /\ UNCHANGED <<settings, dns, endpoint, asked>>
    BY <1>5 DEF Configure
  <2> QED BY <1>1, <2>1
<1>6. CASE StartReturns
  BY <1>6 DEF StartReturns
<1>7. CASE UNCHANGED configVars
  BY <1>1, <1>7 DEF configVars
<1> QED BY <1>2, <1>3, <1>4, <1>5, <1>6, <1>7 DEF ConfigNext, ConfigAnswers

LEMMA PeersTyped ==
  ASSUME SettingsChecked, settings # NoSettings
  PROVE  settings.peers \in Seq(PeerSettings) /\ Len(settings.peers) \in Nat
<1>1. settings \in Settings
  BY DEF SettingsChecked
<1> QED BY <1>1 DEF Settings

LEMMA EndpointAppended ==
  ASSUME EndpointsPlain, NEW e \in Addresses, ~e.mapped,
         e.ip \in Zeros => Peer.host.mapped,
         settings # NoSettings, settings.peers \in Seq(PeerSettings),
         Len(endpoint) < Len(settings.peers),
         endpoint' = Append(endpoint, e), settings' = settings, stage' = "resolve"
  PROVE  EndpointsPlain'
<1>1. /\ endpoint \in Seq(Addresses) /\ endpoint' \in Seq(Addresses)
      /\ Len(endpoint') = Len(endpoint) + 1
      /\ \A k \in 1..Len(endpoint) : endpoint'[k] = endpoint[k]
      /\ endpoint'[Len(endpoint) + 1] = e
  BY DEF EndpointsPlain
<1>2. ASSUME NEW k \in 1..Len(endpoint')
      PROVE  ~endpoint'[k].mapped /\ (endpoint'[k].ip \in Zeros => settings'.peers[k].host.mapped)
  <2>1. CASE k \in 1..Len(endpoint)
    BY <1>1, <2>1 DEF EndpointsPlain
  <2>2. CASE k = Len(endpoint) + 1
    BY <1>1, <2>2 DEF Peer
  <2> QED BY <1>1, <2>1, <2>2
<1>3. Len(endpoint') <= Len(settings'.peers)
  BY <1>1
<1> QED BY <1>1, <1>2, <1>3 DEF EndpointsPlain, Asking

LEMMA EndpointsPlainNext ==
  ASSUME ConfigInductive, [ConfigNext]_configVars PROVE EndpointsPlain'
<1>1. SettingsChecked /\ EndpointsPlain
  BY DEF ConfigInductive
<1>2. SettingsChecked'
  BY SettingsCheckedNext
<1>3. ASSUME UNCHANGED <<settings, endpoint>>,
             Asking' => Asking \/ (stage = "resolve" /\ Len(endpoint) < Len(settings.peers))
      PROVE  EndpointsPlain'
  BY <1>1, <1>3 DEF EndpointsPlain
<1>4. ASSUME NEW config \in Configs, NewAmneziaWgRunner(config) PROVE EndpointsPlain'
  <2>1. endpoint' = << >> /\ ~Asking'
    BY <1>1, <1>4 DEF NewAmneziaWgRunner, SettingsChecked, Asking
  <2>2. settings' # NoSettings => Len(settings'.peers) \in Nat
    BY <1>2, PeersTyped DEF SettingsChecked, Settings
  <2> QED BY <2>1, <2>2 DEF EndpointsPlain
<1>5. ASSUME NEW answer \in ConfigAnswers, Result(answer) PROVE EndpointsPlain'
  <2>1. /\ Asking /\ settings # NoSettings /\ settings' = settings
        /\ settings.peers \in Seq(PeerSettings) /\ Len(endpoint) < Len(settings.peers)
    BY <1>1, <1>5, PeersTyped DEF Result, SettingsChecked, EndpointsPlain, Resolving
  <2>2. CASE usableAmneziaWgAddresses(answer) # {}
    <3>1. endpoint' = Append(endpoint, Preferred(answer)) /\ stage' = "resolve"
      BY <1>5, <2>2 DEF Result
    <3>2. /\ Preferred(answer) \in Addresses
          /\ ~Preferred(answer).mapped /\ Preferred(answer).ip \notin Zeros
      BY <2>2, AnswerIsAddresses, PreferredIsUsable DEF ConfigAnswers
    <3> QED BY <1>1, <2>1, <3>1, <3>2, EndpointAppended
  <2>3. CASE usableAmneziaWgAddresses(answer) = {}
    BY <1>3, <1>5, <2>1, <2>3 DEF Result
  <2> QED BY <2>2, <2>3
<1>6. CASE EndpointLiteral
  <2>1. /\ stage = "resolve" /\ settings # NoSettings /\ settings' = settings /\ stage' = "resolve"
        /\ settings.peers \in Seq(PeerSettings) /\ Len(endpoint) < Len(settings.peers)
        /\ Peer.host \in Addresses /\ ~IsUnspecified(Peer.host)
        /\ endpoint' = Append(endpoint, Unmap(Peer.host))
    BY <1>1, <1>6, PeersTyped DEF EndpointLiteral, IsLiteral, SettingsChecked, Resolving
  <2>2. /\ Unmap(Peer.host) \in Addresses /\ ~Unmap(Peer.host).mapped
        /\ Unmap(Peer.host).ip \in Zeros => Peer.host.mapped
    BY <2>1, UnmapFacts
  <2> QED BY <1>1, <2>1, <2>2, EndpointAppended
<1>7. CASE EndpointText \/ BeginLookup \/ Tick
  BY <1>3, <1>7 DEF EndpointText, BeginLookup, Tick, Asking
<1>8. CASE Configure
  BY <1>3, <1>8 DEF Configure, Asking
<1>9. CASE StartReturns
  BY <1>9 DEF StartReturns, EndpointsPlain, Asking
<1>10. CASE UNCHANGED configVars
  BY <1>3, <1>10 DEF configVars, Asking
<1> QED BY <1>4, <1>5, <1>6, <1>7, <1>8, <1>9, <1>10 DEF ConfigNext, ConfigAnswers

LEMMA DeviceWrittenNext ==
  ASSUME ConfigInductive, [ConfigNext]_configVars PROVE DeviceWritten'
<1>1. DeviceWritten /\ SettingsChecked
  BY DEF ConfigInductive
<1>2. NoDevice.state # "set" /\ Closed.state # "set"
  BY DEF NoDevice, Closed
<1>3. ASSUME device' = device, stage # "ready" PROVE DeviceWritten'
  BY <1>1, <1>3 DEF DeviceWritten
<1>4. ASSUME UNCHANGED configVars PROVE DeviceWritten'
  <2>1. Written(settings)' = Written(settings)
    BY <1>4 DEF Written, configVars
  <2> QED BY <1>1, <1>4, <2>1 DEF DeviceWritten, configVars
<1>5. CASE Configure
  <2>1. /\ stage = "resolve" /\ Len(endpoint) = Len(settings.peers) /\ UNCHANGED <<settings, endpoint>>
        /\ \/ device' = device \/ device' = Closed
           \/ stage' = "ready" /\ device' = Written(settings)
    BY <1>5 DEF Configure
  <2>2. Written(settings)' = Written(settings)
    BY <2>1 DEF Written
  <2> QED BY <1>1, <1>2, <2>1, <2>2 DEF DeviceWritten
<1>6. CASE StartReturns
  BY <1>2, <1>6 DEF StartReturns, DeviceWritten
<1>7. ASSUME NEW config \in Configs, NewAmneziaWgRunner(config) PROVE DeviceWritten'
  BY <1>3, <1>7 DEF NewAmneziaWgRunner
<1>8. ASSUME NEW answer \in ConfigAnswers, Result(answer) PROVE DeviceWritten'
  BY <1>3, <1>8 DEF Result, Asking
<1>9. CASE EndpointText \/ EndpointLiteral \/ BeginLookup \/ Tick
  BY <1>3, <1>9 DEF EndpointText, EndpointLiteral, BeginLookup, Tick, Asking
<1> QED BY <1>4, <1>5, <1>6, <1>7, <1>8, <1>9 DEF ConfigNext, ConfigAnswers

LEMMA ServersArePositions ==
  ASSUME SettingsChecked, settings # NoSettings
  PROVE  /\ Servers \subseteq dns /\ dns \subseteq DnsTexts(settings)
         /\ DnsTexts(settings) \subseteq Nat \ {0} /\ Left \subseteq Servers
         /\ dns = netstackDNSAddresses(settings)
         /\ \A k \in DnsTexts(settings) : settings.dnsServers[k] \in Addresses
<1>1. settings \in Settings /\ DnsOK(settings) /\ dns = netstackDNSAddresses(settings)
  BY DEF SettingsChecked
<1>2. settings.dnsServers \in Seq(Addresses \cup {Name, Blank})
  BY <1>1 DEF Settings
<1>3. DOMAIN settings.dnsServers \subseteq Nat \ {0}
  BY <1>2
<1> QED BY <1>1, <1>3 DEF DnsOK, DnsTexts, netstackDNSAddresses, Servers, Left

(* A server is given a second, or what is left of the three.               *)
LEMMA AskNextEffect ==
  ASSUME ConfigInductive, settings # NoSettings, AskNext
  PROVE  \/ /\ Left # {} /\ (stage = "configured" => now < deadline)
            /\ stage' = "configured" /\ server' \in Left /\ \A k \in Left : server' <= k
            /\ attemptEnds' = IF now + Second <= deadline THEN now + Second ELSE deadline
            /\ attemptEnds' \in Nat
         \/ /\ Left = {} \/ (stage = "configured" /\ ~(now < deadline))
            /\ stage' = "refused" /\ UNCHANGED <<server, attemptEnds>>
<1>1. now \in Nat /\ deadline \in Nat /\ Second \in Nat /\ SettingsChecked
  BY AwgConfigAssumption DEF ConfigInductive, DeadlinesNest
<1>2. Left \subseteq Nat
  BY <1>1, ServersArePositions
<1>3. Left # {} => Min(Left) \in Left /\ \A k \in Left : Min(Left) <= k
  BY <1>2, MinOfNaturals
<1>4. now + Second \in Int /\ deadline \in Int
  BY <1>1
<1>5. Min({now + Second, deadline}) = IF now + Second <= deadline THEN now + Second ELSE deadline
  BY <1>4, MinOfTwo
<1> QED BY <1>1, <1>3, <1>5 DEF AskNext

LEMMA ResultEffect ==
  ASSUME ConfigInductive, NEW answer \in ConfigAnswers, Result(answer)
  PROVE  /\ answer \in Seq(Addresses) /\ settings # NoSettings
         /\ Asking /\ now <= attemptEnds /\ UNCHANGED <<settings, dns, deadline, now, device>>
         /\ asked' = Append(asked, [server |-> server, expired |-> now = attemptEnds,
                                    ended |-> now, answer |-> answer])
         /\ \/ /\ Usable(answer) # {}
               /\ endpoint' = Append(endpoint, Preferred(answer)) /\ stage' = "resolve"
               /\ UNCHANGED <<server, attemptEnds>>
            \/ Usable(answer) = {} /\ AskNext /\ endpoint' = endpoint
<1>1. answer \in Seq(Addresses)
  BY AnswerIsAddresses DEF ConfigAnswers
<1>2. Asking /\ settings # NoSettings /\ now <= attemptEnds
  BY DEF Result, ConfigInductive, SettingsChecked, Resolving, DeadlinesNest
<1>3. usableAmneziaWgAddresses(answer) = {} <=> Usable(answer) = {}
  BY <1>1, PreferredIsUsable
<1> QED BY <1>1, <1>2, <1>3 DEF Result

LEMMA DeadlinesNestNext ==
  ASSUME ConfigInductive, [ConfigNext]_configVars PROVE DeadlinesNest'
<1> DEFINE Limit(n) == 3 * Second * n
<1>1. DeadlinesNest /\ SettingsChecked /\ EndpointsPlain
  BY DEF ConfigInductive
<1>2. Second \in Nat \ {0} /\ Len(endpoint) \in Nat
  BY <1>1, AwgConfigAssumption DEF EndpointsPlain
<1>3. ASSUME UNCHANGED <<endpoint, deadline, attemptEnds, now>>,
             stage' # "refused" => stage' = stage
      PROVE  DeadlinesNest'
  BY <1>1, <1>3 DEF DeadlinesNest, Asking
<1>4. ASSUME NEW config \in Configs, NewAmneziaWgRunner(config) PROVE DeadlinesNest'
  BY <1>1, <1>4 DEF NewAmneziaWgRunner, lookup, DeadlinesNest, Asking
<1>5. ASSUME NEW answer \in ConfigAnswers, Result(answer) PROVE DeadlinesNest'
  <2>1. /\ Asking /\ now <= attemptEnds /\ settings # NoSettings
        /\ now \in Nat /\ deadline \in Nat /\ attemptEnds \in Nat
        /\ UNCHANGED <<deadline, now>>
        /\ attemptEnds <= deadline /\ deadline <= Limit(Len(endpoint) + 1)
    BY <1>1, <1>5, ResultEffect DEF DeadlinesNest
  <2>2. CASE stage' = "resolve" /\ endpoint' = Append(endpoint, Preferred(answer)) /\ attemptEnds' = attemptEnds
    <3>1. Len(endpoint') = Len(endpoint) + 1
      BY <2>2, EndpointsPlainNext, <1>1 DEF EndpointsPlain
    <3>2. Limit(Len(endpoint')) \in Int /\ now <= Limit(Len(endpoint'))
      BY <1>2, <2>1, <3>1
    <3> QED BY <2>1, <2>2, <3>2 DEF DeadlinesNest, Asking
  <2>3. CASE AskNext /\ endpoint' = endpoint
    <3>1. \/ /\ stage' = "configured" /\ attemptEnds' \in Nat
             /\ attemptEnds' = IF now + Second <= deadline THEN now + Second ELSE deadline
          \/ stage' = "refused" /\ attemptEnds' = attemptEnds
      BY <2>1, <2>3, AskNextEffect
    <3>2. now <= deadline
      BY <2>1
    <3> QED BY <1>2, <2>1, <2>3, <3>1, <3>2 DEF DeadlinesNest, Asking
  <2> QED BY <1>5, <2>2, <2>3, ResultEffect
<1>6. CASE BeginLookup
  <2>1. /\ stage' = "system" /\ now' = now /\ endpoint' = endpoint /\ stage = "resolve"
        /\ deadline' = now + 3 * Second /\ attemptEnds' = now + Second
    BY <1>6 DEF BeginLookup
  <2>2. now \in Nat /\ now <= Limit(Len(endpoint))
    BY <1>1, <2>1 DEF DeadlinesNest
  <2>3. now + 3 * Second <= Limit(Len(endpoint) + 1)
    BY <1>2, <2>2
  <2> QED BY <1>2, <2>1, <2>2, <2>3 DEF DeadlinesNest, Asking
<1>7. CASE Tick
  BY <1>1, <1>7 DEF Tick, DeadlinesNest, Asking
<1>8. CASE EndpointLiteral
  <2>1. Len(endpoint') = Len(endpoint) + 1
    BY <1>1, <1>8, EndpointsPlainNext DEF EndpointLiteral, EndpointsPlain
  <2>2. stage = "resolve" /\ stage' = "resolve" /\ UNCHANGED <<deadline, attemptEnds, now>>
    BY <1>8 DEF EndpointLiteral, lookup
  <2>3. now <= Limit(Len(endpoint')) /\ now \in Nat
    BY <1>1, <1>2, <2>1, <2>2 DEF DeadlinesNest
  <2> QED BY <1>1, <2>2, <2>3 DEF DeadlinesNest, Asking
<1>9. CASE EndpointText
  BY <1>3, <1>9 DEF EndpointText, lookup
<1>10. CASE Configure
  BY <1>1, <1>10 DEF Configure, lookup, DeadlinesNest, Asking
<1>11. CASE StartReturns
  BY <1>2, <1>11 DEF StartReturns, DeadlinesNest, Asking
<1>12. CASE UNCHANGED configVars
  BY <1>3, <1>12 DEF configVars
<1> QED BY <1>4, <1>5, <1>6, <1>7, <1>8, <1>9, <1>10, <1>11, <1>12 DEF ConfigNext, ConfigAnswers

AskedRecords == [server : Nat, expired : BOOLEAN, ended : Nat, answer : Seq(Addresses)]

LEMMA AskedFields ==
  ASSUME NEW B, NEW A, NEW q \in Seq([server : Nat, expired : B, ended : Nat, answer : A])
  PROVE  \A k \in 1..Len(q) : q[k].ended \in Nat /\ q[k].server \in Nat
<1> DEFINE R == [server : Nat, expired : B, ended : Nat, answer : A]
<1>1. \A r \in R : r.ended \in Nat /\ r.server \in Nat
  OBVIOUS
<1>2. q \in Seq(R)
  OBVIOUS
<1> HIDE DEF R
<1>3. \A k \in 1..Len(q) : q[k] \in R
  BY <1>2
<1> QED BY <1>1, <1>3

(* What an answer adds to the resolvers that were asked.                   *)
LEMMA AskedAppended ==
  ASSUME ConfigInductive, NEW answer \in ConfigAnswers, Result(answer)
  PROVE  /\ asked' \in Seq(AskedRecords)
         /\ Len(asked) \in Nat /\ Len(asked') = Len(asked) + 1
         /\ \A k \in 1..Len(asked) : asked'[k] = asked[k]
         /\ LET e == asked'[Len(asked) + 1]
            IN  /\ e.server = server /\ (e.expired => now = attemptEnds)
                /\ e.ended = now /\ e.answer = answer
<1> DEFINE e == [server |-> server, expired |-> now = attemptEnds, ended |-> now, answer |-> answer]
<1>1. e \in AskedRecords
  <2>1. answer \in Seq(Addresses) /\ server \in Nat /\ now \in Nat
    BY ResultEffect DEF ConfigInductive, AskedInTurn, DeadlinesNest
  <2>2. (now = attemptEnds) \in BOOLEAN
    OBVIOUS
  <2> QED BY <2>1, <2>2 DEF AskedRecords
<1>2. asked \in Seq(AskedRecords)
  BY DEF ConfigInductive, NothingOffered, AskedRecords
<1>3. asked' = Append(asked, e)
  BY ResultEffect
<1>4. e.server = server /\ (e.expired => now = attemptEnds) /\ e.ended = now /\ e.answer = answer
  OBVIOUS
<1> HIDE DEF e
<1>5. /\ asked' \in Seq(AskedRecords) /\ Len(asked) \in Nat /\ Len(asked') = Len(asked) + 1
      /\ \A k \in 1..Len(asked) : asked'[k] = asked[k]
      /\ asked'[Len(asked) + 1] = e
  BY <1>1, <1>2, <1>3
<1> QED BY <1>4, <1>5

LEMMA OffersAreUsable ==
  \A k : Offers(k) = Usable(asked[k].answer)
BY DEF Offers, Usable

LEMMA OffersAreUsableNext ==
  \A k : Offers(k)' = Usable(asked'[k].answer)
BY DEF Offers, Usable

LEMMA NothingOfferedNext ==
  ASSUME ConfigInductive, [ConfigNext]_configVars PROVE NothingOffered'
<1>1. NothingOffered /\ SettingsChecked
  BY DEF ConfigInductive
<1>2. ASSUME asked' = << >> PROVE NothingOffered'
  BY <1>2 DEF NothingOffered
<1>3. ASSUME asked' = asked, Asking' => Asking PROVE NothingOffered'
  BY <1>1, <1>3 DEF NothingOffered, Offers
<1>4. ASSUME NEW answer \in ConfigAnswers, Result(answer) PROVE NothingOffered'
  <2>1. /\ asked' \in Seq(AskedRecords) /\ Len(asked) \in Nat /\ Len(asked') = Len(asked) + 1
        /\ \A k \in 1..Len(asked) : asked'[k] = asked[k]
        /\ asked'[Len(asked) + 1].answer = answer
    BY <1>4, AskedAppended
  <2>2. Asking /\ (Asking' => Usable(answer) = {})
    BY <1>4, ResultEffect DEF Asking
  <2>3. \A k \in 1..Len(asked) : Usable(asked[k].answer) = {}
    BY <1>1, <2>2, OffersAreUsable DEF NothingOffered
  <2>4. ASSUME Asking', NEW k \in 1..Len(asked') PROVE Offers(k)' = {}
    <3>1. CASE k \in 1..Len(asked)
      BY <2>1, <2>3, <3>1, OffersAreUsableNext
    <3>2. CASE k = Len(asked) + 1
      BY <2>1, <2>2, <2>4, <3>2, OffersAreUsableNext
    <3> QED BY <2>1, <3>1, <3>2
  <2> QED BY <2>1, <2>4 DEF NothingOffered, AskedRecords
<1>5. ASSUME NEW config \in Configs, NewAmneziaWgRunner(config) PROVE NothingOffered'
  BY <1>1, <1>2, <1>5 DEF NewAmneziaWgRunner, SettingsChecked
<1>6. CASE EndpointText \/ EndpointLiteral \/ BeginLookup \/ StartReturns
  BY <1>2, <1>6 DEF EndpointText, EndpointLiteral, BeginLookup, StartReturns
<1>7. CASE Tick \/ Configure \/ UNCHANGED configVars
  BY <1>3, <1>7 DEF Tick, Configure, configVars, Asking
<1> QED BY <1>4, <1>5, <1>6, <1>7 DEF ConfigNext, ConfigAnswers

LEMMA EndpointIsBestNext ==
  ASSUME ConfigInductive, [ConfigNext]_configVars PROVE EndpointIsBest'
<1>1. EndpointIsBest /\ SettingsChecked /\ EndpointsPlain /\ NothingOffered
  BY DEF ConfigInductive
<1>2. ASSUME asked' = << >> \/ stage' # "resolve" PROVE EndpointIsBest'
  BY <1>2 DEF EndpointIsBest
<1>3. ASSUME NEW answer \in ConfigAnswers, Result(answer), Usable(answer) # {}
      PROVE  EndpointIsBest'
  <2>0. PICK n, e : n = Len(asked) + 1 /\ e = Preferred(answer)
    OBVIOUS
  <2>1. /\ Len(asked) \in Nat /\ Len(asked') = n
        /\ \A k \in 1..Len(asked) : asked'[k] = asked[k]
        /\ asked'[n].answer = answer
    BY <1>3, <2>0, AskedAppended
  <2>2. Asking /\ endpoint' = Append(endpoint, e) /\ answer \in Seq(Addresses)
    BY <1>3, <2>0, ResultEffect
  <2>3. e \in Usable(answer) /\ e \in Addresses /\ (Is4(e) \/ \A v \in Usable(answer) : ~Is4(v))
    BY <1>3, <2>0, <2>2, PreferredIsUsable
  <2>4. \A k \in 1..Len(asked) : Usable(asked[k].answer) = {}
    BY <1>1, <2>2, OffersAreUsable DEF NothingOffered
  <2>5. \A k \in 1..n : Offers(k)' # {} <=> k = n
    <3> SUFFICES ASSUME NEW k \in 1..n PROVE Offers(k)' # {} <=> k = n
      OBVIOUS
    <3>1. CASE k \in 1..Len(asked)
      <4>1. k # n
        BY <2>0, <2>1, <3>1
      <4>2. Offers(k)' = {}
        BY <2>1, <2>4, <3>1, OffersAreUsableNext
      <4> QED BY <4>1, <4>2
    <3>2. CASE k = n
      BY <1>3, <2>1, <3>2, OffersAreUsableNext
    <3> QED BY <2>0, <2>1, <3>1, <3>2
  <2>6. Offers(n)' = Usable(answer)
    BY <2>1, OffersAreUsableNext
  <2>7. Last(endpoint') = e
    <3>1. endpoint \in Seq(Addresses)
      BY <1>1 DEF EndpointsPlain
    <3> QED BY <2>2, <2>3, <3>1 DEF Last
  <2>8. DOMAIN asked' = 1..n
    <3>1. asked' \in Seq(AskedRecords)
      BY <1>3, AskedAppended
    <3> QED BY <2>1, <3>1
  <2>9. \A v : Is4(v)' <=> Is4(v)
    BY DEF Is4
  <2> QED BY <2>1, <2>3, <2>5, <2>6, <2>7, <2>8, <2>9 DEF EndpointIsBest
<1>4. ASSUME NEW answer \in ConfigAnswers, Result(answer) PROVE EndpointIsBest'
  <2>1. CASE Usable(answer) # {}
    BY <1>3, <1>4, <2>1
  <2>2. CASE Usable(answer) = {}
    <3>1. AskNext
      BY <1>4, <2>2, ResultEffect
    <3> QED BY <1>2, <3>1 DEF AskNext
  <2> QED BY <2>1, <2>2
<1>5. ASSUME NEW config \in Configs, NewAmneziaWgRunner(config) PROVE EndpointIsBest'
  BY <1>1, <1>2, <1>5 DEF NewAmneziaWgRunner, SettingsChecked
<1>6. CASE EndpointText \/ EndpointLiteral \/ BeginLookup \/ StartReturns
  BY <1>2, <1>6 DEF EndpointText, EndpointLiteral, BeginLookup, StartReturns
<1>7. CASE Tick \/ Configure
  BY <1>2, <1>7 DEF Tick, Configure, Asking
<1>8. CASE UNCHANGED configVars
  BY <1>1, <1>8 DEF configVars, EndpointIsBest, Offers
<1> QED BY <1>4, <1>5, <1>6, <1>7, <1>8 DEF ConfigNext, ConfigAnswers

(* A resolver that had nothing to offer joins those that were asked.       *)
LEMMA AskedInTurnResult ==
  ASSUME ConfigInductive, NEW answer \in ConfigAnswers, Result(answer), Usable(answer) = {}
  PROVE  AskedInTurn'
<1>0. PICK n : n = Len(asked)
  OBVIOUS
<1>1. /\ SettingsChecked /\ EndpointsPlain /\ DeadlinesNest /\ AskedInTurn
      /\ Second \in Nat \ {0} /\ now \in Nat /\ deadline \in Nat /\ attemptEnds \in Nat /\ server \in Nat
  BY AwgConfigAssumption DEF ConfigInductive, DeadlinesNest, AskedInTurn
<1>2. /\ Asking /\ settings # NoSettings /\ now <= attemptEnds /\ attemptEnds <= deadline
      /\ AskNext /\ UNCHANGED <<settings, dns, deadline, now>>
  BY <1>1, ResultEffect DEF DeadlinesNest
<1>3. /\ n \in Nat /\ Len(asked) = n /\ Len(asked') = n + 1
      /\ \A k \in 1..n : asked'[k] = asked[k]
      /\ asked'[n + 1].server = server /\ asked'[n + 1].ended = now
      /\ asked'[n + 1].expired => now = attemptEnds
      /\ asked' \in Seq(AskedRecords) /\ asked \in Seq(AskedRecords)
  BY <1>0, AskedAppended DEF ConfigInductive, NothingOffered, AskedRecords
<1>4. /\ \A k \in 1..n : asked[k].ended \in Nat /\ asked[k].server \in Nat
      /\ \A k \in 1..(n + 1) : asked'[k].ended \in Nat /\ asked'[k].server \in Nat
  BY <1>3, AskedFields DEF AskedRecords
<1>5. /\ IF stage = "system" THEN n = 0 /\ server = 0 ELSE n > 0 /\ server \in Servers
      /\ \A k \in 1..n : asked[k].server < server
      /\ {k \in Servers : k < server} \subseteq AskedServers
  BY <1>1, <1>2, <1>3 DEF AskedInTurn
<1>6. n < 3 => attemptEnds = Began(n + 1) + Second /\ attemptEnds <= deadline - (2 - n) * Second
  BY <1>1, <1>2, <1>3 DEF AskedInTurn
<1>7. /\ Servers' = Servers /\ Servers \subseteq Nat \ {0}
      /\ Left = {k \in Servers : k > server}
  BY <1>1, <1>2, ServersArePositions DEF Servers, Server, Left
<1>8. \A k \in 1..(n + 1) : Began(k)' = Began(k)
  <2> SUFFICES ASSUME NEW k \in 1..(n + 1) PROVE Began(k)' = Began(k)
    OBVIOUS
  <2>1. k = 1 \/ k - 1 \in 1..n
    BY <1>3
  <2> QED BY <1>2, <1>3, <2>1 DEF Began
<1>9. ASSUME NEW k \in 1..(n + 1)
      PROVE  /\ asked'[k].server = 0 <=> k = 1
             /\ k > 1 => asked'[k].server \in Servers'
             /\ \A j \in 1..(k - 1) : asked'[j].server < asked'[k].server
  <2>1. CASE k \in 1..n
    <3>1. /\ asked[k].server = 0 <=> k = 1
          /\ k > 1 => asked[k].server \in Servers
          /\ \A j \in 1..(k - 1) : asked[j].server < asked[k].server
      BY <1>1, <1>2, <1>3, <2>1 DEF AskedInTurn
    <3>2. \A j \in 1..(k - 1) : asked'[j] = asked[j]
      BY <1>3, <2>1
    <3> QED BY <1>3, <1>7, <2>1, <3>1, <3>2
  <2>2. CASE k = n + 1
    <3>1. \A j \in 1..(k - 1) : asked'[j].server < asked'[k].server
      BY <1>3, <1>5, <2>2
    <3>2. asked'[k].server = server
      BY <1>3, <2>2
    <3> QED BY <1>3, <1>5, <1>7, <2>2, <3>1, <3>2
  <2> QED BY <1>3, <2>1, <2>2
<1>10. ASSUME NEW k \in 1..(n + 1), k <= 3
       PROVE  WholeSecond(k)' /\ asked'[k].ended <= deadline' - (3 - k) * Second
  <2>1. CASE k \in 1..n
    <3>1. WholeSecond(k) /\ asked[k].ended <= deadline - (3 - k) * Second
      BY <1>1, <1>2, <1>3, <1>10, <2>1 DEF AskedInTurn
    <3> QED BY <1>2, <1>3, <1>8, <2>1, <3>1 DEF WholeSecond
  <2>2. CASE k = n + 1
    <3>1. attemptEnds = Began(k) + Second /\ attemptEnds <= deadline - (3 - k) * Second
      BY <1>3, <1>6, <1>10, <2>2
    <3>2. Began(k) \in Int
      <4>1. k = 1 \/ k - 1 \in 1..n
        BY <1>3, <2>2
      <4> QED BY <1>1, <1>4, <4>1 DEF Began
    <3>3. asked'[k].expired => asked'[k].ended - Began(k) = Second
      <4>1. asked'[k].ended = now /\ (asked'[k].expired => now = attemptEnds)
        BY <1>3, <2>2
      <4> QED BY <1>1, <3>1, <3>2, <4>1
    <3>4. asked'[k].ended <= deadline - (3 - k) * Second
      BY <1>1, <1>2, <1>3, <2>2, <3>1
    <3> QED BY <1>2, <1>8, <3>3, <3>4 DEF WholeSecond
  <2> QED BY <1>3, <2>1, <2>2
<1>11. {k \in Servers : k <= server} \subseteq AskedServers'
  <2> SUFFICES ASSUME NEW k \in Servers, k <= server PROVE k \in AskedServers'
    OBVIOUS
  <2>1. CASE k < server
    <3>1. PICK i \in 2..n : k = asked[i].server
      BY <1>3, <1>5, <2>1 DEF AskedServers
    <3>2. i \in 2..(n + 1) /\ asked'[i].server = k
      BY <1>3, <3>1
    <3> QED BY <1>3, <3>2 DEF AskedServers
  <2>2. CASE k = server
    <3>1. n + 1 \in 2..(n + 1) /\ asked'[n + 1].server = k
      BY <1>3, <1>5, <1>7, <2>2
    <3> QED BY <1>3, <3>1 DEF AskedServers
  <2> QED BY <1>1, <1>7, <2>1, <2>2
<1>12. CASE stage' = "refused"
  <2>1. /\ server' = server
        /\ Left = {} \/ (stage = "configured" /\ ~(now < deadline))
    BY <1>2, <1>12, AskNextEffect
  <2>2. {k \in Servers' : k <= server'} \subseteq AskedServers'
    BY <1>7, <1>11, <2>1
  <2>3. Left' = Left
    BY <1>7, <2>1 DEF Left
  <2>4. Left' # {} => now' = deadline' /\ asked'[n + 1].ended = now'
    BY <1>1, <1>2, <1>3, <2>1, <2>3
  <2> QED BY <1>1, <1>3, <1>9, <1>10, <1>12, <2>1, <2>2, <2>4 DEF AskedInTurn, Asking
<1>13. CASE stage' = "configured"
  <2>1. /\ server' \in Left /\ \A k \in Left : server' <= k
        /\ attemptEnds' = IF now + Second <= deadline THEN now + Second ELSE deadline
    BY <1>2, <1>13, AskNextEffect
  <2>2. server' \in Servers' /\ server' \in Nat /\ server < server'
    BY <1>1, <1>7, <2>1
  <2>3. \A k \in 1..(n + 1) : asked'[k].server < server'
    <3> SUFFICES ASSUME NEW k \in 1..(n + 1) PROVE asked'[k].server < server'
      OBVIOUS
    <3>1. asked'[k].server <= server
      <4>1. CASE k \in 1..n
        BY <1>1, <1>3, <1>4, <1>5, <4>1
      <4>2. CASE k = n + 1
        BY <1>1, <1>3, <4>2
      <4> QED BY <1>3, <4>1, <4>2
    <3> QED BY <1>1, <1>4, <2>2, <3>1
  <2>4. {k \in Servers' : k < server'} \subseteq AskedServers'
    <3>1. \A k \in Servers : k < server' => k <= server
      BY <1>1, <1>7, <2>1, <2>2
    <3> QED BY <1>7, <1>11, <3>1
  <2>5. ASSUME n + 1 < 3
        PROVE  attemptEnds' = Began(n + 2)' + Second /\ attemptEnds' <= deadline - (1 - n) * Second
    <3>1. Began(n + 2)' = now
      BY <1>3 DEF Began
    <3>2. CASE n = 0
      <4>1. now <= deadline - 2 * Second
        BY <1>1, <1>2, <1>6, <3>2
      <4> QED BY <1>1, <2>1, <3>1, <3>2, <4>1
    <3>3. CASE n = 1
      <4>1. now <= deadline - Second
        BY <1>1, <1>2, <1>6, <3>3
      <4> QED BY <1>1, <2>1, <3>1, <3>3, <4>1
    <3> QED BY <1>3, <2>5, <3>2, <3>3
  <2>6. asked' # << >>
    BY <1>3
  <2>7. Len(asked') < 3 =>
          /\ attemptEnds' = Began(Len(asked) + 1)' + Second
          /\ attemptEnds' <= deadline' - (2 - Len(asked')) * Second
    BY <1>1, <1>2, <1>3, <2>5
  <2> QED BY <1>1, <1>3, <1>9, <1>10, <1>13, <2>2, <2>3, <2>4, <2>6, <2>7
        DEF AskedInTurn, LookupFailed
<1> QED BY <1>2, <1>12, <1>13 DEF AskNext

LEMMA AskedInTurnNext ==
  ASSUME ConfigInductive, [ConfigNext]_configVars PROVE AskedInTurn'
<1>1. /\ SettingsChecked /\ EndpointsPlain /\ DeadlinesNest /\ AskedInTurn
      /\ Second \in Nat \ {0} /\ now \in Nat /\ deadline \in Nat /\ attemptEnds \in Nat /\ server \in Nat
  BY AwgConfigAssumption DEF ConfigInductive, DeadlinesNest, AskedInTurn
<1>2. ASSUME server' \in Nat, ~Asking', ~LookupFailed' PROVE AskedInTurn'
  BY <1>2 DEF AskedInTurn
<1>3. ASSUME NEW config \in Configs, NewAmneziaWgRunner(config) PROVE AskedInTurn'
  <2>1. asked' = << >> /\ server' = server /\ stage' \in {"resolve", "refused"}
    BY <1>1, <1>3 DEF NewAmneziaWgRunner, lookup, SettingsChecked
  <2> QED BY <1>1, <1>2, <2>1 DEF Asking, LookupFailed
<1>4. ASSUME NEW answer \in ConfigAnswers, Result(answer) PROVE AskedInTurn'
  <2>1. CASE Usable(answer) = {}
    BY <1>4, <2>1, AskedInTurnResult
  <2>2. CASE Usable(answer) # {}
    <3>1. stage' = "resolve" /\ server' = server
      BY <1>4, <2>2, ResultEffect
    <3> QED BY <1>1, <1>2, <3>1 DEF Asking, LookupFailed
  <2> QED BY <2>1, <2>2
<1>5. CASE EndpointText \/ EndpointLiteral
  <2>1. server' = server /\ asked' = << >> /\ stage' \in {"resolve", "refused"}
    BY <1>5 DEF EndpointText, EndpointLiteral, lookup
  <2> QED BY <1>1, <1>2, <2>1 DEF Asking, LookupFailed
<1>6. CASE BeginLookup
  <2>1. /\ stage' = "system" /\ asked' = << >> /\ server' = 0 /\ UNCHANGED <<settings, dns, now>>
        /\ deadline' = now + 3 * Second /\ attemptEnds' = now + Second /\ settings # NoSettings
    BY <1>1, <1>6 DEF BeginLookup, SettingsChecked, Resolving
  <2>2. Servers' = Servers /\ Servers \subseteq Nat
    BY <1>1, <2>1, ServersArePositions DEF Servers, Server
  <2>3. {k \in Servers' : k < server'} = {}
    <3>1. \A k \in Servers' : ~(k < server')
      BY <2>1, <2>2
    <3> QED BY <3>1
  <2>4. Began(Len(asked) + 1)' = now
    BY <1>1, <2>1 DEF Began
  <2>5. attemptEnds' = now + Second /\ attemptEnds' <= deadline' - 2 * Second
    BY <1>1, <2>1
  <2> QED BY <2>1, <2>3, <2>4, <2>5 DEF AskedInTurn, LookupFailed
<1>7. ASSUME UNCHANGED <<stage, settings, dns, endpoint, asked, server, deadline, attemptEnds>>,
             now' = now \/ Asking
      PROVE  AskedInTurn'
  <2>1. Servers' = Servers /\ Left' = Left
    BY <1>7 DEF Servers, Server, Left
  <2>2. /\ \A k : Began(k)' = Began(k) /\ (WholeSecond(k)' <=> WholeSecond(k))
        /\ AskedServers' = AskedServers
        /\ (Asking' <=> Asking) /\ (LookupFailed' <=> LookupFailed)
        /\ ~(Asking /\ LookupFailed)
    BY <1>7 DEF Began, WholeSecond, AskedServers, Asking, LookupFailed
  <2>3. LookupFailed => now' = now
    BY <1>7, <2>2
  <2> QED BY <1>1, <1>7, <2>1, <2>2, <2>3 DEF AskedInTurn
<1>8. CASE Tick
  BY <1>7, <1>8 DEF Tick
<1>9. CASE Configure
  <2>1. /\ stage' \in {"refused", "ready"} /\ Len(endpoint) = Len(settings.peers)
        /\ UNCHANGED <<settings, endpoint, server>> /\ settings # NoSettings
    BY <1>1, <1>9 DEF Configure, lookup, SettingsChecked, Resolving
  <2>2. Len(settings.peers) \in Nat
    BY <1>1, <2>1, PeersTyped
  <2> QED BY <1>1, <1>2, <2>1, <2>2 DEF Asking, LookupFailed
<1>10. CASE StartReturns
  BY <1>2, <1>10 DEF StartReturns, Asking, LookupFailed
<1>11. CASE UNCHANGED configVars
  BY <1>7, <1>11 DEF configVars
<1> QED BY <1>3, <1>4, <1>5, <1>6, <1>8, <1>9, <1>10, <1>11 DEF ConfigNext, ConfigAnswers

LEMMA ConfigInductiveInit == ConfigInit => ConfigInductive
<1> SUFFICES ASSUME ConfigInit PROVE ConfigInductive OBVIOUS
<1> USE DEF ConfigInit, Asking
<1>1. SettingsChecked
  BY DEF SettingsChecked, Resolving
<1>2. EndpointsPlain
  BY DEF EndpointsPlain
<1>3. DeviceWritten
  BY DEF DeviceWritten, NoDevice
<1>4. DeadlinesNest
  BY AwgConfigAssumption DEF DeadlinesNest
<1>5. NothingOffered
  BY DEF NothingOffered
<1>6. EndpointIsBest
  BY DEF EndpointIsBest
<1>7. AskedInTurn
  BY DEF AskedInTurn, LookupFailed
<1> QED BY <1>1, <1>2, <1>3, <1>4, <1>5, <1>6, <1>7 DEF ConfigInductive

(* What the checks let through, the endpoints so far, and the resolvers    *)
(* asked and when (inductive invariant).                                   *)
THEOREM ConfigInvariant == ConfigSpec => []ConfigInductive
<1>1. ConfigInductive /\ [ConfigNext]_configVars => ConfigInductive'
  BY SettingsCheckedNext, EndpointsPlainNext, DeviceWrittenNext, DeadlinesNestNext,
     NothingOfferedNext, EndpointIsBestNext, AskedInTurnNext DEF ConfigInductive
<1> QED BY <1>1, ConfigInductiveInit, PTL DEF ConfigSpec

(* A looked-up endpoint is the best address of the first resolver that had *)
(* a usable one.                                                           *)
THEOREM LookupTakesTheBest == ConfigSpec => []EndpointIsBest
<1>1. ConfigInductive => EndpointIsBest
  BY DEF ConfigInductive
<1> QED BY <1>1, ConfigInvariant, PTL

(* The two nested deadlines keep a start to three seconds per peer.        *)
THEOREM LookupEndsInTime == ConfigSpec => []LookupInTime
<1>1. ConfigInductive => LookupInTime
  <2> SUFFICES ASSUME ConfigInductive, Asking
               PROVE  now <= deadline /\ now <= 3 * Second * (Len(endpoint) + 1)
    BY DEF LookupInTime
  <2>1. /\ now \in Nat /\ deadline \in Nat /\ attemptEnds \in Nat
        /\ now <= attemptEnds /\ attemptEnds <= deadline
        /\ deadline <= 3 * Second * (Len(endpoint) + 1)
    BY DEF ConfigInductive, DeadlinesNest
  <2>2. 3 * Second * (Len(endpoint) + 1) \in Int
    <3>1. Second \in Int /\ Len(endpoint) \in Int
      BY AwgConfigAssumption DEF ConfigInductive, EndpointsPlain
    <3> QED BY <3>1
  <2> QED BY <2>1, <2>2
<1> QED BY <1>1, ConfigInvariant, PTL

(* What reaches the device passed the checks, and every peer has a plain   *)
(* address.                                                                *)
LEMMA RangeIsAscending ==
  ASSUME NEW v \in Seq(Int), NEW max \in Nat, RangeOK(v, max)
  PROVE  v[1] >= 0 /\ v[1] <= v[Len(v)]
<1>1. Len(v) \in Nat /\ Len(v) >= 1 /\ 1 \in DOMAIN v
  BY DEF RangeOK
<1> QED BY <1>1 DEF RangeOK

LEMMA SettingsTyped ==
  ASSUME NEW s \in Settings
  PROVE  /\ s.num \in [{"jc", "jmin", "jmax"} \cup Paddings -> Int]
         /\ s.header \in Seq(Int) /\ s.range \in Seq(Int)
         /\ s.peers \in Seq(PeerSettings)
         /\ \A k \in DOMAIN s.peers : s.peers[k].keepAlive \in Seq(Int)
<1>1. s.peers \in Seq(PeerSettings)
  BY DEF Settings
<1>2. \A peer \in PeerSettings : peer.keepAlive \in Seq(Int)
  BY DEF PeerSettings
<1>3. \A k \in DOMAIN s.peers : s.peers[k] \in PeerSettings
  BY <1>1
<1> QED BY <1>1, <1>2, <1>3 DEF Settings

THEOREM DeviceIsSafe == ConfigSpec => []DeviceConfigSafe
<1>1. ASSUME ConfigInductive, device.state = "set" PROVE DeviceConfigSafe
  <2> DEFINE s == settings
             written == {p \in DOMAIN s.num : s.num[p] > 0}
  <2>1. /\ device = Written(s) /\ Len(endpoint) = Len(s.peers) /\ s # NoSettings
        /\ s \in Settings /\ Compatible(s)
    BY <1>1 DEF ConfigInductive, DeviceWritten, SettingsChecked
  <2>2. /\ s.num \in [{"jc", "jmin", "jmax"} \cup Paddings -> Int]
        /\ s.header \in Seq(Int) /\ s.range \in Seq(Int) /\ s.peers \in Seq(PeerSettings)
        /\ \A k \in DOMAIN s.peers : s.peers[k].keepAlive \in Seq(Int)
    BY <2>1, SettingsTyped
  <2>3. /\ device.num = [p \in written |-> s.num[p]] /\ device.headerKey = s.headerKey
        /\ device.chain = s.chain
        /\ device.header = IF RangeSet(s.header) THEN s.header ELSE << >>
        /\ device.range = IF RangeSet(s.range) THEN s.range ELSE << >>
    BY <2>1 DEF Written, Restrict
  <2>4. /\ DOMAIN device.peers = DOMAIN s.peers
        /\ device.peers = [k \in DOMAIN s.peers |->
             [endpoint |-> endpoint[k],
              presharedKey |-> IF s.peers[k].presharedKey = "good" THEN "good" ELSE "none",
              keepAlive |-> IF RangeSet(s.peers[k].keepAlive) THEN s.peers[k].keepAlive ELSE << >>]]
    BY <2>1 DEF Written
  <2>5. /\ \A k \in DOMAIN s.peers : device.peers[k].endpoint = endpoint[k]
        /\ \A k \in DOMAIN s.peers : device.peers[k].keepAlive =
             IF RangeSet(s.peers[k].keepAlive) THEN s.peers[k].keepAlive ELSE << >>
    BY <2>4
  <2>6. /\ DOMAIN device.num = written
        /\ \A p \in written : device.num[p] = s.num[p] /\ s.num[p] > 0 /\ s.num[p] \in Int
        /\ \A p \in {"jc", "jmin", "jmax"} \cup Paddings : p \notin written => s.num[p] <= 0
    BY <2>2, <2>3
  <2>7. s.num["jc"] <= 128 /\ \A p \in written : p # "jc" => s.num[p] <= 1280
    <3>1. PICK num : num = s.num
      OBVIOUS
    <3>2. num["jc"] \in 0..128
      BY <2>1, <3>1 DEF Compatible, MaxJunkCount
    <3>3. \A p \in {"jmin", "jmax"} \cup Paddings : num[p] \in 0..1280
      <4>1. \A p \in {"jmin", "jmax"} \cup Paddings : s.num[p] \in 0..1280
        BY <2>1 DEF Compatible, MaxJunkOrPaddingSize
      <4> QED BY <3>1, <4>1
    <3>4. written \subseteq {"jc", "jmin", "jmax"} \cup Paddings
      BY <2>2
    <3> HIDE DEF s, written
    <3>5. num["jc"] <= 128 /\ \A p \in written : num[p] <= 1280
      <4>1. ASSUME NEW p \in {"jmin", "jmax"} \cup Paddings PROVE num[p] <= 1280
        <5>1. num[p] \in 0..1280
          BY <3>3
        <5> QED BY <5>1
      <4>2. num["jc"] <= 128 /\ num["jc"] <= 1280
        BY <3>2
      <4> QED BY <3>4, <4>1, <4>2
    <3> QED BY <3>1, <3>5
  <2>8. s.headerKey = "good" => \A p \in Paddings : s.num[p] >= 12 /\ p \in written
    BY <2>1, <2>2 DEF Compatible, HeaderProtectionMinPadding
  <2>9. device.chain.text > 0 => FixedBytes(device.chain.tags) <= 4096
    BY <2>1, <2>3 DEF Compatible, ChainOK, MaxChainBytes
  <2>10. ASSUME NEW v \in {device.header, device.range} \cup
                            {device.peers[k].keepAlive : k \in DOMAIN device.peers},
                v # << >>
         PROVE  v[1] >= 0 /\ v[1] <= v[Len(v)]
    <3>1. CASE v = device.header
      BY <2>1, <2>2, <2>3, <2>10, <3>1, RangeIsAscending, AwgConfigAssumption DEF Compatible
    <3>2. CASE v = device.range
      BY <2>1, <2>2, <2>3, <2>10, <3>2, RangeIsAscending DEF Compatible, MaxU16
    <3>3. ASSUME NEW k \in DOMAIN s.peers, v = device.peers[k].keepAlive
          PROVE  v[1] >= 0 /\ v[1] <= v[Len(v)]
      <4>1. v = s.peers[k].keepAlive /\ RangeSet(v) /\ v \in Seq(Int)
        BY <2>2, <2>5, <2>10, <3>3
      <4>2. RangeOK(v, 65535)
        BY <2>1, <4>1 DEF Compatible, MaxU16
      <4> QED BY <4>1, <4>2, RangeIsAscending
    <3> QED BY <2>4, <2>10, <3>1, <3>2, <3>3
  <2>11. Len(device.peers) = Len(s.peers) /\ DOMAIN s.peers = 1..Len(s.peers)
    BY <2>2, <2>4
  <2>12. ASSUME NEW k \in DOMAIN device.peers
         PROVE  /\ device.peers[k].endpoint \in Addresses /\ ~device.peers[k].endpoint.mapped
                /\ device.peers[k].endpoint.ip \in Zeros => s.peers[k].host.mapped
    <3>1. k \in 1..Len(endpoint) /\ endpoint \in Seq(Addresses)
      BY <1>1, <2>1, <2>4, <2>11 DEF ConfigInductive, EndpointsPlain
    <3>2. endpoint[k] \in Addresses
      BY <3>1
    <3>3. ~endpoint[k].mapped /\ (endpoint[k].ip \in Zeros => s.peers[k].host.mapped)
      BY <1>1, <3>1 DEF ConfigInductive, EndpointsPlain
    <3> QED BY <2>4, <2>5, <3>2, <3>3
  <2>13. {"s1", "s2", "s3", "s4"} = Paddings
    BY DEF Paddings
  <2> HIDE DEF s, written
  <2> QED BY <2>3, <2>6, <2>7, <2>8, <2>9, <2>10, <2>11, <2>12, <2>13 DEF DeviceConfigSafe, s
<1>2. ConfigInductive => DeviceConfigSafe
  BY <1>1 DEF DeviceConfigSafe
<1> QED BY <1>2, ConfigInvariant, PTL

-----------------------------------------------------------------------------
(* The fair chance.  dns holds the first position of every address, so the *)
(* servers that are asked have different addresses, and together they have *)
(* all of them unless the three seconds end first.                         *)

LEMMA ServersAreDistinct ==
  ASSUME SettingsChecked, settings # NoSettings,
         NEW i \in Servers, NEW j \in Servers, Server(i).ip = Server(j).ip
  PROVE  i = j
<1>1. /\ i \in DnsTexts(settings) /\ j \in DnsTexts(settings) /\ i \in Nat /\ j \in Nat
      /\ settings.dnsServers[i] \in Addresses /\ settings.dnsServers[j] \in Addresses
      /\ i \in netstackDNSAddresses(settings) /\ j \in netstackDNSAddresses(settings)
  BY ServersArePositions
<1>2. Server(i) = Server(j)
  BY DEF Server, Unmap
<1>3. ~(i < j) /\ ~(j < i)
  BY <1>1, <1>2 DEF netstackDNSAddresses, Server
<1> QED BY <1>1, <1>3

LEMMA ServersAreAll ==
  ASSUME SettingsChecked, settings # NoSettings
  PROVE  {Server(k).ip : k \in DnsTexts(settings)} \ Zeros = {Server(k).ip : k \in Servers}
<1>1. /\ Servers \subseteq dns /\ dns \subseteq DnsTexts(settings)
      /\ DnsTexts(settings) \subseteq Nat /\ dns = netstackDNSAddresses(settings)
      /\ \A k \in DnsTexts(settings) : settings.dnsServers[k] \in Addresses
  BY ServersArePositions
<1>2. \A k \in DnsTexts(settings) : IsUnspecified(Server(k)) <=> Server(k).ip \in Zeros
  BY <1>1, UnmapFacts DEF Server
<1>3. ASSUME NEW k \in DnsTexts(settings), Server(k).ip \notin Zeros
      PROVE  \E i \in Servers : Server(i).ip = Server(k).ip
  <2> DEFINE Same == {i \in DnsTexts(settings) : Server(i) = Server(k)}
  <2>1. Same \subseteq Nat /\ Same # {}
    BY <1>1, <1>3
  <2>2. Min(Same) \in Same /\ \A i \in Same : Min(Same) <= i
    BY <2>1, MinOfNaturals
  <2>3. PICK m : m \in Same /\ m \in Nat /\ \A i \in Same : m <= i
    BY <2>1, <2>2
  <2>4. \A i \in DnsTexts(settings) : i < m => Unmap(settings.dnsServers[i]) # Unmap(settings.dnsServers[m])
    BY <1>1, <2>3 DEF Server
  <2>5. m \in dns
    BY <1>1, <2>3, <2>4 DEF netstackDNSAddresses
  <2>6. m \in Servers /\ Server(m).ip = Server(k).ip
    BY <1>2, <1>3, <2>3, <2>5 DEF Servers
  <2> QED BY <2>6
<1>4. \A i \in Servers : i \in DnsTexts(settings) /\ Server(i).ip \notin Zeros
  BY <1>1, <1>2 DEF Servers
<1> QED BY <1>3, <1>4

LEMMA PairHasTwo ==
  ASSUME NEW S, IsFiniteSet(S), NEW x \in S, NEW y \in S, x # y
  PROVE  Cardinality(S) >= 2
<1>1. IsFiniteSet({x}) /\ Cardinality({x}) = 1
  BY FS_Singleton
<1>2. IsFiniteSet({x} \cup {y}) /\ Cardinality({x} \cup {y}) = 2
  <2>1. y \notin {x}
    OBVIOUS
  <2>2. Cardinality({x} \cup {y}) = Cardinality({x}) + 1
    BY <1>1, <2>1, FS_AddElement
  <2>3. IsFiniteSet({x} \cup {y})
    BY <1>1, FS_AddElement
  <2> QED BY <1>1, <2>2, <2>3
<1>3. {x} \cup {y} \in SUBSET S
  OBVIOUS
<1>4. Cardinality({x} \cup {y}) <= Cardinality(S)
  BY <1>3, FS_Subset
<1> QED BY <1>2, <1>4, FS_CardinalityType

\* As many values as there are indices, at most.
LEMMA ValuesOfIndices ==
  ASSUME NEW n \in Nat, NEW f
  PROVE  /\ IsFiniteSet({f[k] : k \in 2..n})
         /\ Cardinality({f[k] : k \in 2..n}) <= IF n > 0 THEN n - 1 ELSE 0
<1> DEFINE T == {f[k] : k \in 2..n}
           g == [k \in 2..n |-> f[k]]
<1>1. IsFiniteSet(2..n) /\ Cardinality(2..n) = IF 2 > n THEN 0 ELSE n - 2 + 1
  BY FS_Interval
<1>2. g \in Surjection(2..n, T)
  BY DEF Surjection
<1> HIDE DEF T, g
<1>3. IsFiniteSet(T) /\ Cardinality(T) <= Cardinality(2..n)
  BY <1>1, <1>2, FS_Surjection
<1>4. Cardinality(T) \in Nat
  BY <1>3, FS_CardinalityType
<1> QED BY <1>1, <1>3, <1>4 DEF T

(* A lookup that fails has given the system resolver and two servers, or   *)
(* as many as there are, a whole second or their answer.                   *)
THEOREM LookupIsFair == ConfigSpec => []FairChance
<1>1. ASSUME ConfigInductive, LookupFailed PROVE FairChance
  <2> DEFINE n == Len(asked)
             distinct == {Server(k).ip : k \in DnsTexts(settings)} \ Zeros
             heard == {Server(asked[k].server).ip : k \in 2..Len(asked)}
             whole == {k \in DOMAIN asked : WholeSecond(k)}
  <2>1. /\ SettingsChecked /\ settings # NoSettings /\ Second \in Nat \ {0} /\ deadline \in Nat
        /\ n \in Nat /\ n > 0 /\ DOMAIN asked = 1..n
        /\ \A k \in 1..n : asked[k].ended \in Nat /\ asked[k].server \in Nat
    <3>1. asked \in Seq(AskedRecords) /\ asked # << >>
      BY <1>1 DEF ConfigInductive, NothingOffered, AskedRecords, LookupFailed
    <3>2. \A k \in 1..n : asked[k].ended \in Nat /\ asked[k].server \in Nat
      BY <3>1, AskedFields DEF AskedRecords
    <3> QED BY <1>1, <3>1, <3>2, AwgConfigAssumption
            DEF ConfigInductive, SettingsChecked, DeadlinesNest, LookupFailed
  <2>2. /\ \A k \in 1..n : /\ k > 1 => asked[k].server \in Servers
                           /\ \A j \in 1..(k - 1) : asked[j].server < asked[k].server
                           /\ k <= 3 => WholeSecond(k) /\ asked[k].ended <= deadline - (3 - k) * Second
        /\ {k \in Servers : k <= server} \subseteq AskedServers
        /\ Left # {} => now = deadline /\ asked[n].ended = now
    BY <1>1 DEF ConfigInductive, AskedInTurn
  <2>3. distinct = {Server(k).ip : k \in Servers}
    BY <2>1, ServersAreAll
  <2>4. IsFiniteSet(heard) /\ Cardinality(heard) \in Nat /\ Cardinality(heard) <= n - 1
    <3> DEFINE f == [k \in 2..n |-> Server(asked[k].server).ip]
    <3>1. heard = {f[k] : k \in 2..n}
      OBVIOUS
    <3> HIDE DEF f, heard, n
    <3>2. IsFiniteSet(heard) /\ Cardinality(heard) <= n - 1
      BY <2>1, <3>1, ValuesOfIndices
    <3> QED BY <3>2, FS_CardinalityType
  <2>5. heard \subseteq distinct
    <3>1. \A k \in 2..n : asked[k].server \in Servers
      BY <2>1, <2>2
    <3> QED BY <2>3, <3>1
  <2>6. Left = {} => heard = distinct
    <3>1. ASSUME Left = {}, NEW k \in Servers PROVE Server(k).ip \in heard
      <4>1. k \in Nat /\ server \in Nat
        BY <1>1, <2>1, ServersArePositions DEF ConfigInductive, AskedInTurn
      <4>2. k \in AskedServers
        BY <2>2, <3>1, <4>1 DEF Left
      <4> QED BY <4>2 DEF AskedServers
    <3> QED BY <2>3, <2>5, <3>1
  <2>7. /\ IsFiniteSet(whole) /\ Cardinality(whole) \in Nat
        /\ Cardinality(whole) >= IF n < 3 THEN n ELSE 3
    <3> DEFINE m == IF n < 3 THEN n ELSE 3
    <3>1. 1..m \in SUBSET whole /\ whole \in SUBSET (1..n)
      BY <2>1, <2>2
    <3>2. m \in Nat /\ m > 0
      BY <2>1
    <3> HIDE DEF m, n, whole
    <3>3. IsFiniteSet(1..n) /\ IsFiniteSet(1..m) /\ Cardinality(1..m) = m
      BY <2>1, <3>2, FS_Interval
    <3>4. IsFiniteSet(whole)
      BY <3>1, <3>3, FS_Subset
    <3>5. Cardinality(1..m) <= Cardinality(whole)
      BY <3>1, <3>4, FS_Subset
    <3> QED BY <3>2, <3>3, <3>4, <3>5, FS_CardinalityType DEF m
  <2>8. Left # {} => n >= 3
    <3>1. ASSUME Left # {}, n < 3 PROVE FALSE
      <4>1. asked[n].ended <= deadline - (3 - n) * Second /\ asked[n].ended = deadline
        BY <2>1, <2>2, <3>1
      <4>2. n = 1 \/ n = 2
        BY <2>1, <3>1
      <4> QED BY <2>1, <4>1, <4>2
    <3> QED BY <2>1, <3>1
  <2>9. n >= 3 => Cardinality(heard) >= 2
    <3>1. ASSUME n >= 3 PROVE Cardinality(heard) >= 2
      <4>1. 2 \in 2..n /\ 3 \in 2..n /\ 2 \in 1..(3 - 1)
        BY <2>1, <3>1
      <4>2. /\ asked[2].server \in Servers /\ asked[3].server \in Servers
            /\ asked[2].server # asked[3].server
        BY <2>1, <2>2, <4>1
      <4>3. Server(asked[2].server).ip # Server(asked[3].server).ip
        BY <2>1, <4>2, ServersAreDistinct
      <4> QED BY <2>4, <4>1, <4>3, PairHasTwo
    <3> QED BY <3>1
  <2>10. IsFiniteSet(distinct) /\ Cardinality(distinct) \in Nat
    <3> DEFINE g == [k \in Servers |-> Server(k).ip]
    <3>1. Servers \in SUBSET (1..Len(settings.dnsServers)) /\ Len(settings.dnsServers) \in Nat
      <4>1. settings.dnsServers \in Seq(Addresses \cup {Name, Blank})
        BY <2>1 DEF SettingsChecked, Settings
      <4>2. DnsTexts(settings) \subseteq 1..Len(settings.dnsServers)
        BY <4>1 DEF DnsTexts
      <4> QED BY <2>1, <4>1, <4>2, ServersArePositions
    <3>2. IsFiniteSet(Servers)
      <4>1. IsFiniteSet(1..Len(settings.dnsServers))
        BY <3>1, FS_Interval
      <4> QED BY <3>1, <4>1, FS_Subset
    <3>3. g \in Surjection(Servers, distinct)
      BY <2>3 DEF Surjection
    <3> HIDE DEF g, distinct
    <3>4. IsFiniteSet(distinct)
      BY <3>2, <3>3, FS_Surjection
    <3> QED BY <3>4, FS_CardinalityType
  <2> HIDE DEF n, distinct, heard, whole
  <2>11. /\ Min({3, Cardinality(distinct) + 1}) =
              IF 3 <= Cardinality(distinct) + 1 THEN 3 ELSE Cardinality(distinct) + 1
         /\ Min({2, Cardinality(distinct)}) =
              IF 2 <= Cardinality(distinct) THEN 2 ELSE Cardinality(distinct)
    BY <2>10, MinOfTwo
  <2>12. /\ Cardinality(whole) >= Min({3, Cardinality(distinct) + 1})
         /\ Cardinality(heard) >= Min({2, Cardinality(distinct)})
    <3>1. CASE Left = {}
      <4>1. Cardinality(distinct) = Cardinality(heard)
        BY <2>6, <3>1
      <4> QED BY <2>1, <2>4, <2>7, <2>11, <4>1
    <3>2. CASE Left # {}
      <4>1. n >= 3 /\ Cardinality(heard) >= 2
        BY <2>8, <2>9, <3>2
      <4> QED BY <2>1, <2>4, <2>7, <2>10, <2>11, <4>1
    <3> QED BY <3>1, <3>2
  <2>13. heard # distinct => now = deadline
    BY <2>2, <2>6
  <2> QED BY <2>12, <2>13 DEF FairChance, whole, heard, distinct
<1>2. ConfigInductive => FairChance
  BY <1>1 DEF FairChance
<1> QED BY <1>2, ConfigInvariant, PTL
=============================================================================
