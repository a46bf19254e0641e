----------------------------- MODULE AwgConfig -----------------------------
(***************************************************************************)
(* How StartAmneziaWg turns settings into a configured device              *)
(* (amneziawg.go: ParseAmneziaWgSettings, NewAmneziaWgRunner): the limits, *)
(* the DNS servers, one endpoint per peer, which may have to be looked up  *)
(* under two nested deadlines, and the UAPI text.  The resolvers answer    *)
(* when they like; time passes in ticks.                                   *)
(*                                                                         *)
(* Text that is only compared or measured is abstracted.  A range "N-M" is *)
(* the sequence of its numbers, -1 for a part that is no number, << >> for *)
(* "" (and "off", where that is the same); a chain of tags is the length   *)
(* of its text and its tags; a key is "none", "good" or "bad".  An address *)
(* is [ip, mapped]: mapped is the IPv4-mapped IPv6 form, which netip keeps *)
(* apart from the plain one until Unmap.  A slice that a loop picks from   *)
(* another one, in its order, is the set of the positions that it picks.   *)
(***************************************************************************)
EXTENDS Integers, Sequences, FiniteSetsExt, SequencesExt

CONSTANTS
  Configs,      \* the parsed JSON texts that the host may pass
  Answers,      \* what a resolver may answer: sequences of addresses
  IPv4, IPv6,   \* addresses
  Zeros,        \* 0.0.0.0 in IPv4 and :: in IPv6
  Second,       \* ticks of a second
  HeaderMax     \* the largest uint32

ASSUME AwgConfigAssumption ==
  /\ Second \in Nat \ {0} /\ HeaderMax \in Nat
  /\ IPv4 \cap IPv6 = {} /\ Zeros \subseteq IPv4 \cup IPv6

VARIABLES
  stage,       \* the statement that the start is at
  settings,    \* *AmneziaWgSettings
  dns,         \* the result of netstackDNSAddresses: positions in dnsServers
  endpoint,    \* the endpoints resolved so far, one per peer
  asked,       \* the current lookup's resolvers, until when, and their answers
  deadline,    \* of the lookup of the current peer
  attemptEnds, \* of the resolver that is being asked
  now,
  server,      \* the resolver that is being asked: 0 for the system's, or in dns
  device       \* the device: none, closed, or what IpcSet has set

configVars == <<stage, settings, dns, endpoint, asked, server, deadline, attemptEnds, now, device>>

-----------------------------------------------------------------------------
(* netip.                                                                  *)

Addresses == [ip : IPv4, mapped : BOOLEAN] \cup [ip : IPv6, mapped : {FALSE}]

\* A host name, or any other text that is no address.
Name == [ip |-> "name", mapped |-> FALSE]
Blank == [ip |-> "blank", mapped |-> FALSE]

Unmap(a) == [ip |-> a.ip, mapped |-> FALSE]
IsUnspecified(a) == a.ip \in Zeros /\ ~a.mapped
Is4(a) == a.ip \in IPv4 /\ ~a.mapped

-----------------------------------------------------------------------------
(* validateNativeRunnerCompatibility.                                      *)

MaxJunkCount == 128
HeaderProtectionMinPadding == 12
MaxJunkOrPaddingSize == 1280
MaxChainBytes == 4096
MaxU16 == 65535

Paddings == {"s1", "s2", "s3", "s4"}

\* AmneziaWgSettings and its peers, as the JSON decoder leaves them.
PeerSettings ==
  [missing : BOOLEAN, publicKey : STRING, presharedKey : STRING,
   host : Addresses \cup {Name, Blank}, port : Int, keepAlive : Seq(Int)]

Settings ==
  [secretKey : STRING, num : [{"jc", "jmin", "jmax"} \cup Paddings -> Int], header : Seq(Int),
   chain : [text : Nat, tags : Seq([kind : STRING, n : Int])],
   headerKey : STRING, range : Seq(Int), flag : STRING,
   dnsServers : Seq(Addresses \cup {Name, Blank}), peers : Seq(PeerSettings)]

\* "" and "0" are no setting.
RangeSet(v) == v \notin {<< >>, <<0>>}

RangeOK(v, max) ==
  /\ Len(v) \in 1..2
  /\ \A k \in DOMAIN v : v[k] \in 0..max
  /\ v[1] <= v[Len(v)]

FixedBytes(tags) == FoldLeft(LAMBDA sum, tag : sum + tag.n, 0, tags)

TagOK(tag) ==
  CASE tag.kind = "b" -> tag.n > 0
    [] tag.kind = "r" -> tag.n \in 0..MaxChainBytes
    [] tag.kind = "t" -> TRUE
    [] OTHER -> FALSE

ChainOK(chain) ==
  chain.text > 0 =>
    /\ chain.text <= MaxChainBytes
    /\ \A k \in DOMAIN chain.tags : TagOK(chain.tags[k])
    /\ FixedBytes(chain.tags) <= MaxChainBytes

CompatibleAnyPadding(s) ==
  /\ s.num["jc"] \in 0..MaxJunkCount
  /\ \A p \in {"jmin", "jmax"} \cup Paddings : s.num[p] \in 0..MaxJunkOrPaddingSize
  /\ s.num["jmin"] > 0 /\ s.num["jmax"] > 0 => s.num["jmin"] <= s.num["jmax"]
  /\ RangeSet(s.header) => RangeOK(s.header, HeaderMax)
  /\ ChainOK(s.chain)
  /\ s.headerKey # "bad"
  /\ RangeSet(s.range) => RangeOK(s.range, MaxU16)
  /\ s.flag # "bad"
  /\ s.peers # << >>
  /\ \A k \in DOMAIN s.peers : ~s.peers[k].missing /\
       (RangeSet(s.peers[k].keepAlive) => RangeOK(s.peers[k].keepAlive, MaxU16))

Compatible(s) ==
  /\ s.num["jc"] \in 0..MaxJunkCount
  /\ \A p \in {"jmin", "jmax"} \cup Paddings : s.num[p] \in 0..MaxJunkOrPaddingSize
  /\ s.num["jmin"] > 0 /\ s.num["jmax"] > 0 => s.num["jmin"] <= s.num["jmax"]
  /\ RangeSet(s.header) => RangeOK(s.header, HeaderMax)
  /\ ChainOK(s.chain)
  /\ s.headerKey # "none" =>
       s.headerKey = "good" /\ \A p \in Paddings : s.num[p] >= HeaderProtectionMinPadding
  /\ RangeSet(s.range) => RangeOK(s.range, MaxU16)
  /\ s.flag # "bad"
  /\ s.peers # << >>
  /\ \A k \in DOMAIN s.peers : ~s.peers[k].missing /\
       (RangeSet(s.peers[k].keepAlive) => RangeOK(s.peers[k].keepAlive, MaxU16))

-----------------------------------------------------------------------------
(* ParseAmneziaWgSettings and netstackDNSAddresses.                        *)

\* A config has its settings at the top, as an outbound, or in the first
\* wireguard outbound of a list that has a secret key.  NoSettings: none.
NoSettings == [none |-> TRUE]

ASSUME ConfigsAreParsed ==
  \A config \in Configs :
    /\ config.direct \in Settings \cup {NoSettings}
    /\ config.settings \in Settings \cup {NoSettings}
    /\ config.outbounds \in Seq([wireguard : BOOLEAN, settings : Settings])

ASSUME AnswersAreAddresses == Answers \subseteq Seq(Addresses)

Parse(config) ==
  LET Candidate(k) == config.outbounds[k].wireguard /\ config.outbounds[k].settings.secretKey # "none"
      found == {k \in DOMAIN config.outbounds : Candidate(k)}
  IN  CASE config.direct # NoSettings -> config.direct
        [] config.settings # NoSettings /\ config.settings.secretKey # "none" -> config.settings
        [] found # {} -> config.outbounds[Min(found)].settings
        [] OTHER -> NoSettings

\* The texts that are not blank; one that is no address is not in Addresses.
DnsTexts(s) == {k \in DOMAIN s.dnsServers : s.dnsServers[k] # Blank}

DnsOK(s) ==
  /\ DnsTexts(s) # {}
  /\ \A k \in DnsTexts(s) : s.dnsServers[k] \in Addresses /\ ~IsUnspecified(s.dnsServers[k])

DnsWithDuplicates(s) == DnsTexts(s)

\* The first position of each address.
netstackDNSAddresses(s) ==
  {k \in DnsTexts(s) :
     \A j \in DnsTexts(s) : j < k => Unmap(s.dnsServers[j]) # Unmap(s.dnsServers[k])}

-----------------------------------------------------------------------------
(* BuildIpcConfig: what is zero or empty is not written, and a pre-shared  *)
(* key that does not decode is left out.                                   *)

NoDevice == [state |-> "none"]
Closed == [state |-> "closed"]

BuildOK(s) ==
  s.secretKey = "good" /\ \A k \in DOMAIN s.peers : s.peers[k].publicKey = "good"

Written(s) ==
  [state |-> "set",
   num |-> Restrict(s.num, {p \in DOMAIN s.num : s.num[p] > 0}),
   header |-> IF RangeSet(s.header) THEN s.header ELSE << >>,
   chain |-> s.chain,
   headerKey |-> s.headerKey,
   range |-> IF RangeSet(s.range) THEN s.range ELSE << >>,
   flag |-> s.flag,
   peers |-> [k \in DOMAIN s.peers |->
                [endpoint |-> endpoint[k],
                 presharedKey |-> IF s.peers[k].presharedKey = "good" THEN "good" ELSE "none",
                 keepAlive |-> IF RangeSet(s.peers[k].keepAlive) THEN s.peers[k].keepAlive
                                                                 ELSE << >>]]]

-----------------------------------------------------------------------------
ConfigInit ==
  /\ stage = "idle" /\ settings = NoSettings
  /\ dns = {} /\ endpoint = << >> /\ asked = << >>
  /\ server = 0 /\ deadline = 0 /\ attemptEnds = 0 /\ now = 0
  /\ device = NoDevice

lookup == <<server, deadline, attemptEnds, now>>

\* A start, up to the first peer.
NewAmneziaWgRunner(config) ==
  /\ stage = "idle"
  /\ LET s == Parse(config)
     IN  IF s # NoSettings /\ Compatible(s) /\ DnsOK(s)
           THEN stage' = "resolve" /\ settings' = s /\ dns' = netstackDNSAddresses(s)
           ELSE stage' = "refused" /\ UNCHANGED <<settings, dns>>
  /\ UNCHANGED <<endpoint, asked, lookup, device>>

Peer == settings.peers[Len(endpoint) + 1]

\* resolveAmneziaWgEndpoint of the next peer: the text, an address, or a name.
EndpointText ==
  /\ stage = "resolve" /\ Len(endpoint) < Len(settings.peers)
  /\ Peer.host = Blank \/ Peer.port \notin 1..MaxU16
  /\ stage' = "refused"
  /\ asked' = << >>
  /\ UNCHANGED <<settings, dns, endpoint, lookup, device>>

IsLiteral(host) == host \in Addresses /\ ~IsUnspecified(host)

EndpointLiteral ==
  /\ stage = "resolve" /\ Len(endpoint) < Len(settings.peers)
  /\ Peer.port \in 1..MaxU16 /\ IsLiteral(Peer.host)
  /\ endpoint' = Append(endpoint, Unmap(Peer.host))
  /\ asked' = << >>
  /\ UNCHANGED <<stage, settings, dns, lookup, device>>

BeginLookup ==
  /\ stage = "resolve" /\ Len(endpoint) < Len(settings.peers)
  /\ Peer.port \in 1..MaxU16 /\ Peer.host # Blank /\ ~IsLiteral(Peer.host)
  /\ deadline' = now + 3 * Second
  /\ attemptEnds' = now + Second
  /\ asked' = << >> /\ server' = 0
  /\ stage' = "system"
  /\ UNCHANGED <<settings, dns, endpoint, now, device>>

Asking == stage \in {"system", "configured"}

Tick ==
  /\ Asking /\ now < attemptEnds
  /\ now' = now + 1
  /\ UNCHANGED <<stage, settings, dns, endpoint, asked, server, deadline, attemptEnds, device>>

-----------------------------------------------------------------------------
(* lookupAmneziaWgHostWithFallback: the system resolver, then the servers  *)
(* of lookupAmneziaWgHostWithConfiguredDNS one after the other.            *)

usableAmneziaWgAddresses(answer) ==
  {k \in DOMAIN answer : ~IsUnspecified(Unmap(answer[k]))}

\* The first IPv4 address, else the first one.
FirstAddress(answer) == Unmap(answer[Min(usableAmneziaWgAddresses(answer))])

Preferred(answer) ==
  LET usable == usableAmneziaWgAddresses(answer)
      four == {k \in usable : Is4(Unmap(answer[k]))}
  IN  Unmap(answer[Min(IF four = {} THEN usable ELSE four)])

\* The loop skips a server that Unmap has turned into 0.0.0.0.
Server(k) == Unmap(settings.dnsServers[k])
Servers == {k \in dns : ~IsUnspecified(Server(k))}
Left == {k \in Servers : k > server}

\* A server is asked for a second, cut short by the deadline of the lookup.
AskNextForASecond ==
  IF Left # {}
    THEN stage' = "configured" /\ server' = Min(Left) /\ attemptEnds' = now + Second
    ELSE stage' = "refused" /\ UNCHANGED <<server, attemptEnds>>

AskNext ==
  IF Left # {} /\ (stage = "configured" => now < deadline)
    THEN stage' = "configured" /\ server' = Min(Left) /\ attemptEnds' = Min({now + Second, deadline})
    ELSE stage' = "refused" /\ UNCHANGED <<server, attemptEnds>>

\* The resolver has answered, or its context has expired (the empty answer).
\* A resolver returns the text of an address as that address.
Result(answer) ==
  /\ Asking
  /\ now = attemptEnds => answer = << >>
  /\ Peer.host \in Addresses => answer \in {<<Peer.host>>, << >>}
  /\ IF usableAmneziaWgAddresses(answer) # {}
       THEN /\ endpoint' = Append(endpoint, Preferred(answer))
            /\ stage' = "resolve" /\ UNCHANGED <<server, attemptEnds>>
       ELSE AskNext /\ UNCHANGED endpoint
  /\ asked' = Append(asked, [server |-> server, expired |-> now = attemptEnds, ended |-> now,
                             answer |-> answer])
  /\ UNCHANGED <<settings, dns, deadline, now, device>>

-----------------------------------------------------------------------------
\* Every endpoint is known: the netstack, the device, and its configuration,
\* which BuildIpcConfig or the device itself may refuse.
Configure ==
  /\ stage = "resolve" /\ Len(endpoint) = Len(settings.peers)
  /\ \/ stage' = "refused" /\ UNCHANGED device
     \/ stage' = "refused" /\ device' = Closed
     \/ BuildOK(settings) /\ stage' = "ready" /\ device' = Written(settings)
  /\ UNCHANGED <<settings, dns, endpoint, asked, lookup>>

\* The start returns; a ready device is the runner's from here on.
StartReturns ==
  /\ stage \in {"refused", "ready"}
  /\ stage' = "idle" /\ settings' = NoSettings
  /\ dns' = {} /\ endpoint' = << >> /\ asked' = << >>
  /\ server' = 0 /\ deadline' = 0 /\ attemptEnds' = 0 /\ now' = 0
  /\ device' = NoDevice

ConfigNext ==
  \/ \E config \in Configs : NewAmneziaWgRunner(config)
  \/ EndpointText \/ EndpointLiteral \/ BeginLookup
  \/ Tick
  \/ \E answer \in Answers \cup {<< >>} \cup {<<a>> : a \in Addresses} : Result(answer)
  \/ Configure \/ StartReturns

ConfigSpec == ConfigInit /\ [][ConfigNext]_configVars

-----------------------------------------------------------------------------
(* amneziawg.go:228 "rejects values which the upstream AWG runtime cannot  *)
(* safely recover from" and 287 "the header with a 12-byte nonce carried   *)
(* in the S1..S4 padding": what a device is configured with, after the     *)
(* zero settings were left out, never asks for more junk than the limits,  *)
(* protects headers only with room for the nonce in all four paddings, has *)
(* only ascending ranges, and has a plain address for every peer, which is *)
(* unspecified only where the host wrote 0.0.0.0 in the mapped form.       *)
DeviceConfigSafe ==
  device.state = "set" =>
    LET Number(p) == IF p \in DOMAIN device.num THEN device.num[p] ELSE 0
    IN  /\ Number("jc") <= 128
        /\ \A p \in DOMAIN device.num : device.num[p] <= 1280
        /\ device.headerKey = "good" => \A p \in {"s1", "s2", "s3", "s4"} : Number(p) >= 12
        /\ device.chain.text > 0 => FixedBytes(device.chain.tags) <= 4096
        /\ \A v \in {device.header, device.range} \cup
                    {device.peers[k].keepAlive : k \in DOMAIN device.peers} :
             v # << >> => v[1] >= 0 /\ v[1] <= v[Len(v)]
        /\ Len(device.peers) = Len(settings.peers)
        /\ \A k \in DOMAIN device.peers :
             /\ device.peers[k].endpoint \in Addresses /\ ~device.peers[k].endpoint.mapped
             /\ device.peers[k].endpoint.ip \in Zeros => settings.peers[k].host.mapped

\* The addresses of the k-th answer that an endpoint may have.
Offers(k) ==
  {Unmap(asked[k].answer[i]) : i \in DOMAIN asked[k].answer} \ {a \in Addresses : a.ip \in Zeros}

(* A looked-up endpoint comes from the first resolver, in the order system *)
(* resolver and then the configured servers, that had a usable address; it *)
(* is never unspecified, and it is IPv6 only when that answer had no IPv4  *)
(* address, a mapped one included.                                         *)
EndpointIsBest ==
  stage = "resolve" /\ asked # << >> =>
    LET e == Last(endpoint)
    IN  /\ \A k \in DOMAIN asked : Offers(k) # {} <=> k = Len(asked)
        /\ e \in Offers(Len(asked))
        /\ Is4(e) \/ \A a \in Offers(Len(asked)) : ~Is4(a)

\* When the k-th resolver of the current lookup was asked.
Began(k) == IF k = 1 THEN deadline - 3 * Second ELSE asked[k - 1].ended

WholeSecond(k) == asked[k].expired => asked[k].ended - Began(k) = Second

LookupFailed == stage = "refused" /\ asked # << >> /\ Len(endpoint) < Len(settings.peers)

(* amneziawg.go:438 "gives Android's resolver a short first chance, then   *)
(* queries the raw DNS addresses configured": a lookup fails only after    *)
(* the system resolver and two different configured servers (or as many as *)
(* there are), however often and in whatever form they are listed, have    *)
(* each answered or had a whole second; and it leaves a server unasked     *)
(* only when the three seconds are over.                                   *)
FairChance ==
  LookupFailed =>
    LET distinct == {Server(k).ip : k \in DnsTexts(settings)} \ Zeros
        heard == {Server(asked[k].server).ip : k \in 2..Len(asked)}
    IN  /\ Cardinality({k \in DOMAIN asked : WholeSecond(k)}) >= Min({3, Cardinality(distinct) + 1})
        /\ Cardinality(heard) >= Min({2, Cardinality(distinct)})
        /\ heard # distinct => now = deadline

(* amneziawg.go:441 "The caller's deadline still bounds both attempts      *)
(* together": StartAmneziaWg, which holds awgGlobalMu meanwhile, spends at *)
(* most three seconds on each peer, however many servers are configured.   *)
LookupInTime ==
  Asking => now <= deadline /\ now <= 3 * Second * (Len(endpoint) + 1)

-----------------------------------------------------------------------------
(* The inductive strengthening of these four: what the checks let through, *)
(* the endpoints so far, and the resolvers that were asked and when.       *)
Resolving == stage = "resolve" \/ Asking

SettingsChecked ==
  /\ stage \in {"idle", "resolve", "system", "configured", "refused", "ready"}
  /\ stage = "idle" => settings = NoSettings
  /\ Resolving \/ stage = "ready" => settings # NoSettings
  /\ settings = NoSettings => endpoint = << >> /\ asked = << >>
  /\ settings # NoSettings =>
       /\ settings \in Settings /\ Compatible(settings) /\ DnsOK(settings)
       /\ dns = netstackDNSAddresses(settings)

EndpointsPlain ==
  /\ endpoint \in Seq(Addresses)
  /\ settings # NoSettings => Len(endpoint) <= Len(settings.peers)
  /\ Asking => Len(endpoint) < Len(settings.peers)
  /\ \A k \in 1..Len(endpoint) :
       /\ ~endpoint[k].mapped
       /\ endpoint[k].ip \in Zeros => settings.peers[k].host.mapped

DeviceWritten ==
  device.state = "set" =>
    /\ stage = "ready" /\ device = Written(settings)
    /\ Len(endpoint) = Len(settings.peers)

DeadlinesNest ==
  /\ now \in Nat /\ deadline \in Nat /\ attemptEnds \in Nat
  /\ stage \in {"idle", "resolve"} => now <= 3 * Second * Len(endpoint)
  /\ Asking => /\ now <= attemptEnds /\ attemptEnds <= deadline
               /\ deadline <= 3 * Second * (Len(endpoint) + 1)

NothingOffered ==
  /\ asked \in Seq([server : Nat, expired : BOOLEAN, ended : Nat, answer : Seq(Addresses)])
  /\ Asking => \A k \in 1..Len(asked) : Offers(k) = {}

(* The loop asks the servers in their order and leaves out none; the first *)
(* three resolvers end so early that the deadline cuts none of them short. *)
AskedServers == {asked[k].server : k \in 2..Len(asked)}

AskedInTurn ==
  /\ server \in Nat
  /\ Asking \/ LookupFailed =>
       /\ \A k \in 1..Len(asked) : /\ asked[k].server = 0 <=> k = 1
                                   /\ k > 1 => asked[k].server \in Servers
                                   /\ \A j \in 1..(k - 1) : asked[j].server < asked[k].server
                                   /\ k <= 3 => /\ WholeSecond(k)
                                                /\ asked[k].ended <= deadline - (3 - k) * Second
  /\ Asking =>
       /\ IF stage = "system" THEN asked = << >> /\ server = 0 ELSE asked # << >> /\ server \in Servers
       /\ \A k \in 1..Len(asked) : asked[k].server < server
       /\ {k \in Servers : k < server} \subseteq AskedServers
       /\ Len(asked) < 3 => /\ attemptEnds = Began(Len(asked) + 1) + Second
                            /\ attemptEnds <= deadline - (2 - Len(asked)) * Second
  /\ LookupFailed =>
       /\ {k \in Servers : k <= server} \subseteq AskedServers
       /\ Left # {} => now = deadline /\ asked[Len(asked)].ended = now
=============================================================================
