---------------------------- MODULE MCAwgConfig ----------------------------
(* Settings around every limit, peers of every kind of host, and server    *)
(* lists with blanks, duplicates and mapped forms.                         *)
EXTENDS AwgConfig

A4(ip) == [ip |-> ip, mapped |-> FALSE]
Mapped(ip) == [ip |-> ip, mapped |-> TRUE]

MCPeer(host) == [missing |-> FALSE, publicKey |-> "good", presharedKey |-> "none",
                 host |-> host, port |-> 51820, keepAlive |-> <<25>>]

Zero == [p \in {"jc", "jmin", "jmax"} \cup Paddings |-> 0]

Base == [secretKey |-> "good", num |-> Zero, header |-> << >>, chain |-> [text |-> 0, tags |-> << >>],
         headerKey |-> "none", range |-> << >>, flag |-> "none",
         dnsServers |-> <<A4("4a")>>, peers |-> <<MCPeer(A4("4a"))>>]

Protected == [Base EXCEPT !.headerKey = "good", !.num = [Zero EXCEPT !["s1"] = 12, !["s2"] = 12,
                                                                  !["s3"] = 12, !["s4"] = 12]]

Numbers == [Base EXCEPT !.num = [Zero EXCEPT !["jmin"] = 50]]

Chain(tags) == [text |-> 20, tags |-> tags]
Tag(kind, n) == [kind |-> kind, n |-> n]

\* One setting at, and one past, each of its limits.
AtLimits ==
  {[Base EXCEPT !.num["jc"] = n] : n \in {-1, 0, 128, 129}}
  \cup {[Base EXCEPT !.num[p] = n] : p \in {"jmin", "s4"}, n \in {-1, 1280, 1281}}
  \cup {[Numbers EXCEPT !.num["jmax"] = n] : n \in {0, 49, 50}}
  \cup {[Protected EXCEPT !.num[p] = 11] : p \in Paddings} \cup {Protected}
  \cup {[Protected EXCEPT !.headerKey = "bad"]}
  \cup {[Base EXCEPT !.header = v] : v \in {<<0>>, <<5, 5>>, <<5, 4>>, <<-1>>, <<HeaderMax + 1>>, <<0, 1, 2>>}}
  \cup {[Base EXCEPT !.range = v] : v \in {<<0>>, <<0, 65535>>, <<65536>>, <<7, 6>>, <<1, 2, 3>>}}
  \cup {[Base EXCEPT !.chain = c] :
          c \in {Chain(<<Tag("b", 1), Tag("t", 0), Tag("r", 4095)>>), Chain(<<Tag("b", 2), Tag("r", 4095)>>),
                 Chain(<<Tag("r", 4097)>>), Chain(<<Tag("b", 0)>>), Chain(<<Tag("x", 0)>>),
                 [text |-> 4097, tags |-> <<Tag("b", 2000)>>]}}
  \cup {[Base EXCEPT !.flag = v] : v \in {"on", "bad"}}
  \cup {[Base EXCEPT !.secretKey = "bad"]}
  \cup {[Base EXCEPT !.dnsServers = v] : v \in {<< >>, <<Blank>>, <<A4("40")>>, <<A4("4a"), Name>>}}

PeerLists ==
  {<< >>}
  \cup {<<[MCPeer(A4("4a")) EXCEPT !.missing = TRUE]>>, <<[MCPeer(A4("4a")) EXCEPT !.publicKey = "bad"]>>}
  \cup {<<[MCPeer(A4("4a")) EXCEPT !.presharedKey = k]>> : k \in {"good", "bad"}}
  \cup {<<[MCPeer(A4("4a")) EXCEPT !.port = n]>> : n \in {0, 65535, 65536}}
  \cup {<<[MCPeer(A4("4a")) EXCEPT !.keepAlive = v]>> : v \in {<<0>>, <<9, 8>>}}
  \cup {<<MCPeer(h)>> : h \in {Blank, A4("60"), Mapped("4a"), Mapped("40"), A4("6a")}}
  \cup {<<MCPeer(A4("6a")), MCPeer(Name)>>, <<MCPeer(Name), MCPeer(Name)>>,
        <<MCPeer(Name), MCPeer(Blank)>>}

ServerLists ==
  {<<A4("4a")>>, <<A4("4a"), Mapped("4a"), Blank, A4("4b")>>,
   <<A4("4a"), Mapped("40"), A4("4b"), A4("6a"), A4("4a")>>}

MCSettings ==
  AtLimits \cup {[Base EXCEPT !.peers = p, !.dnsServers = d] : p \in PeerLists, d \in ServerLists}

Config(direct, outbound, list) == [direct |-> direct, settings |-> outbound, outbounds |-> list]
Outbound(proto, s) == [wireguard |-> proto, settings |-> s]

MCConfigs ==
  {Config(s, NoSettings, << >>) : s \in MCSettings}
  \cup {Config(NoSettings, NoSettings, << >>),
        Config(NoSettings, Base, << >>),
        Config(NoSettings, [Base EXCEPT !.secretKey = "none"], << >>),
        Config(NoSettings, NoSettings,
               <<Outbound(FALSE, Base), Outbound(TRUE, [Base EXCEPT !.secretKey = "none"]),
                 Outbound(TRUE, Protected), Outbound(TRUE, Numbers)>>)}

MCAnswers ==
  {<<A4("40")>>, <<Mapped("40"), A4("60")>>, <<A4("6a"), A4("4a")>>, <<A4("6a"), Mapped("4b")>>,
   <<A4("60"), A4("6b"), A4("6a")>>}
=============================================================================
