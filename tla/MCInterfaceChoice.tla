-------------------------- MODULE MCInterfaceChoice --------------------------
(* Small routing tables for InterfaceChoice.  Every reason to skip a row   *)
(* has a row, every usable row comes with metrics that are low, equal and  *)
(* too large for their width; a modulus of 8 stands for 2^32.              *)
EXTENDS InterfaceChoice, SequencesExt

MCModulus == 8
MCNames == {"eth", "wlan", "skipi", "SKIPI", "utun"}
MCFolded == [n \in MCNames |-> IF n = "SKIPI" THEN "skipi" ELSE n]

Route(n, m) ==
  [name |-> n, default |-> TRUE, up |-> TRUE, gateway |-> TRUE, parses |-> TRUE, metric |-> m]
MCRouteRows ==
  {Route("eth", 0), Route("eth", 3), Route("wlan", 1), Route("wlan", 3), Route("wlan", -2),
   Route("skipi", 0), Route("SKIPI", 1),
   [Route("eth", 0) EXCEPT !.default = FALSE], [Route("eth", 0) EXCEPT !.up = FALSE],
   [Route("eth", 0) EXCEPT !.gateway = FALSE], [Route("eth", 0) EXCEPT !.parses = FALSE]}
MCRouteTables == SeqOf(MCRouteRows, 3)

Line(n) ==
  [name |-> n, default |-> TRUE, up |-> TRUE, gateway |-> TRUE, address |-> TRUE]
MCNetstatRows ==
  {Line("eth"), Line("wlan"), Line("skipi"), Line("utun"),
   [Line("eth") EXCEPT !.default = FALSE], [Line("eth") EXCEPT !.up = FALSE],
   [Line("eth") EXCEPT !.gateway = FALSE], [Line("eth") EXCEPT !.address = FALSE]}
MCNetstatTables == SeqOf(MCNetstatRows, 3)

\* Adapters have different indices.
Card(n, i, m) ==
  [name |-> n, index |-> i, up |-> TRUE, gateway |-> TRUE, loopback |-> FALSE, metric |-> m]
MCAdapterRows ==
  {Card("eth", 2, 1), Card("eth", 2, 6), Card("wlan", 1, 1), Card("wlan", 1, 2),
   Card("SKIPI", 3, 0), [Card("wlan", 1, 0) EXCEPT !.up = FALSE],
   [Card("wlan", 1, 0) EXCEPT !.gateway = FALSE], [Card("wlan", 1, 0) EXCEPT !.loopback = TRUE]}
MCAdapterLists ==
  {s \in SeqOf(MCAdapterRows, 3) : \A i, j \in DOMAIN s : i # j => s[i].index # s[j].index}

Forward(i, m) == [index |-> i, inet |-> TRUE, default |-> TRUE, metric |-> m]
MCForwardRows ==
  {Forward(1, 2), Forward(1, 5), Forward(2, 3),
   [Forward(1, 0) EXCEPT !.inet = FALSE], [Forward(2, 0) EXCEPT !.default = FALSE]}
MCForwardTables == SeqOf(MCForwardRows, 3)
=============================================================================
