------------------------- MODULE MCOutboundDownload -------------------------
(* Small instances of OutboundDownload: two calls and a cancelling thread. *)
EXTENDS OutboundDownload
=============================================================================
