---------------------------- MODULE MCFastSelect ----------------------------
(* Small instances of FastSelect: a fast, a slow and a slower answer.      *)
EXTENDS FastSelect
=============================================================================
