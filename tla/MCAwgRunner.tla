---------------------------- MODULE MCAwgRunner ----------------------------
(* AwgRunner with small sets of connections and addresses for TLC.         *)
EXTENDS AwgRunner, TLC

=============================================================================
