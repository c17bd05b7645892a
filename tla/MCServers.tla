----------------------------- MODULE MCServers -----------------------------
(* Small instances of Servers for TLC. *)
EXTENDS Servers

=============================================================================
