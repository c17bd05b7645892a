----------------------------- MODULE MCLabels ------------------------------
(* Small instances of Labels for TLC. *)
EXTENDS Labels

=============================================================================
