-------------------------- MODULE MCEventConsumer --------------------------
(* Small instances of EventConsumer for TLC. *)
EXTENDS EventConsumer, TLC

CONSTANTS s1, l1, l2

(* Start or AddSource, and a second AddSource of the same source. *)
OneSource == (l1 :> s1) @@ (l2 :> s1)

=============================================================================
