----------------------------- MODULE MCSpindle -----------------------------
(* A small instance of Spindle for TLC. *)
EXTENDS Spindle, TLC

CONSTANTS d1, d2, p1, n1

(* Two deliveries of the same pipeline: the event consumer redelivered it. *)
SamePipeline == (d1 :> p1) @@ (d2 :> p1)

(* Deliveries of one pipeline are interchangeable. *)
Symmetry == Permutations(Delivery)

Single == (n1 :> n1)

=============================================================================
