------------------------------ MODULE MCPulls ------------------------------
(* A small instance of Pulls for TLC: its constants are in the .cfg. *)
EXTENDS Pulls, TLC

(* Requests run the same code. *)
Symmetry == Permutations(Req)

=============================================================================
