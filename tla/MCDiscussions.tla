--------------------------- MODULE MCDiscussions ---------------------------
(* Small instances of Discussions for TLC. *)
EXTENDS Discussions, TLC

CONSTANTS a, b

(* Change b depends on change a. *)
OneDependsOnOther == (a :> {}) @@ (b :> {a})

(* Requests are interchangeable. *)
Symmetry == Permutations(Request)

=============================================================================
