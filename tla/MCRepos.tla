------------------------------ MODULE MCRepos ------------------------------
(* Small instances of Repos for TLC. *)
EXTENDS Repos, TLC

(* Nothing distinguishes one goroutine from another. *)
RequestSymmetry == Permutations(Request)

=============================================================================
