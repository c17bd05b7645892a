---------------------------- MODULE MCAlgorithms ----------------------------
(* A small instance of Algorithms; the long text has room for two edits. *)
EXTENDS Algorithms

MCLongText == <<"x", "y", "x", "x", "y">>
============================================================================
