----------------------------- MODULE MCRecords -----------------------------
(* Small instances of Records for TLC. *)
EXTENDS Records, TLC

(* Requests run the same code, texts are only compared. *)
Symmetry == Permutations(Request) \cup Permutations(Body)

(* Two requests and two faults are enough where a row has the key of its   *)
(* record.  Rows that are unique by content need a third request to meet   *)
(* an older and a newer record of one content, and get one fault with it.  *)
Bound == \/ calls <= 2
         \/ coll \in {"artifact", "key", "reaction"} /\ faults <= 1

=============================================================================
