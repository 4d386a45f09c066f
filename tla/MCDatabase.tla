----------------------------- MODULE MCDatabase -----------------------------
(* Two threads over three connections and two writes for TLC. *)
EXTENDS Database, TLC

Symm == Permutations(Conns) \cup Permutations(Writes)
=============================================================================
