------------------------------ MODULE MCHttpRpc -----------------------------
(***************************************************************************)
(* Two messages of one client at once, a request of somebody else, and two *)
(* threads of the server, which may be exchanged like the messages.        *)
(***************************************************************************)
EXTENDS HttpRpc, TLC

CONSTANTS r1, r2, w1, w2

MCIdOf == [r \in {r1, r2} |-> "a"]

Symmetry == Permutations({r1, r2}) \union Permutations({w1, w2})
=============================================================================
