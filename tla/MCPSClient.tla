----------------------------- MODULE MCPSClient -----------------------------
(* PSClient for TLC: two concurrent calls, which are alike.                  *)
EXTENDS PSClient, TLC
CallSymmetry == Permutations(Calls)
=============================================================================
