--------------------------- MODULE MCRpcCallbacks ---------------------------
(* RpcCallbacks for TLC. *)
EXTENDS RpcCallbacks
=============================================================================
