----------------------------- MODULE RemoteCall -----------------------------
(***************************************************************************)
(* What a remote call promises its caller, with nothing of sockets, tables *)
(* or clocks: a call that is started ends at most once, either with the    *)
(* answer the peer has given or with a failure.  PSClient                  *)
(* (include/mif/remote/ps_client.h) is shown to implement this.            *)
(***************************************************************************)
CONSTANT Calls

VARIABLE st   \* the state of each call

Start(c) ==
  /\ st[c] = "idle"
  /\ \E s \in {"pending", "failed"} : st' = [st EXCEPT ![c] = s]

(* The answer of the peer becomes available. *)
Answer(c) ==
  /\ st[c] = "pending"
  /\ st' = [st EXCEPT ![c] = "answered"]

(* The caller gets the answer, or an exception. *)
Finish(c) ==
  \/ st[c] = "answered" /\ st' = [st EXCEPT ![c] = "ok"]
  \/ st[c] \in {"pending", "answered"} /\ st' = [st EXCEPT ![c] = "failed"]

Init == st = [c \in Calls |-> "idle"]
Next == \E c \in Calls : Start(c) \/ Answer(c) \/ Finish(c)

Spec == Init /\ [][Next]_st
=============================================================================
