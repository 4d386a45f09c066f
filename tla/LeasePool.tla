------------------------------ MODULE LeasePool ------------------------------
(***************************************************************************)
(* What a service pool promises its clients, with nothing of how it is     *)
(* done: a client that asks may be given a service, the service is its own *)
(* until it gives it back, and a request may also be refused.  ServicePool *)
(* (src/mif/service/pool.cpp) is shown to implement this.                  *)
(***************************************************************************)
CONSTANTS
  Clients,    \* the threads that use the pool
  Addresses,  \* the service instances, identified by their address
  None        \* no service

VARIABLE
  lease       \* the service each client holds, or None

Init == lease = [c \in Clients |-> None]

(* A client is given a service that nobody holds. *)
Acquire(c) ==
  /\ lease[c] = None
  /\ \E a \in Addresses :
       /\ \A d \in Clients : lease[d] # a
       /\ lease' = [lease EXCEPT ![c] = a]

(* A client gives its service back. *)
Release(c) ==
  /\ lease[c] # None
  /\ lease' = [lease EXCEPT ![c] = None]

Next == \E c \in Clients : Acquire(c) \/ Release(c)

Spec == Init /\ [][Next]_lease
=============================================================================
