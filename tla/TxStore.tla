------------------------------ MODULE TxStore ------------------------------
(***************************************************************************)
(* What a user of Mif::Db::Transaction relies on, free of connections and  *)
(* pools: a store in which the writes of one transaction become durable    *)
(* together or are lost together, and a lost write never comes back.  Only *)
(* a transaction that is assigned to while it is open promises nothing.    *)
(***************************************************************************)
EXTENDS FiniteSets

CONSTANTS
    Threads,    \* the clients, one transaction each at a time
    Writes      \* the writes, each made at most once

VARIABLES
    pending,    \* pending[t]: writes of t's open transaction
    durable,    \* writes every later reader sees
    lost,       \* writes that will never be seen
    loose       \* writes nothing is promised of

vars == <<pending, durable, lost, loose>>

Init ==
    /\ pending = [t \in Threads |-> {}]
    /\ durable = {}
    /\ lost = {}
    /\ loose = {}

Fresh(w) ==
    /\ w \notin durable \cup lost \cup loose
    /\ \A t \in Threads : w \notin pending[t]

\* A write inside t's transaction.
Write(t, w) ==
    /\ Fresh(w)
    /\ pending' = [pending EXCEPT ![t] = @ \cup {w}]
    /\ UNCHANGED <<durable, lost, loose>>

\* A write outside any transaction is durable at once.
AutoCommit(w) ==
    /\ Fresh(w)
    /\ durable' = durable \cup {w}
    /\ UNCHANGED <<pending, lost, loose>>

Commit(t) ==
    /\ pending' = [pending EXCEPT ![t] = {}]
    /\ durable' = durable \cup pending[t]
    /\ UNCHANGED <<lost, loose>>

Abort(t) ==
    /\ pending' = [pending EXCEPT ![t] = {}]
    /\ lost' = lost \cup pending[t]
    /\ UNCHANGED <<durable, loose>>

\* The client assigns another transaction to its own: the writes are on their own.
Drop(t) ==
    /\ pending' = [pending EXCEPT ![t] = {}]
    /\ loose' = loose \cup pending[t]
    /\ UNCHANGED <<durable, lost>>

\* A write into what such a transaction left behind.
Stray(w) ==
    /\ Fresh(w)
    /\ loose' = loose \cup {w}
    /\ UNCHANGED <<pending, durable, lost>>

Next ==
    \/ \E t \in Threads : Commit(t) \/ Abort(t) \/ Drop(t) \/ \E w \in Writes : Write(t, w)
    \/ \E w \in Writes : AutoCommit(w) \/ Stray(w)

Spec == Init /\ [][Next]_vars
=============================================================================
