----------------------------- MODULE ServicePool -----------------------------
(***************************************************************************)
(* Mif::Service::Detail::Pool: a bounded pool of service instances handed  *)
(* out through Holder objects.                                             *)
(*                                                                         *)
(* m_services maps an instance to its "is busy" flag.  GetService scans    *)
(* the map in the order of the keys (addresses): an instance whose IsGood  *)
(* answers false is erased, busy or not; the first good and free one is    *)
(* taken.  When none is left a new one is made, unless the map already     *)
(* has m_limit entries.  Holder's constructor sets the flag, its           *)
(* destructor clears it.  GetService and the destructor's body run under   *)
(* m_lock, so each is one action.                                          *)
(*                                                                         *)
(* A client either keeps the holder while it works (IPool::GetService) or  *)
(* asks for an interface (IPool::GetService<T>): the cast returns a        *)
(* pointer to the instance itself and the holder, a temporary, dies.       *)
(***************************************************************************)
EXTENDS Integers, FiniteSets

CONSTANTS
  Clients,       \* the threads that use the pool
  TypedClients,  \* those that call GetService<T>
  Addresses,     \* addresses the allocator may give an instance
  Limit,         \* m_limit
  Checkable,     \* does the service implement ICheckable
  None           \* a null pointer

ASSUME PoolAssumption ==
  /\ TypedClients \subseteq Clients
  /\ Addresses \subseteq Nat
  /\ Limit \in Nat \ {0}
  /\ Checkable \in BOOLEAN
  /\ None \notin Addresses

VARIABLES
  services,  \* m_services: address -> busy
  pc,        \* where each client is
  holder,    \* Holder::m_service of the client's holder, or None
  inst       \* the interface pointer GetService<T> gave the client, or None

vars == <<services, pc, holder, inst>>

-----------------------------------------------------------------------------
(* "leased": a holder exists and its destructor has not run; "unlocked":   *)
(* the destructor's body has run and the members are not released yet.     *)
Leased   == {"leased", "cast"}
Steps    == {"idle", "unlocked"} \cup Leased
Stored   == DOMAIN services
Referred == {holder[c] : c \in Clients} \cup {inst[c] : c \in Clients}

TypeOK ==
  /\ Stored \subseteq Addresses
  /\ services \in [Stored -> BOOLEAN]
  /\ pc \in [Clients -> Steps]
  /\ holder \in [Clients -> Addresses \cup {None}]
  /\ inst \in [Clients -> Addresses \cup {None}]

Init ==
  /\ services = [a \in {} |-> FALSE]
  /\ pc = [c \in Clients |-> "idle"]
  /\ holder = [c \in Clients |-> None]
  /\ inst = [c \in Clients |-> None]

(* The answers of IsGood during one scan: any set of instances may be bad. *)
BadSets == IF Checkable THEN SUBSET Stored ELSE {{}}

(* Mutant of Usable: the scan does not look at the flag. *)
UsableEvenBusy(bad) == Stored \ bad

Before(a)  == {b \in Stored : b < a}
Usable(bad) == {a \in Stored \ bad : ~services[a]}

(* Mutant of MakeHolder: the constructor forgets to set the flag. *)
MakeHolderUnmarked(c, a, table) ==
  /\ services' = table
  /\ holder' = [holder EXCEPT ![c] = a]
  /\ pc' = [pc EXCEPT ![c] = "leased"]
  /\ UNCHANGED inst

(* Holder::Holder, called with m_lock held: keep the instance, mark it busy. *)
MakeHolder(c, a, table) ==
  /\ services' = [table EXCEPT ![a] = TRUE]
  /\ holder' = [holder EXCEPT ![c] = a]
  /\ pc' = [pc EXCEPT ![c] = "leased"]
  /\ UNCHANGED inst

(* m_services without the entries in S. *)
Without(S) == [a \in Stored \ S |-> services[a]]

(* An exception leaves GetService: the entries erased so far stay erased. *)
Fail(S) ==
  /\ services' = Without(S)
  /\ UNCHANGED <<pc, holder, inst>>

(* The scan meets a good instance that is free. *)
TakeFree(c, bad) ==
  \E a \in Usable(bad) :
    /\ Before(a) \cap Usable(bad) = {}
    /\ MakeHolder(c, a, Without(bad \cap Before(a)))

(* Query or IsGood throws on an instance the scan has come to. *)
CheckThrows(bad) ==
  \E a \in Stored :
    /\ Checkable
    /\ Before(a) \cap Usable(bad) = {}
    /\ Fail(bad \cap Before(a))

(* Mutant of LimitReached: one entry too many. *)
LimitPassed(bad) == Cardinality(Stored \ bad) > Limit

LimitReached(bad) == Cardinality(Stored \ bad) >= Limit

(* Nothing free: refuse at the limit, else make an instance at an address  *)
(* that no live object has; the factory may throw.                         *)
TakeNew(c, bad) ==
  /\ Usable(bad) = {}
  /\ \/ LimitReached(bad) /\ Fail(bad)
     \/ /\ ~LimitReached(bad)
        /\ \/ Fail(bad)
           \/ \E a \in Addresses \ ((Stored \ bad) \cup Referred) :
                MakeHolder(c, a, [b \in (Stored \ bad) \cup {a} |->
                                    b # a /\ services[b]])

GetService(c) ==
  /\ pc[c] = "idle"
  /\ inst[c] = None
  /\ \E bad \in BadSets : TakeFree(c, bad) \/ CheckThrows(bad) \/ TakeNew(c, bad)

(* GetService<T>: Cast queries the holder, External answers with a pointer *)
(* to the instance it keeps, or the interface is missing and Cast throws.  *)
Cast(c) ==
  /\ c \in TypedClients
  /\ pc[c] = "leased"
  /\ \/ inst' = [inst EXCEPT ![c] = holder[c]]
     \/ UNCHANGED inst
  /\ pc' = [pc EXCEPT ![c] = "cast"]
  /\ UNCHANGED <<services, holder>>

(* ~Holder, the body: clear the flag if the instance is still in the map.  *)
DestroyHolder(c) ==
  /\ IF c \in TypedClients THEN pc[c] = "cast" ELSE pc[c] = "leased"
  /\ services' = IF holder[c] \in Stored
                   THEN [services EXCEPT ![holder[c]] = FALSE]
                   ELSE services
  /\ pc' = [pc EXCEPT ![c] = "unlocked"]
  /\ UNCHANGED <<holder, inst>>

(* ~Holder, the members: the reference to the instance goes.               *)
ReleaseMembers(c) ==
  /\ pc[c] = "unlocked"
  /\ holder' = [holder EXCEPT ![c] = None]
  /\ pc' = [pc EXCEPT ![c] = "idle"]
  /\ UNCHANGED <<services, inst>>

(* The client drops the interface pointer. *)
ReleaseInstance(c) ==
  /\ pc[c] = "idle"
  /\ inst[c] # None
  /\ inst' = [inst EXCEPT ![c] = None]
  /\ UNCHANGED <<services, pc, holder>>

Next == \E c \in Clients :
          \/ GetService(c)
          \/ Cast(c)
          \/ DestroyHolder(c)
          \/ ReleaseMembers(c)
          \/ ReleaseInstance(c)

Spec == Init /\ [][Next]_vars

-----------------------------------------------------------------------------
(* No two holders stand for the same instance (Pool::GetService, Holder).  *)
HoldersExclusive ==
  \A c, d \in Clients :
    pc[c] \in Leased /\ pc[d] \in Leased /\ holder[c] = holder[d] => c = d

(* The flag "is busy" of an instance in the map is set exactly while some  *)
(* holder has it: no instance is lost to the pool, none is given twice.    *)
BusyIsHeld ==
  \A a \in Stored :
    services[a] <=> \E c \in Clients : pc[c] \in Leased /\ holder[c] = a

(* The map never has more than m_limit entries.                            *)
WithinLimit == IsFiniteSet(Stored) /\ Cardinality(Stored) <= Limit

(* The pool as its clients see it: LeasePool with the lease of a client    *)
(* being the instance of the holder it has.                                *)
LeaseOf(c) == IF pc[c] \in Leased THEN holder[c] ELSE None
Lease == INSTANCE LeasePool WITH lease <- [c \in Clients |-> LeaseOf(c)]
ImplementsLeasePool == Lease!Spec
=============================================================================
