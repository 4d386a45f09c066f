-------------------------- MODULE ServicePoolProofs --------------------------
(***************************************************************************)
(* Proofs about ServicePool for every set of clients and addresses and     *)
(* every limit: the holders are exclusive, the busy flags tell the truth,  *)
(* the map respects the limit, and the pool implements LeasePool.          *)
(***************************************************************************)
EXTENDS ServicePool, FiniteSetTheorems, TLAPS

(* A client that is not idle has a holder, and only such a client. *)
HolderPresent ==
  \A c \in Clients : pc[c] # "idle" <=> holder[c] # None

(* The inductive invariant.  Exclusiveness needs the flags (a free         *)
(* instance has no holder), the flags need exclusiveness (clearing one     *)
(* flag concerns one holder).                                              *)
IInv ==
  /\ TypeOK
  /\ HolderPresent
  /\ HoldersExclusive
  /\ BusyIsHeld
  /\ WithinLimit

(* An empty pool satisfies the invariant. *)
LEMMA InitIInv == Init => IInv
<1> SUFFICES ASSUME Init PROVE IInv
  OBVIOUS
<1> USE DEF Init, Stored, Leased, Steps
<1>1. Stored = {}
  OBVIOUS
<1>2. TypeOK
  BY <1>1 DEF TypeOK
<1>3. HolderPresent /\ HoldersExclusive /\ BusyIsHeld
  BY <1>1 DEF HolderPresent, HoldersExclusive, BusyIsHeld
<1>4. WithinLimit
  BY <1>1, FS_EmptySet, PoolAssumption DEF WithinLimit
<1>5. QED
  BY <1>2, <1>3, <1>4 DEF IInv

(* Erasing entries keeps the map within its limit. *)
LEMMA FewerEntries ==
  ASSUME WithinLimit, NEW S, S \subseteq Stored
  PROVE  IsFiniteSet(S) /\ Cardinality(S) <= Limit
<1>1. IsFiniteSet(S) /\ Cardinality(S) <= Cardinality(Stored)
  BY FS_Subset DEF WithinLimit
<1>2. Cardinality(S) \in Nat /\ Cardinality(Stored) \in Nat
  BY <1>1, FS_CardinalityType DEF WithinLimit
<1>3. QED
  BY <1>1, <1>2, PoolAssumption DEF WithinLimit

(* An exception from GetService only erases entries. *)
LEMMA FailIInv ==
  ASSUME IInv, NEW S, Fail(S)
  PROVE  IInv'
<1> USE DEF Fail, Without, Stored
<1>1. Stored' = Stored \ S /\ \A a \in Stored' : services'[a] = services[a]
  OBVIOUS
<1>2. TypeOK'
  BY <1>1 DEF IInv, TypeOK
<1>3. HolderPresent' /\ HoldersExclusive' /\ BusyIsHeld'
  BY <1>1 DEF IInv, HolderPresent, HoldersExclusive, BusyIsHeld, TypeOK
<1>4. WithinLimit'
  <2>1. Stored' \subseteq Stored
    BY <1>1
  <2>2. QED
    BY <2>1, FewerEntries, Zenon DEF IInv, WithinLimit
<1>5. QED
  BY <1>2, <1>3, <1>4 DEF IInv

(* A new holder for an instance that no other holder has. *)
LEMMA MakeHolderIInv ==
  ASSUME IInv,
         NEW c \in Clients, pc[c] = "idle",
         NEW a \in Addresses,
         \A d \in Clients : pc[d] \in Leased => holder[d] # a,
         NEW table, a \in DOMAIN table,
         DOMAIN table \ {a} \subseteq Stored,
         table \in [DOMAIN table -> BOOLEAN],
         \A b \in DOMAIN table \ {a} : table[b] = services[b],
         IsFiniteSet(DOMAIN table), Cardinality(DOMAIN table) <= Limit,
         MakeHolder(c, a, table)
  PROVE  IInv'
<1> USE DEF MakeHolder, Stored
<1>1. Stored' = DOMAIN table
  OBVIOUS
<1>2. services'[a] = TRUE /\ \A b \in Stored' \ {a} : services'[b] = services[b]
  BY <1>1
<1>3. /\ pc' = [pc EXCEPT ![c] = "leased"]
      /\ holder' = [holder EXCEPT ![c] = a]
      /\ inst' = inst
      /\ pc \in [Clients -> Steps] /\ holder \in [Clients -> Addresses \cup {None}]
  BY DEF IInv, TypeOK
<1>4. TypeOK'
  <2>1. Stored' \subseteq Addresses
    BY <1>1 DEF IInv, TypeOK
  <2>2. services' \in [Stored' -> BOOLEAN]
    BY <1>1
  <2>3. pc' \in [Clients -> Steps] /\ holder' \in [Clients -> Addresses \cup {None}]
    BY <1>3 DEF Steps, Leased
  <2>4. QED
    BY <2>1, <2>2, <2>3, <1>3 DEF IInv, TypeOK
<1>5. HolderPresent'
  BY <1>3, PoolAssumption DEF IInv, HolderPresent
<1>6. HoldersExclusive'
  BY <1>3 DEF IInv, HoldersExclusive, Leased
<1>7. BusyIsHeld'
  <2> SUFFICES ASSUME NEW b \in Stored'
               PROVE  services'[b] <=>
                        \E d \in Clients : pc'[d] \in Leased /\ holder'[d] = b
    BY DEF BusyIsHeld
  <2>1. CASE b = a
    BY <2>1, <1>2, <1>3 DEF Leased
  <2>2. CASE b # a
    <3>1. b \in Stored /\ services'[b] = services[b]
      BY <2>2, <1>1, <1>2
    <3>2. \A d \in Clients : (pc'[d] \in Leased /\ holder'[d] = b)
                              <=> (pc[d] \in Leased /\ holder[d] = b)
      BY <2>2, <1>3 DEF Leased
    <3>3. QED
      BY <3>1, <3>2 DEF IInv, BusyIsHeld
  <2>3. QED
    BY <2>1, <2>2
<1>8. WithinLimit'
  BY <1>1 DEF WithinLimit
<1>9. QED
  BY <1>4, <1>5, <1>6, <1>7, <1>8 DEF IInv

(* GetService hands out an instance nobody holds, or a new one. *)
LEMMA GetServiceIInv ==
  ASSUME IInv, NEW c \in Clients, GetService(c)
  PROVE  IInv'
<1> USE DEF Stored
<1>1. PICK bad : TakeFree(c, bad) \/ CheckThrows(bad) \/ TakeNew(c, bad)
  BY DEF GetService
<1>2. pc[c] = "idle"
  BY DEF GetService
<1>3. CASE TakeFree(c, bad)
  <2>1. PICK a \in Usable(bad) : MakeHolder(c, a, Without(bad \cap Before(a)))
    BY <1>3 DEF TakeFree
  <2> DEFINE table == Without(bad \cap Before(a))
  <2>2. a \in Stored /\ ~services[a] /\ a \in Addresses
    BY DEF Usable, IInv, TypeOK
  <2>3. \A d \in Clients : pc[d] \in Leased => holder[d] # a
    BY <2>2 DEF IInv, BusyIsHeld
  <2>4. DOMAIN table = Stored \ (bad \cap Before(a)) /\ a \in DOMAIN table
    <3>1. a \notin Before(a)
      BY <2>2, PoolAssumption DEF Before
    <3>2. QED
      BY <3>1, <2>2 DEF Without
  <2>5. \A b \in DOMAIN table : table[b] = services[b]
    BY DEF Without
  <2>6. table \in [DOMAIN table -> BOOLEAN]
    BY <2>4 DEF IInv, TypeOK, Without
  <2>7. IsFiniteSet(DOMAIN table) /\ Cardinality(DOMAIN table) <= Limit
    BY <2>4, FewerEntries, Zenon DEF IInv
  <2> HIDE DEF table
  <2>8. QED
    BY <1>2, <2>1, <2>2, <2>3, <2>4, <2>5, <2>6, <2>7, MakeHolderIInv DEF table
<1>4. CASE CheckThrows(bad)
  BY <1>4, FailIInv DEF CheckThrows
<1>5. CASE TakeNew(c, bad)
  <2>1. CASE Fail(bad)
    BY <2>1, FailIInv
  <2>2. CASE /\ ~LimitReached(bad)
             /\ \E a \in Addresses \ ((Stored \ bad) \cup Referred) :
                  MakeHolder(c, a, [b \in (Stored \ bad) \cup {a} |-> b # a /\ services[b]])
    <3>1. PICK a \in Addresses \ ((Stored \ bad) \cup Referred) :
              MakeHolder(c, a, [b \in (Stored \ bad) \cup {a} |-> b # a /\ services[b]])
      BY <2>2
    <3> DEFINE table == [b \in (Stored \ bad) \cup {a} |-> b # a /\ services[b]]
    <3>2. \A d \in Clients : holder[d] # a
      BY DEF Referred
    <3>3. DOMAIN table = (Stored \ bad) \cup {a}
      OBVIOUS
    <3>4. table \in [DOMAIN table -> BOOLEAN]
      BY <3>3
    <3>5. \A b \in DOMAIN table \ {a} : table[b] = services[b]
      BY <3>3 DEF IInv, TypeOK
    <3>6. IsFiniteSet(DOMAIN table) /\ Cardinality(DOMAIN table) <= Limit
      <4>1. IsFiniteSet(Stored \ bad) /\ Cardinality(Stored \ bad) \in Nat
        BY FewerEntries, FS_CardinalityType, Zenon DEF IInv
      <4>2. Cardinality(Stored \ bad) < Limit
        BY <2>2, <4>1, PoolAssumption DEF LimitReached
      <4>3. /\ IsFiniteSet((Stored \ bad) \cup {a})
            /\ Cardinality((Stored \ bad) \cup {a}) = Cardinality(Stored \ bad) + 1
        BY <4>1, FS_AddElement
      <4>4. QED
        BY <4>1, <4>2, <4>3, <3>3, PoolAssumption
    <3> HIDE DEF table
    <3>7. MakeHolder(c, a, table)
      BY <3>1 DEF table
    <3>8. QED
      BY <1>2, <3>2, <3>3, <3>4, <3>5, <3>6, <3>7, MakeHolderIInv
  <2>3. QED
    BY <1>5, <2>1, <2>2 DEF TakeNew
<1>6. QED
  BY <1>1, <1>3, <1>4, <1>5

(* Every step keeps the inductive invariant. *)
LEMMA NextIInv == IInv /\ [Next]_vars => IInv'
<1> SUFFICES ASSUME IInv, [Next]_vars PROVE IInv'
  OBVIOUS
<1>1. CASE UNCHANGED vars
  BY <1>1 DEF vars, IInv, TypeOK, HolderPresent, HoldersExclusive, BusyIsHeld,
              WithinLimit, Stored
<1>2. ASSUME NEW c \in Clients, GetService(c) PROVE IInv'
  BY <1>2, GetServiceIInv
<1>3. ASSUME NEW c \in Clients, Cast(c) PROVE IInv'
  <2>1. TypeOK'
    BY <1>3 DEF Cast, IInv, TypeOK, Stored, Steps, Leased
  <2>2. HolderPresent' /\ HoldersExclusive' /\ BusyIsHeld' /\ WithinLimit'
    BY <1>3 DEF Cast, IInv, TypeOK, Stored, Leased, HolderPresent,
                HoldersExclusive, BusyIsHeld, WithinLimit
  <2>3. QED
    BY <2>1, <2>2 DEF IInv
<1>4. ASSUME NEW c \in Clients, DestroyHolder(c) PROVE IInv'
  <2>1. pc[c] \in Leased /\ pc' = [pc EXCEPT ![c] = "unlocked"]
        /\ holder' = holder /\ inst' = inst
    BY <1>4 DEF DestroyHolder, Leased
  <2>2. Stored' = Stored /\ \A a \in Stored :
                     services'[a] = IF a = holder[c] THEN FALSE ELSE services[a]
    BY <1>4 DEF DestroyHolder, Stored
  <2>3. TypeOK'
    BY <1>4, <2>1, <2>2 DEF DestroyHolder, IInv, TypeOK, Stored, Steps, Leased
  <2>4. HolderPresent' /\ HoldersExclusive'
    BY <2>1 DEF IInv, TypeOK, HolderPresent, HoldersExclusive, Leased, Steps
  <2>5. BusyIsHeld'
    <3> SUFFICES ASSUME NEW a \in Stored
                 PROVE  services'[a] <=>
                          \E d \in Clients : pc'[d] \in Leased /\ holder'[d] = a
      BY <2>2 DEF BusyIsHeld
    <3>1. \A d \in Clients : pc'[d] \in Leased <=> (d # c /\ pc[d] \in Leased)
      BY <2>1 DEF IInv, TypeOK, Leased, Steps
    <3>2. services[a] <=> \E d \in Clients : pc[d] \in Leased /\ holder[d] = a
      BY DEF IInv, BusyIsHeld
    <3>3. CASE a = holder[c]
      <4>1. \A d \in Clients : pc[d] \in Leased /\ holder[d] = a => d = c
        BY <3>3, <2>1 DEF IInv, HoldersExclusive
      <4>2. QED
        BY <4>1, <3>1, <3>3, <2>1, <2>2
    <3>4. CASE a # holder[c]
      BY <3>1, <3>2, <3>4, <2>1, <2>2
    <3>5. QED
      BY <3>3, <3>4
  <2>6. WithinLimit'
    BY <2>2 DEF IInv, WithinLimit
  <2>7. QED
    BY <2>3, <2>4, <2>5, <2>6 DEF IInv
<1>5. ASSUME NEW c \in Clients, ReleaseMembers(c) PROVE IInv'
  <2>1. TypeOK'
    BY <1>5 DEF ReleaseMembers, IInv, TypeOK, Stored, Steps, Leased
  <2>2. HolderPresent' /\ HoldersExclusive' /\ BusyIsHeld' /\ WithinLimit'
    BY <1>5 DEF ReleaseMembers, IInv, TypeOK, Stored, Steps, Leased, HolderPresent,
                HoldersExclusive, BusyIsHeld, WithinLimit
  <2>3. QED
    BY <2>1, <2>2 DEF IInv
<1>6. ASSUME NEW c \in Clients, ReleaseInstance(c) PROVE IInv'
  BY <1>6 DEF ReleaseInstance, IInv, TypeOK, Stored, HolderPresent,
              HoldersExclusive, BusyIsHeld, WithinLimit
<1>7. QED
  BY <1>1, <1>2, <1>3, <1>4, <1>5, <1>6 DEF Next

(* Types, exclusive holders, truthful flags and the limit, for every pool. *)
THEOREM PoolInvariant == Spec => []IInv
  BY InitIInv, NextIInv, PTL DEF Spec

(* The variables keep their types. *)
THEOREM PoolTypeOK == Spec => []TypeOK
<1>1. IInv => TypeOK
  BY DEF IInv
<1>2. QED
  BY PoolInvariant, <1>1, PTL

(* No two holders ever stand for the same instance.                        *)
THEOREM PoolHoldersExclusive == Spec => []HoldersExclusive
<1>1. IInv => HoldersExclusive
  BY DEF IInv
<1>2. QED
  BY PoolInvariant, <1>1, PTL

(* An instance of the map is flagged busy exactly while a holder has it.   *)
THEOREM PoolBusyIsHeld == Spec => []BusyIsHeld
<1>1. IInv => BusyIsHeld
  BY DEF IInv
<1>2. QED
  BY PoolInvariant, <1>1, PTL

(* The map never has more than m_limit entries.                            *)
THEOREM PoolWithinLimit == Spec => []WithinLimit
<1>1. IInv => WithinLimit
  BY DEF IInv
<1>2. QED
  BY PoolInvariant, <1>1, PTL

-----------------------------------------------------------------------------
(* A step that leaves the pc and the holder of every client in its lease   *)
(* alone is a stutter of LeasePool.                                        *)
LEMMA SameLeases ==
  ASSUME \A c \in Clients : LeaseOf(c)' = LeaseOf(c)
  PROVE  UNCHANGED [c \in Clients |-> LeaseOf(c)]
  OBVIOUS

(* A new holder is an Acquire of LeasePool.                                *)
LEMMA MakeHolderAcquires ==
  ASSUME IInv, NEW c \in Clients, pc[c] = "idle", NEW a \in Addresses,
         \A d \in Clients : pc[d] \in Leased => holder[d] # a,
         NEW table, MakeHolder(c, a, table)
  PROVE  Lease!Acquire(c)
<1> DEFINE l == [d \in Clients |-> LeaseOf(d)]
<1>1. /\ pc' = [pc EXCEPT ![c] = "leased"] /\ pc \in [Clients -> Steps]
      /\ holder' = [holder EXCEPT ![c] = a]
      /\ holder \in [Clients -> Addresses \cup {None}]
  BY DEF MakeHolder, IInv, TypeOK
<1>2. \A d \in Clients : LeaseOf(d)' = IF d = c THEN a ELSE LeaseOf(d)
  BY <1>1 DEF LeaseOf, Leased
<1>3. l[c] = None
  BY DEF LeaseOf, Leased
<1>4. \A d \in Clients : l[d] # a
  BY PoolAssumption DEF LeaseOf
<1>5. l' = [l EXCEPT ![c] = a]
  BY <1>2
<1>6. QED
  BY <1>3, <1>4, <1>5 DEF Lease!Acquire

(* Every step of the pool is a step of LeasePool or changes no lease.      *)
LEMMA LeaseStep ==
  ASSUME IInv, [Next]_vars
  PROVE  [Lease!Next]_([c \in Clients |-> LeaseOf(c)])
<1> DEFINE l == [d \in Clients |-> LeaseOf(d)]
<1>1. CASE UNCHANGED vars
  BY <1>1 DEF vars, LeaseOf
<1>2. ASSUME NEW c \in Clients, GetService(c) PROVE [Lease!Next]_l
  <2>1. PICK bad : TakeFree(c, bad) \/ CheckThrows(bad) \/ TakeNew(c, bad)
    BY <1>2 DEF GetService
  <2>2. pc[c] = "idle"
    BY <1>2 DEF GetService
  <2>3. CASE \E S : Fail(S)
    BY <2>3 DEF Fail, LeaseOf
  <2>4. CASE TakeFree(c, bad)
    <3>1. PICK a \in Usable(bad) : MakeHolder(c, a, Without(bad \cap Before(a)))
      BY <2>4 DEF TakeFree
    <3>2. a \in Addresses /\ \A d \in Clients : pc[d] \in Leased => holder[d] # a
      BY DEF Usable, IInv, TypeOK, BusyIsHeld
    <3>3. Lease!Acquire(c)
      BY <2>2, <3>1, <3>2, MakeHolderAcquires
    <3>4. QED
      BY <3>3 DEF Lease!Next
  <2>5. CASE \E a \in Addresses \ ((Stored \ bad) \cup Referred) :
               MakeHolder(c, a, [b \in (Stored \ bad) \cup {a} |-> b # a /\ services[b]])
    <3>1. PICK a \in Addresses \ ((Stored \ bad) \cup Referred) :
             MakeHolder(c, a, [b \in (Stored \ bad) \cup {a} |-> b # a /\ services[b]])
      BY <2>5
    <3>2. \A d \in Clients : holder[d] # a
      BY DEF Referred
    <3>3. Lease!Acquire(c)
      BY <2>2, <3>1, <3>2, MakeHolderAcquires
    <3>4. QED
      BY <3>3 DEF Lease!Next
  <2>6. QED
    BY <2>1, <2>3, <2>4, <2>5 DEF CheckThrows, TakeNew
<1>3. ASSUME NEW c \in Clients, Cast(c) PROVE [Lease!Next]_l
  BY <1>3 DEF Cast, LeaseOf, Leased, IInv, TypeOK
<1>4. ASSUME NEW c \in Clients, DestroyHolder(c) PROVE [Lease!Next]_l
  <2>1. /\ pc[c] \in Leased /\ pc' = [pc EXCEPT ![c] = "unlocked"]
        /\ pc \in [Clients -> Steps] /\ holder' = holder
    BY <1>4 DEF DestroyHolder, Leased, IInv, TypeOK
  <2>2. \A d \in Clients : LeaseOf(d)' = IF d = c THEN None ELSE LeaseOf(d)
    BY <2>1 DEF LeaseOf, Leased
  <2>3. l[c] # None
    BY <2>1 DEF LeaseOf, IInv, HolderPresent, Leased
  <2>4. l' = [l EXCEPT ![c] = None]
    BY <2>2
  <2>5. Lease!Release(c)
    BY <2>3, <2>4 DEF Lease!Release
  <2>6. QED
    BY <2>5 DEF Lease!Next
<1>5. ASSUME NEW c \in Clients, ReleaseMembers(c) PROVE [Lease!Next]_l
  BY <1>5 DEF ReleaseMembers, LeaseOf, Leased, IInv, TypeOK
<1>6. ASSUME NEW c \in Clients, ReleaseInstance(c) PROVE [Lease!Next]_l
  BY <1>6 DEF ReleaseInstance, LeaseOf
<1>7. QED
  BY <1>1, <1>2, <1>3, <1>4, <1>5, <1>6 DEF Next

(* The pool implements LeasePool: a service given out is its client's own  *)
(* until the holder is destroyed.                                          *)
THEOREM PoolImplementsLeasePool == Spec => ImplementsLeasePool
<1>1. Init => Lease!Init
  BY DEF Init, Lease!Init, LeaseOf, Leased
<1>2. IInv /\ [Next]_vars => [Lease!Next]_([c \in Clients |-> LeaseOf(c)])
  BY LeaseStep
<1>3. QED
  BY <1>1, <1>2, PoolInvariant, PTL DEF Spec, ImplementsLeasePool, Lease!Spec
=============================================================================
