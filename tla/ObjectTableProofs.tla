-------------------------- MODULE ObjectTableProofs --------------------------
(***************************************************************************)
(* Proofs about ObjectTable for every number of requests under way, of     *)
(* identifiers and of interfaces: a live proxy has its stub, the           *)
(* connection is closed for a cause, and a stub has an owner.              *)
(***************************************************************************)
EXTENDS ObjectTable, TLAPS

(* A request that was made and whose response has not been read.           *)
Live(k) == calls[k] # Free

(* The response of k brings the identifier n of a stub of the side s.      *)
Brings(k, s, n) ==
  /\ Live(k) /\ calls[k].from = Peer(s)
  /\ calls[k].stage = "response" /\ calls[k].result = n

(* A request of k about the instance n of the side s.                      *)
About(k, s, n) == Live(k) /\ calls[k].from = Peer(s) /\ calls[k].id = n

(* Identifiers are generated in order and are not used again.              *)
IdsMade ==
  /\ \A s \in Sides : \A b \in stubs[s] : b.id <= made[s]
  /\ \A s \in Sides : \A p \in proxies[s] : p.id <= made[Peer(s)]

OneStub == \A s \in Sides : \A b, d \in stubs[s] : b.id = d.id => b = d

OneProxy == \A s \in Sides : \A p, q \in proxies[s] : p.id = q.id => p = q

(* A proxy has a manager when its stub waits to be destroyed.              *)
ManagedOwned ==
  \A s \in Sides : \A p \in proxies[Peer(s)] : \A b \in Find(s, p.id) : b.owned = p.managed

(* An identifier on its way is that of a stub, goes to one caller and has  *)
(* no proxy yet.                                                           *)
FreshResult(k) ==
  \A s \in Sides : \A n \in Ids : Brings(k, s, n) =>
    /\ calls[k].op # "destroy"
    /\ Find(s, n) # {}
    /\ \A b \in Find(s, n) : b.owned = calls[k].managed
    /\ \A p \in proxies[Peer(s)] : p.id # n
    /\ \A j \in Slots : Brings(j, s, n) => j = k

(* Nobody refers to the object that a DestroyObject is about: no proxy, no *)
(* response, no caller that waits; and once it was executed there is none. *)
AloneDestroy(k) ==
  \A s \in Sides : Live(k) /\ calls[k].op = "destroy" /\ calls[k].from = Peer(s) =>
    /\ calls[k].id # NoId
    /\ \A p \in proxies[Peer(s)] : p.id # calls[k].id
    /\ \A j \in Slots : ~Brings(j, s, calls[k].id)
    /\ \A j \in Slots : About(j, s, calls[k].id) /\ calls[j].op # "destroy" => ~calls[j].waits
    /\ calls[k].stage = "response" => Find(s, calls[k].id) = {}

(* The object of a call stays while its caller waits.                      *)
Served(k) ==
  \A s \in Sides :
    Live(k) /\ calls[k].from = Peer(s) /\ calls[k].waits /\ calls[k].op \in {"call", "query"}
      => Find(s, calls[k].id) # {}

(* Who does not wait has given up; only a call runs or clones; what the    *)
(* manager answers gets a manager.                                         *)
Orderly(k) == Live(k) =>
  /\ calls[k].result <= made[Peer(calls[k].from)]
  /\ calls[k].id <= made[Peer(calls[k].from)]
  /\ ~calls[k].waits => gaveUp
  /\ calls[k].stage \in {"cloning", "running"} => calls[k].op = "call"
  /\ calls[k].op \in {"create", "query"} => calls[k].managed

Slot(k) == FreshResult(k) /\ AloneDestroy(k) /\ Served(k) /\ Orderly(k)

(* The inductive invariant: a proxy keeps its stub because only its own    *)
(* DestroyObject removes the stub, and that is sent when no proxy, no      *)
(* response and no waiting caller has the identifier any more.             *)
IInv ==
  /\ ProxyHasStub
  /\ IdsMade
  /\ OneStub
  /\ OneProxy
  /\ ManagedOwned
  /\ \A k \in Slots : Slot(k)
  /\ ClosedForCause
  /\ ResultsOwned

-----------------------------------------------------------------------------
(* The two sides, and what a new stub changes.                             *)

(* The other end of the other end.                                         *)
LEMMA PeerFacts ==
  \A s \in Sides : /\ Peer(s) \in Sides /\ Peer(s) # s /\ Peer(Peer(s)) = s
                   /\ \A r \in Sides : r = s \/ r = Peer(s)
BY DEF Sides, Peer

(* Stubs are only added, with identifiers that were not made before.       *)
Grown ==
  /\ made' \in [Sides -> 0..MaxIds] /\ stubs' \in [Sides -> SUBSET Stubs]
  /\ \A r \in Sides : made[r] <= made'[r] /\ stubs[r] \subseteq stubs'[r]
  /\ \A r \in Sides : \A b \in stubs'[r] \ stubs[r] : made[r] < b.id /\ b.id <= made'[r]
  /\ \A r \in Sides : \A b, d \in stubs'[r] \ stubs[r] : b = d

(* AppendStub adds one stub.                                               *)
LEMMA AppendGrown ==
  ASSUME TypeOK, NEW s \in Sides, NEW i \in Interfaces, NEW owned \in BOOLEAN,
         AppendStub(s, i, owned)
  PROVE  /\ Grown
         /\ made[s] + 1 \in Ids /\ made'[s] = made[s] + 1
         /\ \A r \in Sides : r # s => made'[r] = made[r] /\ stubs'[r] = stubs[r]
         /\ \E b \in stubs'[s] : b.id = made[s] + 1
         /\ \A b \in stubs'[s] \ stubs[s] : b.id = made[s] + 1 /\ b.owned = owned
<1> DEFINE new == [id |-> made[s] + 1, iface |-> i, null |-> i \notin Known[s], owned |-> owned]
<1>1. /\ made[s] \in 0..MaxIds /\ made[s] < MaxIds /\ MaxIds \in Nat
      /\ made \in [Sides -> 0..MaxIds] /\ stubs \in [Sides -> SUBSET Stubs]
  BY ObjectTableAssumption DEF AppendStub, TypeOK
<1>2. made[s] + 1 \in Ids /\ made[s] + 1 \in 0..MaxIds
  BY <1>1 DEF Ids
<1>3. new \in Stubs /\ new.id = made[s] + 1 /\ new.owned = owned
  BY <1>2 DEF Stubs
<1> HIDE DEF new
<1>4. made' = [made EXCEPT ![s] = made[s] + 1] /\ stubs' = [stubs EXCEPT ![s] = stubs[s] \cup {new}]
  BY DEF AppendStub, new
<1>5. /\ made' \in [Sides -> 0..MaxIds] /\ stubs' \in [Sides -> SUBSET Stubs]
      /\ made'[s] = made[s] + 1 /\ stubs'[s] = stubs[s] \cup {new}
      /\ \A r \in Sides : r # s => made'[r] = made[r] /\ stubs'[r] = stubs[r]
  BY <1>1, <1>2, <1>3, <1>4
<1>6. \A r \in Sides : made[r] <= made'[r] /\ stubs[r] \subseteq stubs'[r]
  BY <1>1, <1>5
<1>7. \A r \in Sides : \A b \in stubs'[r] \ stubs[r] : r = s /\ b = new
  BY <1>5
<1>8. QED
  BY <1>1, <1>2, <1>3, <1>5, <1>6, <1>7 DEF Grown

(* No change is growth too.                                                *)
LEMMA SameGrown ==
  ASSUME TypeOK, UNCHANGED <<stubs, made>>
  PROVE  Grown
BY DEF TypeOK, Grown

(* The stubs of the identifiers made before stay as they are.              *)
LEMMA GrownFacts ==
  ASSUME IInv, Grown
  PROVE  /\ \A r \in Sides : \A n \in Ids : n <= made[r] => Find(r, n)' = Find(r, n)
         /\ OneStub'
         /\ \A r \in Sides : \A b \in stubs'[r] : b.id <= made'[r]
         /\ \A r \in Sides : made[r] \in Nat /\ made'[r] \in Nat /\ made[r] <= made'[r]
<1>1. /\ made \in [Sides -> 0..MaxIds] /\ made' \in [Sides -> 0..MaxIds]
      /\ \A r \in Sides : made[r] <= made'[r]
      /\ MaxIds \in Nat
  BY ObjectTableAssumption DEF IInv, ProxyHasStub, TypeOK, Grown
<1>2. \A r \in Sides : made[r] \in Nat /\ made'[r] \in Nat
  BY <1>1
<1>3. \A r \in Sides : \A b \in stubs'[r] : b.id \in Nat
  BY ObjectTableAssumption DEF Grown, Stubs, Ids
<1>4. \A r \in Sides : \A b \in stubs[r] : b \in stubs'[r] /\ b.id <= made[r]
  BY DEF IInv, IdsMade, Grown
<1>5. \A r \in Sides : \A b \in stubs'[r] \ stubs[r] : made[r] < b.id /\ b.id <= made'[r]
  BY DEF Grown
<1>6. \A r \in Sides : \A n \in Ids : n <= made[r] => Find(r, n)' = Find(r, n)
  <2> SUFFICES ASSUME NEW r \in Sides, NEW n \in Ids, n <= made[r]
               PROVE  {b \in stubs'[r] : b.id = n} = {b \in stubs[r] : b.id = n}
    BY DEF Find
  <2>1. n \in Nat
    BY ObjectTableAssumption DEF Ids
  <2>2. \A b \in stubs'[r] : b.id = n => b \in stubs[r]
    BY <1>2, <1>3, <1>5, <2>1
  <2>3. QED
    BY <1>4, <2>2
<1>7. \A r \in Sides : \A b \in stubs'[r] : b.id <= made'[r]
  BY <1>1, <1>2, <1>3, <1>4, <1>5
<1>8. OneStub'
  <2> SUFFICES ASSUME NEW r \in Sides, NEW b \in stubs'[r], NEW d \in stubs'[r], b.id = d.id
               PROVE  b = d
    BY DEF OneStub
  <2>1. CASE b \in stubs[r] /\ d \in stubs[r]
    BY <2>1 DEF IInv, OneStub
  <2>2. CASE b \notin stubs[r] /\ d \notin stubs[r]
    BY <2>2 DEF Grown
  <2>3. CASE b \in stubs[r] /\ d \notin stubs[r]
    BY <1>2, <1>3, <1>4, <1>5, <2>3
  <2>4. CASE b \notin stubs[r] /\ d \in stubs[r]
    BY <1>2, <1>3, <1>4, <1>5, <2>4
  <2>5. QED
    BY <2>1, <2>2, <2>3, <2>4
<1>9. QED
  BY <1>1, <1>2, <1>6, <1>7, <1>8

(* A request under way is a record of the right type.                      *)
LEMMA LiveFacts ==
  ASSUME TypeOK, NEW k \in Slots, Live(k)
  PROVE  /\ calls[k] \in Calls
         /\ calls[k].from \in Sides /\ calls[k].iface \in Interfaces
         /\ calls[k].managed \in BOOLEAN /\ calls[k].waits \in BOOLEAN
         /\ calls[k].id \in Ids \cup {NoId} /\ calls[k].result \in Ids \cup {NoId}
         /\ calls[k].op \in {"create", "destroy", "query", "call"}
         /\ calls[k].stage \in {"request", "cloning", "running", "response"}
BY DEF TypeOK, Live, Calls

(* Identifiers are numbers, and the empty one is none of them.             *)
LEMMA IdFacts ==
  NoId \notin Ids /\ NoId \in Nat /\ Ids \subseteq Nat
BY ObjectTableAssumption DEF NoId, Ids

(* The parts of the type invariant that every step changes one by one.     *)
LEMMA TypeParts ==
  IInv => /\ TypeOK
          /\ stubs \in [Sides -> SUBSET Stubs] /\ made \in [Sides -> 0..MaxIds]
          /\ proxies \in [Sides -> SUBSET Proxies] /\ calls \in [Slots -> Calls \cup {Free}]
          /\ lost \in [Sides -> SUBSET Ids]
          /\ gaveUp \in BOOLEAN /\ closed \in BOOLEAN
          /\ \A s \in Sides : \A p \in proxies[s] : p.id \in Ids /\ p.managed \in BOOLEAN /\ p.iface \in Interfaces
          /\ \A s \in Sides : \A b \in stubs[s] : b.id \in Ids /\ b.owned \in BOOLEAN
BY DEF IInv, ProxyHasStub, TypeOK, Proxies, Stubs

-----------------------------------------------------------------------------
(* What it takes for a step that adds stubs only, and changes the requests *)
(* in K, to keep the invariant.                                            *)

(* The proxy p that the step about K makes at r is the first one for its   *)
(* stub, and nobody else refers to that.                                   *)
NewProxy(K, r, p) ==
  /\ p.id <= made'[Peer(r)]
  /\ Find(Peer(r), p.id)' # {}
  /\ \A b \in Find(Peer(r), p.id)' : b.owned = p.managed
  /\ \A q \in proxies[r] : q.id # p.id
  /\ \A j \in Slots \ K : ~Brings(j, Peer(r), p.id)
  /\ \A j \in Slots \ K : Live(j) /\ calls[j].op = "destroy" /\ calls[j].from = r => calls[j].id # p.id

(* Nothing the slots K hold after the step refers to an object that is to  *)
(* be destroyed.                                                           *)
NoClash(K) ==
  \A r \in Sides : \A k \in K : \A j \in Slots \ K :
    Live(j) /\ calls[j].op = "destroy" /\ calls[j].from = Peer(r) =>
      /\ ~Brings(k, r, calls[j].id)'
      /\ About(k, r, calls[j].id)' /\ calls'[k].op # "destroy" => ~calls'[k].waits

(* Such a step keeps the invariant.                                        *)
LEMMA SlotStep ==
  ASSUME IInv, TypeOK', Grown, NEW K \in SUBSET Slots,
         \A j \in Slots \ K : calls'[j] = calls[j],
         gaveUp => gaveUp', UNCHANGED closed,
         \A r \in Sides : \A p \in proxies'[r] \ proxies[r] : NewProxy(K, r, p),
         \A r \in Sides : \A p, q \in proxies'[r] \ proxies[r] : p = q,
         \A k \in K : Slot(k)', NoClash(K), ResultsOwned'
  PROVE  IInv'
<1>1. /\ \A r \in Sides : \A n \in Ids : n <= made[r] => Find(r, n)' = Find(r, n)
      /\ OneStub'
      /\ \A r \in Sides : \A b \in stubs'[r] : b.id <= made'[r]
      /\ \A r \in Sides : made[r] \in Nat /\ made'[r] \in Nat /\ made[r] <= made'[r]
  BY GrownFacts
<1>2. \A r \in Sides : \A p \in proxies[r] :
        /\ p.id \in Ids /\ p.id \in Nat /\ p.id <= made[Peer(r)]
        /\ Find(Peer(r), p.id)' = Find(Peer(r), p.id)
  BY <1>1, TypeParts, PeerFacts, IdFacts DEF IInv, IdsMade
<1>3. \A j \in Slots \ K : (Live(j)' <=> Live(j)) /\ \A r, n : Brings(j, r, n)' <=> Brings(j, r, n)
  BY DEF Live, Brings
<1>4. \A j \in Slots \ K : \A r, n : About(j, r, n)' <=> About(j, r, n)
  BY DEF Live, About
<1>5. \A j \in Slots : \A r \in Sides : Live(j) /\ calls[j].from = Peer(r) =>
        /\ calls[j].id \in Ids \cup {NoId} /\ calls[j].result \in Ids \cup {NoId}
        /\ calls[j].id <= made[r] /\ calls[j].result <= made[r]
  BY TypeParts, LiveFacts, PeerFacts DEF IInv, Slot, Orderly
<1>6. ProxyHasStub'
  BY <1>2 DEF IInv, ProxyHasStub, NewProxy
<1>7. IdsMade'
  <2>1. \A r \in Sides : \A p \in proxies'[r] : p.id <= made'[Peer(r)]
    BY <1>1, <1>2, PeerFacts DEF NewProxy
  <2>2. QED
    BY <1>1, <2>1 DEF IdsMade
<1>8. OneProxy'
  BY DEF IInv, OneProxy, NewProxy
<1>9. ManagedOwned'
  <2> SUFFICES ASSUME NEW r \in Sides, NEW p \in proxies'[Peer(r)], NEW b \in Find(r, p.id)'
               PROVE  b.owned = p.managed
    BY DEF ManagedOwned
  <2>1. CASE p \in proxies[Peer(r)]
    <3>1. b \in Find(r, p.id)
      BY <1>2, <2>1, PeerFacts
    <3>2. QED
      BY <2>1, <3>1 DEF IInv, ManagedOwned
  <2>2. CASE p \notin proxies[Peer(r)]
    BY <2>2, PeerFacts DEF NewProxy
  <2>3. QED
    BY <2>1, <2>2
<1>10. ASSUME NEW j \in Slots \ K PROVE Slot(j)'
  <2>1. Slot(j) /\ calls'[j] = calls[j] /\ (Live(j)' <=> Live(j))
    BY <1>3 DEF IInv
  <2>2. FreshResult(j)'
    <3> SUFFICES ASSUME NEW r \in Sides, NEW n \in Ids, Brings(j, r, n)'
                 PROVE  /\ calls'[j].op # "destroy"
                        /\ Find(r, n)' # {}
                        /\ \A b \in Find(r, n)' : b.owned = calls'[j].managed
                        /\ \A p \in proxies'[Peer(r)] : p.id # n
                        /\ \A x \in Slots : Brings(x, r, n)' => x = j
      BY DEF FreshResult
    <3>1. Brings(j, r, n)
      BY <1>3
    <3>2. /\ calls[j].op # "destroy" /\ Find(r, n) # {}
          /\ \A b \in Find(r, n) : b.owned = calls[j].managed
          /\ \A p \in proxies[Peer(r)] : p.id # n
          /\ \A x \in Slots : Brings(x, r, n) => x = j
      BY <2>1, <3>1 DEF Slot, FreshResult
    <3>3. Find(r, n)' = Find(r, n)
      BY <1>1, <1>5, <3>1 DEF Brings
    <3>4. \A p \in proxies'[Peer(r)] : p.id # n
      BY <3>1, <3>2, PeerFacts DEF NewProxy
    <3>5. \A k \in K : ~Brings(k, r, n)'
      BY DEF Slot, FreshResult
    <3>6. \A x \in Slots : Brings(x, r, n)' => x = j
      BY <1>3, <3>2, <3>5
    <3>7. QED
      BY <2>1, <3>2, <3>3, <3>4, <3>6
  <2>3. AloneDestroy(j)'
    <3> SUFFICES ASSUME NEW r \in Sides, Live(j)', calls'[j].op = "destroy", calls'[j].from = Peer(r)
                 PROVE  /\ calls'[j].id # NoId
                        /\ \A p \in proxies'[Peer(r)] : p.id # calls'[j].id
                        /\ \A x \in Slots : ~Brings(x, r, calls[j].id)'
                        /\ \A x \in Slots : About(x, r, calls[j].id)' /\ calls'[x].op # "destroy"
                                              => ~calls'[x].waits
                        /\ calls'[j].stage = "response" => Find(r, calls[j].id)' = {}
      BY DEF AloneDestroy
    <3>1. Live(j) /\ calls[j].op = "destroy" /\ calls[j].from = Peer(r)
      BY <2>1
    <3>2. /\ calls[j].id # NoId
          /\ \A p \in proxies[Peer(r)] : p.id # calls[j].id
          /\ \A x \in Slots : ~Brings(x, r, calls[j].id)
          /\ \A x \in Slots : About(x, r, calls[j].id) /\ calls[x].op # "destroy" => ~calls[x].waits
          /\ calls[j].stage = "response" => Find(r, calls[j].id) = {}
      BY <2>1, <3>1 DEF Slot, AloneDestroy
    <3>3. Find(r, calls[j].id)' = Find(r, calls[j].id)
      BY <1>1, <1>5, <3>1, <3>2
    <3>4. \A p \in proxies'[Peer(r)] : p.id # calls[j].id
      BY <3>1, <3>2, PeerFacts DEF NewProxy
    <3>5. \A k \in K :
            /\ ~Brings(k, r, calls[j].id)'
            /\ About(k, r, calls[j].id)' /\ calls'[k].op # "destroy" => ~calls'[k].waits
      BY <3>1 DEF NoClash
    <3>6. \A x \in Slots : ~Brings(x, r, calls[j].id)'
      BY <1>3, <3>2, <3>5
    <3>7. \A x \in Slots : About(x, r, calls[j].id)' /\ calls'[x].op # "destroy" => ~calls'[x].waits
      BY <1>4, <3>2, <3>5
    <3>8. QED
      BY <2>1, <3>2, <3>3, <3>4, <3>6, <3>7
  <2>4. Served(j)'
    <3> SUFFICES ASSUME NEW r \in Sides, Live(j)', calls'[j].from = Peer(r),
                        calls'[j].waits, calls'[j].op \in {"call", "query"}
                 PROVE  Find(r, calls[j].id)' # {}
      BY DEF Served
    <3>1. Find(r, calls[j].id) # {}
      BY <2>1 DEF Slot, Served
    <3>2. calls[j].id \in Ids
      BY <3>1, TypeParts DEF Find
    <3>3. QED
      BY <1>1, <1>5, <2>1, <3>1, <3>2
  <2>5. Orderly(j)'
    <3> SUFFICES ASSUME Live(j)
                 PROVE  /\ calls[j].result <= made'[Peer(calls[j].from)]
                        /\ calls[j].id <= made'[Peer(calls[j].from)]
                        /\ ~calls[j].waits => gaveUp'
                        /\ calls[j].stage \in {"cloning", "running"} => calls[j].op = "call"
                        /\ calls[j].op \in {"create", "query"} => calls[j].managed
      BY <2>1 DEF Orderly
    <3>1. calls[j].from \in Sides /\ calls[j].id \in Nat /\ calls[j].result \in Nat
      BY TypeParts, LiveFacts, IdFacts
    <3>2. /\ calls[j].result <= made[Peer(calls[j].from)] /\ calls[j].id <= made[Peer(calls[j].from)]
          /\ ~calls[j].waits => gaveUp
          /\ calls[j].stage \in {"cloning", "running"} => calls[j].op = "call"
          /\ calls[j].op \in {"create", "query"} => calls[j].managed
      BY <2>1 DEF Slot, Orderly
    <3>3. QED
      BY <1>1, <3>1, <3>2, PeerFacts
  <2>6. QED
    BY <2>2, <2>3, <2>4, <2>5 DEF Slot
<1>11. ClosedForCause'
  BY DEF IInv, ClosedForCause, Grown
<1>12. \A j \in Slots : Slot(j)'
  BY <1>10
<1>13. QED
  BY <1>1, <1>6, <1>7, <1>8, <1>9, <1>11, <1>12 DEF IInv

(* A stub with an owner, as ResultsOwned counts them.                      *)
Owner(s, n) ==
  \/ n \in lost[s]
  \/ \E p \in proxies[Peer(s)] : p.id = n
  \/ \E k \in Slots : /\ calls[k] # Free /\ calls[k].from = Peer(s)
                      /\ \/ calls[k].stage = "response" /\ calls[k].result = n
                         \/ calls[k].op = "destroy" /\ calls[k].id = n

(* It is enough to find owners for the new stubs and for those that lose   *)
(* theirs.                                                                 *)
LEMMA OwnersFound ==
  ASSUME IInv, UNCHANGED closed,
         ~closed => \A s \in Sides : \A b \in stubs'[s] : b.owned /\ (b \in stubs[s] => Owner(s, b.id)) => Owner(s, b.id)'
  PROVE  ResultsOwned'
BY DEF IInv, ResultsOwned, Owner

-----------------------------------------------------------------------------
(* New requests.                                                           *)

(* CreateRemoteService, a method call or a query: the request is about the *)
(* object of a proxy; a stub that was made for a parameter has no owner.   *)
LEMMA NewRequest ==
  ASSUME IInv, Grown, NEW k \in Slots, calls[k] = Free,
         NEW s \in Sides, NEW op \in {"create", "query", "call"}, NEW i \in Interfaces,
         NEW id \in Ids \cup {NoId}, NEW arg \in Ids \cup {NoId}, NEW m \in BOOLEAN,
         op = "create" => id = NoId,
         op # "create" => \E p \in proxies[s] : p.id = id,
         op # "call" => m,
         calls' = [calls EXCEPT ![k] = Request(s, op, i, id, arg, m)],
         \A r \in Sides : \A b \in stubs'[r] \ stubs[r] : b.owned = FALSE,
         UNCHANGED <<proxies, lost, gaveUp, closed>>
  PROVE  IInv'
<1> DEFINE c == Request(s, op, i, id, arg, m)
<1>1. /\ c \in Calls /\ c # Free
      /\ c.op = op /\ c.from = s /\ c.id = id /\ c.managed = m /\ c.result = NoId
      /\ c.stage = "request" /\ c.waits = TRUE
  BY DEF Request, Calls, Free
<1> HIDE DEF c
<1>2. calls'[k] = c /\ \A j \in Slots \ {k} : calls'[j] = calls[j]
  BY TypeParts DEF c
<1>3. TypeOK'
  <2>1. calls' \in [Slots -> Calls \cup {Free}]
    BY <1>1, TypeParts DEF c
  <2>2. QED
    BY <2>1, TypeParts DEF TypeOK, Grown
<1>4. /\ \A r \in Sides : \A n \in Ids : n <= made[r] => Find(r, n)' = Find(r, n)
      /\ \A r \in Sides : made[r] \in Nat /\ made'[r] \in Nat /\ made[r] <= made'[r]
  BY GrownFacts
<1>5. op # "create" => /\ id \in Ids /\ id <= made[Peer(s)]
                       /\ Find(Peer(s), id)' = Find(Peer(s), id) /\ Find(Peer(s), id) # {}
  BY <1>4, TypeParts, PeerFacts DEF IInv, IdsMade, ProxyHasStub
<1>6. Slot(k)'
  <2>1. FreshResult(k)' /\ AloneDestroy(k)'
    BY <1>1, <1>2 DEF FreshResult, AloneDestroy, Brings
  <2>2. Served(k)'
    BY <1>1, <1>2, <1>5, PeerFacts DEF Served
  <2>3. Orderly(k)'
    <3>1. id <= made'[Peer(s)] /\ NoId <= made'[Peer(s)]
      <4>1. Peer(s) \in Sides /\ NoId = 0 /\ id \in Nat
        BY IdFacts, PeerFacts DEF NoId
      <4>2. made[Peer(s)] \in Nat /\ made'[Peer(s)] \in Nat /\ made[Peer(s)] <= made'[Peer(s)]
        BY <1>4, <4>1
      <4>3. QED
        BY <1>5, <4>1, <4>2
    <3>2. QED
      BY <1>1, <1>2, <3>1 DEF Orderly
  <2>4. QED
    BY <2>1, <2>2, <2>3 DEF Slot
<1>7. NoClash({k})
  <2> SUFFICES ASSUME NEW r \in Sides, NEW j \in Slots \ {k}, Live(j), calls[j].op = "destroy",
                      calls[j].from = Peer(r)
               PROVE  ~Brings(k, r, calls[j].id)' /\ ~About(k, r, calls[j].id)'
    BY DEF NoClash
  <2>1. calls[j].id # NoId /\ \A p \in proxies[Peer(r)] : p.id # calls[j].id
    BY DEF IInv, Slot, AloneDestroy
  <2>2. QED
    BY <1>1, <1>2, <2>1 DEF Brings, About
<1>8. ResultsOwned'
  <2>1. \A r \in Sides : \A n : Owner(r, n) => Owner(r, n)'
    BY <1>2 DEF Owner
  <2>2. QED
    BY <2>1, OwnersFound
<1>9. QED
  BY <1>2, <1>3, <1>6, <1>7, <1>8, SlotStep

(* CreateRemoteService sends a CreateObject.                               *)
LEMMA CreateIInv ==
  ASSUME IInv, NEW k \in Slots, NEW i \in Interfaces, Create(k, i)
  PROVE  IInv'
<1>1. /\ calls[k] = Free
      /\ calls' = [calls EXCEPT ![k] = Request("client", "create", i, NoId, NoId, TRUE)]
      /\ UNCHANGED <<stubs, made, proxies, lost, gaveUp, closed>>
  BY DEF Create, Put
<1>2. Grown /\ "client" \in Sides
  BY <1>1, TypeParts, SameGrown DEF Sides
<1>3. QED
  BY <1>1, <1>2, NewRequest

(* A proxy asks for another interface of its object.                       *)
LEMMA QueryIInv ==
  ASSUME IInv, NEW k \in Slots, NEW s \in Sides, NEW p \in proxies[s], NEW i \in Interfaces,
         Query(k, s, p, i)
  PROVE  IInv'
<1>1. /\ calls[k] = Free /\ p.id \in Ids
      /\ calls' = [calls EXCEPT ![k] = Request(s, "query", i, p.id, NoId, TRUE)]
      /\ UNCHANGED <<stubs, made, proxies, lost, gaveUp, closed>>
  BY TypeParts DEF Query, Put
<1>2. Grown
  BY <1>1, TypeParts, SameGrown
<1>3. QED
  BY <1>1, <1>2, NewRequest

(* A step that adds stubs without an owner, or takes a proxy away whose    *)
(* stub has no owner, and leaves the requests alone.                       *)
LEMMA QuietStep ==
  ASSUME IInv, Grown, proxies' \in [Sides -> SUBSET Proxies],
         \A r \in Sides : proxies'[r] \subseteq proxies[r],
         \A r \in Sides : \A b \in stubs'[r] \ stubs[r] : b.owned = FALSE,
         \A r \in Sides : ~closed => \A p \in proxies[r] : p.managed => p \in proxies'[r],
         UNCHANGED <<calls, lost, gaveUp, closed>>
  PROVE  IInv'
<1>1. TypeOK'
  BY TypeParts DEF TypeOK, Grown
<1>2. ResultsOwned'
  <2>1. ASSUME ~closed, NEW r \in Sides, NEW b \in stubs'[r], b.owned, b \in stubs[r] => Owner(r, b.id)
        PROVE  Owner(r, b.id)'
    <3>1. b \in stubs[r] /\ Owner(r, b.id) /\ b \in Find(r, b.id)
      BY <2>1, TypeParts DEF Find
    <3>2. \A p \in proxies[Peer(r)] : p.id = b.id => p.managed
      BY <2>1, <3>1 DEF IInv, ManagedOwned
    <3>3. \A p \in proxies[Peer(r)] : p.id = b.id => p \in proxies'[Peer(r)]
      BY <2>1, <3>2, PeerFacts
    <3>4. QED
      BY <3>1, <3>3 DEF Owner
  <2>2. QED
    BY <2>1, OwnersFound
<1>3. NoClash({})
  BY DEF NoClash
<1>4. \A r \in Sides : proxies'[r] \ proxies[r] = {}
  OBVIOUS
<1>5. QED
  BY <1>1, <1>2, <1>3, <1>4, SlotStep

(* A method is called; PrepareParam may have made a stub for a parameter.  *)
LEMMA CallIInv ==
  ASSUME IInv, NEW k \in Slots, NEW s \in Sides, NEW p \in proxies[s], NEW withArg \in BOOLEAN,
         Call(k, s, p, withArg)
  PROVE  IInv'
<1>1. /\ calls[k] = Free /\ UNCHANGED <<proxies, lost, gaveUp, closed>>
      /\ p.id \in Ids /\ p.iface \in Interfaces /\ p.managed \in BOOLEAN
  BY TypeParts DEF Call
<1>2. /\ Grown
      /\ (IF withArg THEN made[s] + 1 ELSE NoId) \in Ids \cup {NoId}
      /\ \A r \in Sides : \A b \in stubs'[r] \ stubs[r] : b.owned = FALSE
  <2>1. CASE withArg
    <3>1. AppendStub(s, p.iface, FALSE)
      BY <2>1 DEF Call
    <3>2. /\ Grown
          /\ made[s] + 1 \in Ids
          /\ \A r \in Sides : r # s => made'[r] = made[r] /\ stubs'[r] = stubs[r]
          /\ \A b \in stubs'[s] \ stubs[s] : b.id = made[s] + 1 /\ b.owned = FALSE
      BY <1>1, <3>1, TypeParts, AppendGrown
    <3>3. QED
      BY <2>1, <3>2
  <2>2. CASE ~withArg
    <3>1. UNCHANGED <<stubs, made>>
      BY <2>2 DEF Call
    <3>2. Grown
      BY <3>1, TypeParts, SameGrown
    <3>3. QED
      BY <2>2, <3>1, <3>2
  <2>3. QED
    BY <2>1, <2>2
<1>3. CASE closed
  <2>1. UNCHANGED calls
    BY <1>3 DEF Call
  <2>2. QED
    BY <1>1, <1>2, <1>3, <2>1, TypeParts, QuietStep
<1>4. CASE ~closed
  <2> DEFINE arg == IF withArg THEN made[s] + 1 ELSE NoId
  <2>1. calls' = [calls EXCEPT ![k] = Request(s, "call", p.iface, p.id, arg, p.managed)]
    BY <1>4 DEF Call, Put
  <2>2. arg \in Ids \cup {NoId} /\ p.id \in Ids \cup {NoId}
    BY <1>1, <1>2
  <2>3. "call" \in {"create", "query", "call"} /\ "call" # "create" /\ \E q \in proxies[s] : q.id = p.id
    OBVIOUS
  <2> HIDE DEF arg
  <2>4. QED
    BY <1>1, <1>2, <2>1, <2>2, <2>3, NewRequest
<1>5. QED
  BY <1>3, <1>4

(* ~Proxy: the DestroyObject of a managed proxy is about an object nobody  *)
(* else refers to.                                                         *)
LEMMA ReleaseIInv ==
  ASSUME IInv, NEW k \in Slots, NEW s \in Sides, NEW p \in proxies[s], Release(k, s, p)
  PROVE  IInv'
<1>1. /\ proxies' = [proxies EXCEPT ![s] = @ \ {p}] /\ ~InUse(s, p)
      /\ UNCHANGED <<stubs, made, lost, gaveUp, closed>>
  BY DEF Release
<1>2. /\ proxies' \in [Sides -> SUBSET Proxies] /\ p.id \in Ids
      /\ proxies'[s] = proxies[s] \ {p} /\ \A r \in Sides \ {s} : proxies'[r] = proxies[r]
  BY <1>1, TypeParts
<1>3. Grown
  BY <1>1, TypeParts, SameGrown
<1>4. CASE ~(p.managed /\ ~closed)
  <2>1. UNCHANGED calls
    BY <1>4 DEF Release
  <2>2. \A r \in Sides : proxies'[r] \subseteq proxies[r]
    BY <1>2
  <2>3. \A r \in Sides : ~closed => \A q \in proxies[r] : q.managed => q \in proxies'[r]
    BY <1>2, <1>4
  <2>4. QED
    BY <1>1, <1>2, <1>3, <2>1, <2>2, <2>3, QuietStep
<1>5. CASE p.managed /\ ~closed
  <2> DEFINE c == Request(s, "destroy", p.iface, p.id, NoId, TRUE)
  <2>1. calls[k] = Free /\ calls' = [calls EXCEPT ![k] = c] /\ p.iface \in Interfaces
    BY <1>5, TypeParts DEF Release, Put
  <2>2. /\ c \in Calls /\ c # Free
        /\ c.op = "destroy" /\ c.from = s /\ c.id = p.id /\ c.result = NoId
        /\ c.stage = "request" /\ c.waits = TRUE
    BY <1>2, <2>1 DEF Request, Calls, Free
  <2> HIDE DEF c
  <2>3. calls'[k] = c /\ \A j \in Slots \ {k} : calls'[j] = calls[j]
    BY <2>1, TypeParts
  <2>4. TypeOK'
    <3>1. calls' \in [Slots -> Calls \cup {Free}]
      BY <2>1, <2>2, TypeParts
    <3>2. QED
      BY <1>1, <1>2, <3>1, TypeParts DEF TypeOK
  <2>5. Slot(k)'
    <3>1. FreshResult(k)' /\ Served(k)'
      BY <2>2, <2>3 DEF FreshResult, Served, Brings
    <3>2. Orderly(k)'
      <4>1. p.id <= made[Peer(s)] /\ NoId <= made[Peer(s)]
        BY TypeParts, PeerFacts, ObjectTableAssumption DEF IInv, IdsMade, NoId
      <4>2. QED
        BY <1>1, <2>2, <2>3, <4>1 DEF Orderly
    <3>3. AloneDestroy(k)'
      <4> SUFFICES ASSUME NEW r \in Sides, s = Peer(r)
                   PROVE  /\ p.id # NoId
                          /\ \A q \in proxies'[s] : q.id # p.id
                          /\ \A j \in Slots : ~Brings(j, r, p.id)'
                          /\ \A j \in Slots : About(j, r, p.id)' /\ calls'[j].op # "destroy" => ~calls'[j].waits
        BY <2>2, <2>3 DEF AloneDestroy
      <4>1. p.id # NoId
        BY <1>2, IdFacts
      <4>2. \A q \in proxies'[s] : q.id # p.id
        BY <1>2 DEF IInv, OneProxy
      <4>3. \A j \in Slots : ~Brings(j, r, p.id)'
        <5>1. \A j \in Slots : ~Brings(j, r, p.id)
          BY <1>2 DEF IInv, Slot, FreshResult
        <5>2. QED
          BY <2>2, <2>3, <5>1 DEF Brings, Live
      <4>4. \A j \in Slots : About(j, r, p.id)' /\ calls'[j].op # "destroy" => ~calls'[j].waits
        BY <1>1, <2>2, <2>3 DEF About, Live, InUse
      <4>5. QED
        BY <4>1, <4>2, <4>3, <4>4
    <3>4. QED
      BY <3>1, <3>2, <3>3 DEF Slot
  <2>6. NoClash({k})
    <3> SUFFICES ASSUME NEW r \in Sides, NEW j \in Slots \ {k}, Live(j), calls[j].op = "destroy",
                        calls[j].from = Peer(r)
                 PROVE  ~Brings(k, r, calls[j].id)' /\ calls'[k].op = "destroy"
      BY DEF NoClash
    <3>1. QED
      BY <2>2, <2>3 DEF Brings
  <2>7. ResultsOwned'
    <3>1. ASSUME NEW r \in Sides, NEW n, Owner(r, n) PROVE Owner(r, n)'
      <4>1. CASE n \in lost[r]
        BY <1>1, <4>1 DEF Owner
      <4>2. CASE \E q \in proxies[Peer(r)] : q.id = n
        <5>1. PICK q \in proxies[Peer(r)] : q.id = n
          BY <4>2
        <5>2. CASE q = p /\ Peer(r) = s
          BY <2>2, <2>3, <5>1, <5>2 DEF Owner
        <5>3. CASE ~(q = p /\ Peer(r) = s)
          <6>1. q \in proxies'[Peer(r)]
            BY <1>2, <5>1, <5>3, PeerFacts
          <6>2. QED
            BY <5>1, <6>1 DEF Owner
        <5>4. QED
          BY <5>2, <5>3
      <4>3. CASE \E j \in Slots : /\ calls[j] # Free /\ calls[j].from = Peer(r)
                                  /\ \/ calls[j].stage = "response" /\ calls[j].result = n
                                     \/ calls[j].op = "destroy" /\ calls[j].id = n
        BY <2>1, <2>3, <4>3 DEF Owner
      <4>4. QED
        BY <3>1, <4>1, <4>2, <4>3 DEF Owner
    <3>2. QED
      BY <1>1, <3>1, OwnersFound
  <2>8. \A r \in Sides : proxies'[r] \ proxies[r] = {}
    BY <1>2
  <2>9. QED
    BY <1>1, <1>3, <2>3, <2>4, <2>5, <2>6, <2>7, <2>8, SlotStep
<1>6. QED
  BY <1>4, <1>5

-----------------------------------------------------------------------------
(* Requests that are executed.                                             *)

(* A request is answered, with the identifier of a new stub or with none.  *)
LEMMA Answer ==
  ASSUME IInv, Grown, NEW k \in Slots, Live(k), calls[k].stage # "response", calls[k].op # "destroy",
         NEW n \in Ids \cup {NoId}, Respond(k, n),
         n # NoId => /\ made[Peer(calls[k].from)] < n /\ n <= made'[Peer(calls[k].from)]
                     /\ \E b \in stubs'[Peer(calls[k].from)] : b.id = n,
         \A r \in Sides : \A b \in stubs'[r] \ stubs[r] :
            r = Peer(calls[k].from) /\ b.id = n /\ b.owned = calls[k].managed,
         proxies' \in [Sides -> SUBSET Proxies],
         \A r \in Sides : proxies'[r] \subseteq proxies[r],
         \A r \in Sides : \A p \in proxies[r] : p.managed => p \in proxies'[r],
         UNCHANGED <<lost, gaveUp, closed>>
  PROVE  IInv'
<1>0. PICK c \in Calls, s \in Sides : c = calls[k] /\ s = Peer(calls[k].from)
  BY TypeParts, LiveFacts, PeerFacts
<1> USE <1>0
<1> DEFINE d == [c EXCEPT !.stage = "response", !.result = n]
<1>1. /\ c \in Calls /\ c.from \in Sides /\ c.managed \in BOOLEAN /\ c.waits \in BOOLEAN
      /\ c.id \in Ids \cup {NoId} /\ s \in Sides /\ Peer(s) = c.from
  BY TypeParts, LiveFacts, PeerFacts
<1>2. /\ d \in Calls /\ d # Free /\ d.op = c.op /\ d.from = c.from /\ d.id = c.id
      /\ d.managed = c.managed /\ d.waits = c.waits /\ d.stage = "response" /\ d.result = n
  BY <1>1 DEF Calls, Free
<1>3. calls'[k] = d /\ \A j \in Slots \ {k} : calls'[j] = calls[j]
  BY TypeParts DEF Respond, Put
<1>4. TypeOK'
  <2>1. calls' \in [Slots -> Calls \cup {Free}]
    BY <1>2, TypeParts DEF Respond, Put
  <2>2. QED
    BY <2>1, TypeParts DEF TypeOK, Grown
<1>5. /\ \A r \in Sides : \A x \in Ids : x <= made[r] => Find(r, x)' = Find(r, x)
      /\ \A r \in Sides : made[r] \in Nat /\ made'[r] \in Nat /\ made[r] <= made'[r]
      /\ \A r \in Sides : \A b \in stubs[r] : b.id <= made[r] /\ b.id \in Nat
  BY TypeParts, GrownFacts, IdFacts DEF IInv, IdsMade
<1>6. Slot(k) /\ c.id <= made[s]
  BY DEF IInv, Slot, Orderly
<1> HIDE DEF d
<1>7. \A r \in Sides : c.from = Peer(r) => r = s
  BY <1>1, PeerFacts
<1>8. \A r \in Sides : \A p \in proxies[r] : p.id <= made[Peer(r)] /\ p.id \in Nat
  BY TypeParts, IdFacts DEF IInv, IdsMade
<1>9. \A j \in Slots : Live(j) => /\ calls[j].result \in Nat /\ calls[j].id \in Nat
                                  /\ calls[j].result <= made[Peer(calls[j].from)]
                                  /\ calls[j].id <= made[Peer(calls[j].from)]
  BY TypeParts, LiveFacts, IdFacts DEF IInv, Slot, Orderly
<1>10. Slot(k)'
  <2>1. FreshResult(k)'
    <3> SUFFICES ASSUME n \in Ids
                 PROVE  /\ Find(s, n)' # {}
                        /\ \A b \in Find(s, n)' : b.owned = c.managed
                        /\ \A p \in proxies'[c.from] : p.id # n
                        /\ \A j \in Slots : Brings(j, s, n)' => j = k
      BY <1>1, <1>2, <1>3, <1>7 DEF FreshResult, Brings
    <3>1. made[s] < n /\ n <= made'[s] /\ n \in Nat /\ \E b \in stubs'[s] : b.id = n
      BY IdFacts
    <3>2. Find(s, n)' # {}
      BY <3>1 DEF Find
    <3>3. \A b \in Find(s, n)' : b \notin stubs[s] /\ b \in stubs'[s]
      BY <1>1, <1>5, <3>1 DEF Find
    <3>4. \A b \in Find(s, n)' : b.owned = c.managed
      BY <1>1, <3>3
    <3>5. \A p \in proxies'[c.from] : p.id # n
      BY <1>1, <1>5, <1>8, <3>1
    <3>6. \A j \in Slots \ {k} : ~Brings(j, s, n)'
      <4>1. \A j \in Slots \ {k} : Live(j) /\ calls[j].from = Peer(s) => calls[j].result # n
        BY <1>1, <1>5, <1>9, <3>1, PeerFacts
      <4>2. QED
        BY <1>3, <4>1 DEF Brings, Live
    <3>7. QED
      BY <3>2, <3>4, <3>5, <3>6
  <2>2. AloneDestroy(k)'
    BY <1>2, <1>3 DEF AloneDestroy
  <2>3. Served(k)'
    <3> SUFFICES ASSUME NEW r \in Sides, c.from = Peer(r), c.waits, c.op \in {"call", "query"}
                 PROVE  Find(r, c.id)' # {}
      BY <1>2, <1>3 DEF Served
    <3>1. Find(r, c.id) # {}
      BY <1>6 DEF Slot, Served
    <3>2. c.id \in Ids
      BY <3>1, TypeParts DEF Find
    <3>3. QED
      BY <1>5, <1>6, <1>7, <3>1, <3>2
  <2>4. Orderly(k)'
    <3>1. n <= made'[s] /\ c.id <= made'[s]
      <4>1. c.id \in Nat
        BY <1>1, IdFacts
      <4>2. c.id <= made'[s]
        BY <1>1, <1>5, <1>6, <4>1
      <4>3. n = NoId => n <= made'[s]
        BY <1>1, <1>5 DEF NoId
      <4>4. QED
        BY <4>2, <4>3
    <3>2. (~c.waits => gaveUp) /\ (c.op \in {"create", "query"} => c.managed)
      BY <1>6 DEF Slot, Orderly
    <3>3. QED
      BY <1>2, <1>3, <3>1, <3>2 DEF Orderly
  <2>5. QED
    BY <2>1, <2>2, <2>3, <2>4 DEF Slot
<1>11. NoClash({k})
  <2> SUFFICES ASSUME NEW r \in Sides, NEW j \in Slots \ {k}, Live(j), calls[j].op = "destroy",
                      calls[j].from = Peer(r)
               PROVE  /\ ~Brings(k, r, calls[j].id)'
                      /\ About(k, r, calls[j].id)' /\ calls'[k].op # "destroy" => ~calls'[k].waits
    BY DEF NoClash
  <2>1. calls[j].id # NoId /\ (About(k, r, calls[j].id) /\ c.op # "destroy" => ~c.waits)
    BY DEF IInv, Slot, AloneDestroy
  <2>2. Brings(k, r, calls[j].id)' => r = s /\ n = calls[j].id
    BY <1>2, <1>3, <1>7 DEF Brings
  <2>3. calls[j].id \in Nat /\ calls[j].id <= made[r]
    BY <1>9, PeerFacts
  <2>4. ~Brings(k, r, calls[j].id)'
    <3>1. n # NoId => made[s] < n
  OBVIOUS
    <3>2. QED
      BY <1>1, <1>5, <2>1, <2>2, <2>3, <3>1, IdFacts
  <2>5. About(k, r, calls[j].id)' => About(k, r, calls[j].id)
    BY <1>2, <1>3 DEF About
  <2>6. QED
    BY <1>2, <1>3, <2>1, <2>4, <2>5
<1>12. ResultsOwned'
  <2>1. ASSUME NEW r \in Sides, NEW b \in stubs'[r], b.owned, b \in stubs[r] => Owner(r, b.id)
        PROVE  Owner(r, b.id)'
    <3>1. CASE b \in stubs[r]
      <4>1. b \in Find(r, b.id) /\ Owner(r, b.id)
        BY <2>1, <3>1 DEF Find
      <4>2. \A p \in proxies[Peer(r)] : p.id = b.id => p.managed
        BY <2>1, <4>1 DEF IInv, ManagedOwned
      <4>3. \A p \in proxies[Peer(r)] : p.id = b.id => p \in proxies'[Peer(r)]
        BY <4>2, PeerFacts
      <4>4. \A j \in Slots : j = k => ~(calls[j].stage = "response") /\ calls[j].op # "destroy"
        OBVIOUS
      <4>5. QED
        BY <1>3, <4>1, <4>3, <4>4 DEF Owner
    <3>2. CASE b \notin stubs[r]
      <4>1. r = s /\ b.id = n
        BY <3>2
      <4>2. QED
        BY <1>1, <1>2, <1>3, <4>1 DEF Owner
    <3>3. QED
      BY <3>1, <3>2
  <2>2. QED
    BY <2>1, OwnersFound
<1>13. \A r \in Sides : proxies'[r] \ proxies[r] = {}
  OBVIOUS
<1>14. QED
  BY <1>3, <1>4, <1>10, <1>11, <1>12, <1>13, SlotStep

(* DestroyObject removes the stub; nobody refers to it any more.           *)
LEMMA DestroyIInv ==
  ASSUME IInv, NEW k \in Slots, Live(k), calls[k].stage = "request", calls[k].op = "destroy",
         stubs' = [stubs EXCEPT ![Peer(calls[k].from)] = @ \ Find(Peer(calls[k].from), calls[k].id)],
         Respond(k, NoId), UNCHANGED <<made, proxies, lost, gaveUp, closed>>, ~closed
  PROVE  IInv'
<1>0. PICK c \in Calls, s \in Sides : c = calls[k] /\ s = Peer(calls[k].from)
  BY TypeParts, LiveFacts, PeerFacts
<1> USE <1>0
<1> DEFINE n == c.id
           d == [c EXCEPT !.stage = "response", !.result = NoId]
<1>1. /\ c \in Calls /\ c.from \in Sides /\ c.id \in Ids \cup {NoId} /\ s \in Sides /\ Peer(s) = c.from
  BY TypeParts, LiveFacts, PeerFacts
<1>2. /\ d \in Calls /\ d # Free /\ d.op = "destroy" /\ d.from = c.from /\ d.id = c.id
      /\ d.managed = c.managed /\ d.waits = c.waits /\ d.stage = "response" /\ d.result = NoId
  BY <1>1 DEF Calls, Free
<1>3. calls'[k] = d /\ \A j \in Slots \ {k} : calls'[j] = calls[j]
  BY TypeParts DEF Respond, Put
<1>4. /\ n # NoId
      /\ \A p \in proxies[c.from] : p.id # n
      /\ \A j \in Slots : ~Brings(j, s, n)
      /\ \A j \in Slots : About(j, s, n) /\ calls[j].op # "destroy" => ~calls[j].waits
  BY <1>1 DEF IInv, Slot, AloneDestroy
<1>5. Orderly(k)
  BY DEF IInv, Slot
<1> HIDE DEF n, d
<1>6. /\ stubs' \in [Sides -> SUBSET Stubs]
      /\ stubs'[s] = stubs[s] \ Find(s, n) /\ \A r \in Sides \ {s} : stubs'[r] = stubs[r]
  BY <1>1, TypeParts DEF n
<1>7. TypeOK'
  <2>1. calls' \in [Slots -> Calls \cup {Free}]
    BY <1>2, TypeParts DEF Respond, Put, d
  <2>2. QED
    BY <1>6, <2>1, TypeParts DEF TypeOK
<1>8. /\ \A r \in Sides : \A x : ~(r = s /\ x = n) => Find(r, x)' = Find(r, x)
      /\ Find(s, n)' = {}
      /\ \A r \in Sides : stubs'[r] \subseteq stubs[r]
  BY <1>1, <1>6 DEF Find
<1>9. \A j \in Slots : \A r \in Sides : \A x \in Ids : Brings(j, r, x)' <=> Brings(j, r, x)
  <2>1. \A r \in Sides : \A x \in Ids : ~Brings(k, r, x)' /\ ~Brings(k, r, x)
    BY <1>2, <1>3, IdFacts DEF Brings
  <2>2. \A j \in Slots \ {k} : \A r \in Sides : \A x \in Ids : Brings(j, r, x)' <=> Brings(j, r, x)
    BY <1>3 DEF Brings, Live
  <2>3. QED
    BY <2>1, <2>2
<1>10. \A j \in Slots : /\ Live(j)' <=> Live(j)
                        /\ Live(j) => /\ calls'[j].op = calls[j].op /\ calls'[j].id = calls[j].id
                                      /\ calls'[j].from = calls[j].from /\ calls'[j].waits = calls[j].waits
                                      /\ calls'[j].managed = calls[j].managed
  BY <1>2, <1>3 DEF Live
<1>11. \A j \in Slots : \A r, x : About(j, r, x)' <=> About(j, r, x)
  BY <1>10 DEF About
<1>12. ProxyHasStub'
  <2>1. \A r \in Sides : \A p \in proxies[r] : ~(Peer(r) = s /\ p.id = n)
    BY <1>1, <1>4, PeerFacts
  <2>2. QED
    BY <1>7, <1>8, <2>1, PeerFacts DEF IInv, ProxyHasStub
<1>13. IdsMade' /\ OneStub' /\ OneProxy'
  BY <1>8 DEF IInv, IdsMade, OneStub, OneProxy
<1>14. ManagedOwned'
  BY <1>8 DEF IInv, ManagedOwned
<1>15. ASSUME NEW j \in Slots PROVE Slot(j)'
  <2>1. Slot(j)
    BY DEF IInv
  <2>2. FreshResult(j)'
    <3> SUFFICES ASSUME NEW r \in Sides, NEW x \in Ids, Brings(j, r, x)'
                 PROVE  /\ calls'[j].op # "destroy"
                        /\ Find(r, x)' # {}
                        /\ \A b \in Find(r, x)' : b.owned = calls'[j].managed
                        /\ \A p \in proxies[Peer(r)] : p.id # x
                        /\ \A y \in Slots : Brings(y, r, x)' => y = j
      BY DEF FreshResult
    <3>1. Brings(j, r, x) /\ Live(j)
      BY <1>9 DEF Brings
    <3>2. ~(r = s /\ x = n)
      BY <1>4, <3>1
    <3>3. Find(r, x)' = Find(r, x)
      BY <1>8, <3>2
    <3>4. QED
      BY <1>9, <1>10, <2>1, <3>1, <3>3 DEF Slot, FreshResult
  <2>3. AloneDestroy(j)'
    <3> SUFFICES ASSUME NEW r \in Sides, Live(j), calls[j].op = "destroy", calls[j].from = Peer(r)
                 PROVE  /\ calls[j].id # NoId
                        /\ \A p \in proxies[Peer(r)] : p.id # calls[j].id
                        /\ \A x \in Slots : ~Brings(x, r, calls[j].id)'
                        /\ \A x \in Slots : About(x, r, calls[j].id)' /\ calls'[x].op # "destroy"
                                              => ~calls'[x].waits
                        /\ calls'[j].stage = "response" => Find(r, calls[j].id)' = {}
      BY <1>10 DEF AloneDestroy
    <3>1. /\ calls[j].id # NoId
          /\ \A p \in proxies[Peer(r)] : p.id # calls[j].id
          /\ \A x \in Slots : ~Brings(x, r, calls[j].id)
          /\ \A x \in Slots : About(x, r, calls[j].id) /\ calls[x].op # "destroy" => ~calls[x].waits
          /\ calls[j].stage = "response" => Find(r, calls[j].id) = {}
      BY <2>1 DEF Slot, AloneDestroy
    <3>2. calls[j].id \in Ids
      BY <3>1, TypeParts, LiveFacts
    <3>3. \A x \in Slots : ~Brings(x, r, calls[j].id)'
      BY <1>9, <1>10, <3>1, <3>2
    <3>4. \A x \in Slots : About(x, r, calls[j].id)' /\ calls'[x].op # "destroy" => ~calls'[x].waits
      BY <1>10, <1>11, <3>1 DEF About
    <3>5. calls'[j].stage = "response" => Find(r, calls[j].id)' = {}
      <4>1. CASE j = k
        <5>1. r = s /\ calls[j].id = n
          BY <1>1, <4>1, PeerFacts DEF n
        <5>2. QED
          BY <1>8, <1>10, <5>1
      <4>2. CASE j # k
        <5>1. calls'[j] = calls[j]
          BY <1>3, <4>2
        <5>2. QED
          BY <1>8, <3>1, <5>1
      <4>3. QED
        BY <4>1, <4>2
    <3>6. QED
      BY <3>1, <3>3, <3>4, <3>5
  <2>4. Served(j)'
    <3> SUFFICES ASSUME NEW r \in Sides, Live(j), calls[j].from = Peer(r),
                        calls[j].waits, calls[j].op \in {"call", "query"}
                 PROVE  Find(r, calls[j].id)' # {}
      BY <1>10 DEF Served
    <3>1. ~(r = s /\ calls[j].id = n)
      BY <1>4 DEF About
    <3>2. QED
      BY <1>8, <1>10, <2>1, <3>1 DEF Slot, Served
  <2>5. Orderly(j)'
    <3>1. CASE j = k
      <4>1. NoId <= made[s] /\ n <= made[s] /\ (~c.waits => gaveUp)
        BY <1>1, <1>5, TypeParts, ObjectTableAssumption DEF NoId, Orderly, n
      <4>2. QED
        BY <1>2, <1>3, <3>1, <4>1 DEF Orderly, n
    <3>2. CASE j # k
      BY <1>3, <1>10, <2>1, <3>2 DEF Slot, Orderly
    <3>3. QED
      BY <3>1, <3>2
  <2>6. QED
    BY <2>2, <2>3, <2>4, <2>5 DEF Slot
<1>16. ClosedForCause'
  BY DEF ClosedForCause
<1>17. ResultsOwned'
  <2>1. \A r \in Sides : \A x : Owner(r, x) => Owner(r, x)'
    <3>1. \A j \in Slots : \A x : calls[j] # Free /\ calls[j].stage = "response" /\ calls[j].result = x
            => calls'[j] = calls[j]
      BY <1>3
    <3>2. \A j \in Slots : calls[j] # Free => calls'[j] # Free /\ calls'[j].from = calls[j].from
            /\ calls'[j].op = calls[j].op /\ calls'[j].id = calls[j].id
      BY <1>10 DEF Live
    <3>3. QED
      BY <3>1, <3>2 DEF Owner
  <2>2. QED
    BY <1>8, <2>1, OwnersFound
<1>18. QED
  BY <1>12, <1>13, <1>14, <1>15, <1>16, <1>17 DEF IInv

(* A request for the ObjectManager is executed.                            *)
LEMMA ServeManagerIInv ==
  ASSUME IInv, NEW k \in Slots, ServeManager(k)
  PROVE  IInv'
<1> DEFINE s == Peer(calls[k].from)
<1>1. /\ Live(k) /\ calls[k].stage = "request" /\ calls[k].op # "call" /\ ~closed
      /\ UNCHANGED <<proxies, lost, gaveUp, closed>>
  BY DEF ServeManager, Live
<1>2. /\ s \in Sides /\ calls[k].iface \in Interfaces
      /\ calls[k].op \in {"create", "query"} => calls[k].managed = TRUE
  BY <1>1, TypeParts, LiveFacts, PeerFacts DEF IInv, Slot, Orderly
<1>3. /\ proxies' \in [Sides -> SUBSET Proxies]
      /\ \A r \in Sides : proxies'[r] \subseteq proxies[r]
      /\ \A r \in Sides : \A p \in proxies[r] : p.managed => p \in proxies'[r]
  BY <1>1, TypeParts
<1>4. CASE /\ calls[k].op \in {"create", "query"}
           /\ AppendStub(s, calls[k].iface, TRUE) /\ Respond(k, made[s] + 1)
  <2>1. /\ Grown
        /\ made[s] + 1 \in Ids /\ made'[s] = made[s] + 1
        /\ \A r \in Sides : r # s => made'[r] = made[r] /\ stubs'[r] = stubs[r]
        /\ \E b \in stubs'[s] : b.id = made[s] + 1
        /\ \A b \in stubs'[s] \ stubs[s] : b.id = made[s] + 1 /\ b.owned = TRUE
    BY <1>2, <1>4, TypeParts, AppendGrown
  <2>2. made[s] < made[s] + 1 /\ made[s] + 1 <= made'[s]
    BY <1>2, <2>1, TypeParts, ObjectTableAssumption
  <2>3. \A r \in Sides : \A b \in stubs'[r] \ stubs[r] :
            r = s /\ b.id = made[s] + 1 /\ b.owned = calls[k].managed
    BY <1>2, <1>4, <2>1
  <2>4. QED
    BY <1>1, <1>3, <1>4, <2>1, <2>2, <2>3, Answer
<1>5. CASE calls[k].op \in {"create", "query"} /\ Respond(k, NoId) /\ UNCHANGED <<stubs, made>>
  <2>1. Grown /\ \A r \in Sides : stubs'[r] \ stubs[r] = {}
    BY <1>5, TypeParts, SameGrown
  <2>2. QED
    BY <1>1, <1>3, <1>5, <2>1, Answer
<1>6. CASE /\ calls[k].op = "destroy" /\ stubs' = [stubs EXCEPT ![s] = @ \ Find(s, calls[k].id)]
           /\ Respond(k, NoId) /\ UNCHANGED made
  BY <1>1, <1>6, DestroyIInv
<1>7. QED
  BY <1>4, <1>5, <1>6 DEF ServeManager

(* A method returns; a parameter that was not kept loses its proxy, which  *)
(* has no manager.                                                         *)
LEMMA MethodReturnsIInv ==
  ASSUME IInv, NEW k \in Slots, NEW keeps \in BOOLEAN, NEW returns \in BOOLEAN,
         MethodReturns(k, keeps, returns)
  PROVE  IInv'
<1> DEFINE s == Peer(calls[k].from)
<1>1. /\ Live(k) /\ calls[k].stage = "running" /\ ~closed
      /\ UNCHANGED <<lost, gaveUp, closed>>
  BY DEF MethodReturns, Live
<1>2. /\ s \in Sides /\ calls[k].iface \in Interfaces /\ calls[k].managed \in BOOLEAN
      /\ calls[k].op # "destroy"
  BY <1>1, TypeParts, LiveFacts, PeerFacts DEF IInv, Slot, Orderly
<1>3. /\ proxies' \in [Sides -> SUBSET Proxies]
      /\ \A r \in Sides : proxies'[r] \subseteq proxies[r]
      /\ \A r \in Sides : \A p \in proxies[r] : p.managed => p \in proxies'[r]
  <2>1. proxies' = IF keeps THEN proxies
                   ELSE [proxies EXCEPT ![s] = {p \in proxies[s] : p.managed \/ p.id # calls[k].clone}]
    BY DEF MethodReturns
  <2>2. proxies \in [Sides -> SUBSET Proxies]
    BY TypeParts
  <2>3. QED
    BY <1>2, <2>1, <2>2
<1>4. CASE returns
  <2>1. AppendStub(s, calls[k].iface, calls[k].managed) /\ Respond(k, made[s] + 1)
    BY <1>4 DEF MethodReturns
  <2>2. /\ Grown
        /\ made[s] + 1 \in Ids /\ made'[s] = made[s] + 1
        /\ \A r \in Sides : r # s => made'[r] = made[r] /\ stubs'[r] = stubs[r]
        /\ \E b \in stubs'[s] : b.id = made[s] + 1
        /\ \A b \in stubs'[s] \ stubs[s] : b.id = made[s] + 1 /\ b.owned = calls[k].managed
    BY <1>2, <2>1, TypeParts, AppendGrown
  <2>3. made[s] < made[s] + 1 /\ made[s] + 1 <= made'[s]
    BY <1>2, <2>2, TypeParts, ObjectTableAssumption
  <2>4. \A r \in Sides : \A b \in stubs'[r] \ stubs[r] :
            r = s /\ b.id = made[s] + 1 /\ b.owned = calls[k].managed
    BY <2>2
  <2>5. QED
    BY <1>1, <1>2, <1>3, <2>1, <2>2, <2>3, <2>4, Answer
<1>5. CASE ~returns
  <2>1. Respond(k, NoId) /\ UNCHANGED <<stubs, made>>
    BY <1>5 DEF MethodReturns
  <2>2. Grown /\ \A r \in Sides : stubs'[r] \ stubs[r] = {}
    BY <2>1, TypeParts, SameGrown
  <2>3. QED
    BY <1>1, <1>2, <1>3, <2>1, <2>2, Answer
<1>6. QED
  BY <1>4, <1>5

(* A request goes on, or its caller gives up: its object and its result    *)
(* stay the same.                                                          *)
LEMMA Progress ==
  ASSUME IInv, TypeOK', Grown, NEW k \in Slots, Live(k), NEW d \in Calls, d # Free,
         calls' = [calls EXCEPT ![k] = d],
         d.op = calls[k].op, d.from = calls[k].from, d.id = calls[k].id,
         d.managed = calls[k].managed, d.result = calls[k].result,
         d.waits => calls[k].waits, ~d.waits => gaveUp',
         d.stage = "response" <=> calls[k].stage = "response",
         d.stage \in {"cloning", "running"} => d.op = "call",
         proxies' # proxies => d.stage = "running",
         \A r \in Sides : proxies[r] \subseteq proxies'[r],
         \A r \in Sides : \A p \in proxies'[r] \ proxies[r] : NewProxy({k}, r, p),
         \A r \in Sides : \A p, q \in proxies'[r] \ proxies[r] : p = q,
         \A r \in Sides : \A b \in stubs'[r] \ stubs[r] : b.owned = FALSE,
         gaveUp => gaveUp', UNCHANGED <<lost, closed>>
  PROVE  IInv'
<1> DEFINE c == calls[k]
<1>1. /\ c.from \in Sides /\ c.id \in Ids \cup {NoId} /\ c.result \in Ids \cup {NoId}
      /\ c.waits \in BOOLEAN /\ d.waits \in BOOLEAN /\ Slot(k)
  BY TypeParts, LiveFacts DEF IInv, Calls
<1>2. calls'[k] = d /\ \A j \in Slots \ {k} : calls'[j] = calls[j]
  BY TypeParts
<1>3. /\ \A r \in Sides : \A x \in Ids : x <= made[r] => Find(r, x)' = Find(r, x)
      /\ \A r \in Sides : made[r] \in Nat /\ made'[r] \in Nat /\ made[r] <= made'[r]
  BY GrownFacts
<1>4. /\ c.result <= made[Peer(c.from)] /\ c.id <= made[Peer(c.from)]
      /\ c.op \in {"create", "query"} => c.managed
  BY <1>1 DEF Slot, Orderly
<1>5. \A r \in Sides : c.from = Peer(r) => c.result <= made[r] /\ c.id <= made[r]
  BY <1>1, <1>4, PeerFacts
<1>6. \A j \in Slots : \A r, x : Brings(j, r, x)' <=> Brings(j, r, x)
  BY <1>2 DEF Brings, Live
<1>7. \A j \in Slots : \A r, x : About(j, r, x)' <=> About(j, r, x)
  BY <1>2 DEF About, Live
<1>8. \A j \in Slots : Live(j) => calls'[j].op = calls[j].op /\ (calls'[j].waits => calls[j].waits)
  BY <1>2
<1>9. Slot(k)'
  <2>1. FreshResult(k)'
    <3> SUFFICES ASSUME NEW r \in Sides, NEW x \in Ids, Brings(k, r, x)
                 PROVE  /\ d.op # "destroy"
                        /\ Find(r, x)' # {}
                        /\ \A b \in Find(r, x)' : b.owned = d.managed
                        /\ \A p \in proxies'[Peer(r)] : p.id # x
                        /\ \A y \in Slots : Brings(y, r, x) => y = k
      BY <1>2, <1>6 DEF FreshResult
    <3>1. Find(r, x)' = Find(r, x)
      BY <1>3, <1>5 DEF Brings
    <3>2. proxies' = proxies
      BY DEF Brings
    <3>3. QED
      BY <1>1, <3>1, <3>2 DEF Slot, FreshResult
  <2>2. AloneDestroy(k)'
    <3> SUFFICES ASSUME NEW r \in Sides, c.op = "destroy", c.from = Peer(r)
                 PROVE  /\ c.id # NoId
                        /\ \A p \in proxies'[Peer(r)] : p.id # c.id
                        /\ \A j \in Slots : ~Brings(j, r, c.id)'
                        /\ \A j \in Slots : About(j, r, c.id)' /\ calls'[j].op # "destroy" => ~calls'[j].waits
                        /\ d.stage = "response" => Find(r, c.id)' = {}
      BY <1>2 DEF AloneDestroy
    <3>1. /\ c.id # NoId
          /\ \A p \in proxies[Peer(r)] : p.id # c.id
          /\ \A j \in Slots : ~Brings(j, r, c.id)
          /\ \A j \in Slots : About(j, r, c.id) /\ calls[j].op # "destroy" => ~calls[j].waits
          /\ c.stage = "response" => Find(r, c.id) = {}
      BY <1>1 DEF Slot, AloneDestroy
    <3>2. Find(r, c.id)' = Find(r, c.id) /\ proxies' = proxies
      BY <1>1, <1>3, <1>5, <3>1
    <3>3. \A j \in Slots : About(j, r, c.id)' /\ calls'[j].op # "destroy" => ~calls'[j].waits
      BY <1>7, <1>8, <3>1 DEF About
    <3>4. QED
      BY <1>6, <3>1, <3>2, <3>3
  <2>3. Served(k)'
    <3> SUFFICES ASSUME NEW r \in Sides, c.from = Peer(r), c.waits, c.op \in {"call", "query"}
                 PROVE  Find(r, c.id)' # {}
      BY <1>2 DEF Served
    <3>1. Find(r, c.id) # {}
      BY <1>1 DEF Slot, Served
    <3>2. c.id \in Ids
      BY <3>1, TypeParts DEF Find
    <3>3. QED
      BY <1>3, <1>5, <3>1, <3>2
  <2>4. Orderly(k)'
    <3>1. c.result <= made'[Peer(c.from)] /\ c.id <= made'[Peer(c.from)]
      <4>1. c.result \in Nat /\ c.id \in Nat /\ Peer(c.from) \in Sides
        BY <1>1, IdFacts, PeerFacts
      <4>2. QED
        BY <1>3, <1>4, <4>1
    <3>2. QED
      BY <1>2, <1>4, <3>1 DEF Orderly
  <2>5. QED
    BY <2>1, <2>2, <2>3, <2>4 DEF Slot
<1>10. NoClash({k})
  <2> SUFFICES ASSUME NEW r \in Sides, NEW j \in Slots \ {k}, Live(j), calls[j].op = "destroy",
                      calls[j].from = Peer(r)
               PROVE  /\ ~Brings(k, r, calls[j].id)'
                      /\ About(k, r, calls[j].id)' /\ calls'[k].op # "destroy" => ~calls'[k].waits
    BY DEF NoClash
  <2>1. ~Brings(k, r, calls[j].id) /\ (About(k, r, calls[j].id) /\ c.op # "destroy" => ~c.waits)
    BY DEF IInv, Slot, AloneDestroy
  <2>2. QED
    BY <1>2, <1>6, <1>7, <2>1
<1>11. ResultsOwned'
  <2>1. \A r \in Sides : \A x : Owner(r, x) => Owner(r, x)'
    <3>1. \A j \in Slots : calls[j] # Free => /\ calls'[j] # Free /\ calls'[j].from = calls[j].from
                                              /\ calls'[j].stage = "response" <=> calls[j].stage = "response"
                                              /\ calls'[j].result = calls[j].result
                                              /\ calls'[j].op = calls[j].op /\ calls'[j].id = calls[j].id
      BY <1>2
    <3>2. \A r \in Sides : proxies[Peer(r)] \subseteq proxies'[Peer(r)]
      BY PeerFacts
    <3>3. QED
      BY <3>1, <3>2 DEF Owner
  <2>2. QED
    BY <2>1, OwnersFound
<1>12. QED
  BY <1>2, <1>9, <1>10, <1>11, SlotStep

(* The connection is closed for a cause; the workers' requests are gone.   *)
LEMMA Close ==
  ASSUME IInv, closed' = TRUE, calls' = [j \in Slots |-> Free],
         UNCHANGED <<stubs, made, proxies, lost, gaveUp>>,
         gaveUp \/ \E s \in Sides : \E b \in stubs[s] : b.null
  PROVE  IInv'
<1>1. TypeOK'
  BY TypeParts DEF TypeOK
<1>2. \A j \in Slots : ~Live(j)'
  BY DEF Live
<1>3. \A j \in Slots : Slot(j)'
  BY <1>2 DEF Slot, FreshResult, AloneDestroy, Served, Orderly, Brings
<1>4. ProxyHasStub'
  BY <1>1 DEF IInv, ProxyHasStub, Find
<1>5. IdsMade' /\ OneStub' /\ OneProxy' /\ ManagedOwned'
  BY DEF IInv, IdsMade, OneStub, OneProxy, ManagedOwned, Find
<1>6. ClosedForCause' /\ ResultsOwned'
  BY DEF ClosedForCause, ResultsOwned
<1>7. QED
  BY <1>3, <1>4, <1>5, <1>6 DEF IInv

(* QueryInterface on a null stub ends the process.                         *)
LEMMA QueryNullIInv ==
  ASSUME IInv, NEW k \in Slots, QueryNull(k)
  PROVE  IInv'
<1>1. \E b \in Find(Peer(calls[k].from), calls[k].id) : b.null
  BY DEF QueryNull
<1>2. Peer(calls[k].from) \in Sides
  BY TypeParts, LiveFacts, PeerFacts DEF QueryNull, Live
<1>3. QED
  BY <1>1, <1>2, Close DEF QueryNull, Find

(* A call whose stub is missing or null closes the connection; a missing   *)
(* stub was destroyed, so the caller had given up.                         *)
LEMMA ServeCallIInv ==
  ASSUME IInv, NEW k \in Slots, ServeCall(k)
  PROVE  IInv'
<1> DEFINE c == calls[k]
           s == Peer(c.from)
<1>1. /\ Live(k) /\ c.stage = "request" /\ c.op = "call" /\ ~closed
      /\ UNCHANGED <<stubs, made, proxies, lost, gaveUp>>
  BY DEF ServeCall, Live
<1>2. c \in Calls /\ s \in Sides /\ c.from = Peer(s) /\ Slot(k)
  BY <1>1, TypeParts, LiveFacts, PeerFacts DEF IInv
<1>3. CASE \E b \in Find(s, c.id) : ~b.null
  <2> DEFINE d == [c EXCEPT !.stage = IF c.arg = NoId THEN "running" ELSE "cloning"]
  <2>1. calls' = [calls EXCEPT ![k] = d] /\ UNCHANGED closed
    BY <1>3 DEF ServeCall, Put
  <2>2. /\ d \in Calls /\ d # Free /\ d.op = c.op /\ d.from = c.from /\ d.id = c.id
        /\ d.managed = c.managed /\ d.result = c.result /\ d.waits = c.waits /\ c.waits \in BOOLEAN
        /\ d.stage \in {"running", "cloning"}
    BY <1>2 DEF Calls, Free
  <2>3. TypeOK'
    <3>1. calls' \in [Slots -> Calls \cup {Free}]
      BY <2>1, <2>2, TypeParts
    <3>2. QED
      BY <1>1, <2>1, <3>1, TypeParts DEF TypeOK
  <2>4. Grown /\ (\A r \in Sides : stubs'[r] \ stubs[r] = {}) /\ (\A r \in Sides : proxies'[r] \ proxies[r] = {})
    BY <1>1, TypeParts, SameGrown
  <2>5. ~c.waits => gaveUp
    BY <1>1, <1>2 DEF Slot, Orderly
  <2> HIDE DEF d
  <2>6. QED
    BY <1>1, <2>1, <2>2, <2>3, <2>4, <2>5, Progress
<1>4. CASE ~\E b \in Find(s, c.id) : ~b.null
  <2>1. closed' = TRUE /\ calls' = [j \in Slots |-> Free]
    BY <1>4 DEF ServeCall
  <2>2. Find(s, c.id) = {} => gaveUp
    BY <1>1, <1>2 DEF Slot, Served, Orderly
  <2>3. Find(s, c.id) # {} => \E b \in stubs[s] : b.null
    BY <1>4 DEF Find
  <2>4. QED
    BY <1>1, <1>2, <2>1, <2>2, <2>3, Close
<1>5. QED
  BY <1>3, <1>4

(* CloneReference: a new stub and its first proxy, which has no manager;   *)
(* or the call is answered with an exception.                              *)
LEMMA CloneReferenceIInv ==
  ASSUME IInv, NEW k \in Slots, CloneReference(k)
  PROVE  IInv'
<1>0. PICK c \in Calls, s \in Sides, n \in Nat : c = calls[k] /\ s = c.from /\ n = made[s] + 1
  <2>1. Live(k)
    BY DEF CloneReference, Live
  <2>2. calls[k] \in Calls /\ calls[k].from \in Sides
    BY <2>1, TypeParts, LiveFacts
  <2>3. made[calls[k].from] + 1 \in Nat
    BY <2>2, TypeParts, ObjectTableAssumption
  <2>4. QED
    BY <2>2, <2>3
<1> USE <1>0
<1>1. Live(k) /\ c.stage = "cloning" /\ ~closed /\ UNCHANGED <<lost, gaveUp, closed>>
  BY DEF CloneReference, Live
<1>2. /\ c \in Calls /\ s \in Sides /\ Peer(s) \in Sides /\ Peer(Peer(s)) = s /\ c.iface \in Interfaces
      /\ c.op = "call" /\ Slot(k) /\ (~c.waits => gaveUp) /\ c.waits \in BOOLEAN
  BY <1>1, TypeParts, LiveFacts, PeerFacts DEF IInv, Slot, Orderly
<1>3. CASE Respond(k, NoId) /\ UNCHANGED <<stubs, made, proxies>>
  <2>1. /\ Grown /\ \A r \in Sides : stubs'[r] \ stubs[r] = {}
        /\ proxies' \in [Sides -> SUBSET Proxies]
    BY <1>3, TypeParts, SameGrown
  <2>2. QED
    BY <1>1, <1>2, <1>3, <2>1, Answer
<1>4. CASE /\ AppendStub(s, c.iface, FALSE)
           /\ proxies' = [proxies EXCEPT ![Peer(s)] = @ \cup {[id |-> n, iface |-> c.iface, managed |-> FALSE]}]
           /\ Put(k, [c EXCEPT !.stage = "running", !.clone = n])
  <2> DEFINE new == [id |-> n, iface |-> c.iface, managed |-> FALSE]
             d == [c EXCEPT !.stage = "running", !.clone = n]
  <2>1. /\ Grown
        /\ n \in Ids /\ made'[s] = n
        /\ \A r \in Sides : r # s => made'[r] = made[r] /\ stubs'[r] = stubs[r]
        /\ \E b \in stubs'[s] : b.id = n
        /\ \A b \in stubs'[s] \ stubs[s] : b.id = n /\ b.owned = FALSE
    BY <1>2, <1>4, TypeParts, AppendGrown
  <2>2. new \in Proxies /\ new.id = n /\ new.managed = FALSE
    BY <1>2, <2>1 DEF Proxies
  <2>3. calls' = [calls EXCEPT ![k] = d]
    BY <1>4 DEF Put
  <2>4. /\ d \in Calls /\ d # Free /\ d.op = c.op /\ d.from = c.from /\ d.id = c.id
        /\ d.managed = c.managed /\ d.result = c.result /\ d.waits = c.waits
        /\ d.stage = "running"
    BY <1>2, <2>1 DEF Calls, Free
  <2> HIDE DEF new, d
  <2>5. /\ proxies' \in [Sides -> SUBSET Proxies]
        /\ proxies'[Peer(s)] = proxies[Peer(s)] \cup {new}
        /\ \A r \in Sides : r # Peer(s) => proxies'[r] = proxies[r]
    <3>1. proxies' = [proxies EXCEPT ![Peer(s)] = proxies[Peer(s)] \cup {new}]
      BY <1>4 DEF new
    <3>2. proxies \in [Sides -> SUBSET Proxies]
      BY TypeParts
    <3>3. QED
      BY <1>2, <2>2, <3>1, <3>2
  <2>6. TypeOK'
    <3>1. calls' \in [Slots -> Calls \cup {Free}]
      BY <2>3, <2>4, TypeParts
    <3>2. QED
      BY <1>1, <2>1, <2>5, <3>1, TypeParts DEF TypeOK, Grown
  <2>7. made[s] \in Nat /\ n \in Nat /\ made[s] < n
    BY <1>2, TypeParts, ObjectTableAssumption
  <2>8. NewProxy({k}, Peer(s), new)
    <3>1. n <= made'[s] /\ Find(s, n)' # {}
      BY <2>1, <2>7 DEF Find
    <3>2. \A b \in stubs[s] : b.id # n
      BY <1>2, <2>7, TypeParts, IdFacts DEF IInv, IdsMade
    <3>3. \A b \in Find(s, n)' : b.owned = FALSE
      BY <2>1, <3>2 DEF Find
    <3>4. \A q \in proxies[Peer(s)] : q.id # n
      BY <1>2, <2>7, TypeParts, IdFacts DEF IInv, IdsMade
    <3>5. \A j \in Slots : Live(j) /\ calls[j].from = Peer(s) => calls[j].result # n /\ calls[j].id # n
      <4>1. \A j \in Slots : Live(j) => /\ calls[j].result \in Nat /\ calls[j].id \in Nat
                                        /\ calls[j].result <= made[Peer(calls[j].from)]
                                        /\ calls[j].id <= made[Peer(calls[j].from)]
        BY TypeParts, LiveFacts, IdFacts DEF IInv, Slot, Orderly
      <4>2. QED
        BY <1>2, <2>7, <4>1
    <3>6. QED
      BY <1>2, <2>2, <3>1, <3>3, <3>4, <3>5 DEF NewProxy, Brings
  <2>9. /\ \A r \in Sides : proxies[r] \subseteq proxies'[r]
        /\ \A r \in Sides : \A p \in proxies'[r] \ proxies[r] : r = Peer(s) /\ p = new
        /\ \A r \in Sides : \A b \in stubs'[r] \ stubs[r] : b.owned = FALSE
    BY <2>1, <2>5
  <2>10. /\ \A r \in Sides : \A p \in proxies'[r] \ proxies[r] : NewProxy({k}, r, p)
         /\ \A r \in Sides : \A p, q \in proxies'[r] \ proxies[r] : p = q
    BY <2>8, <2>9
  <2>11. QED
    BY <1>1, <1>2, <2>1, <2>3, <2>4, <2>6, <2>9, <2>10, Progress
<1>5. QED
  BY <1>3, <1>4 DEF CloneReference

(* Send ends with the timeout.                                             *)
LEMMA GiveUpIInv ==
  ASSUME IInv, NEW k \in Slots, GiveUp(k)
  PROVE  IInv'
<1> DEFINE c == calls[k]
           d == [c EXCEPT !.waits = FALSE]
<1>1. Live(k) /\ c.waits /\ gaveUp' = TRUE /\ UNCHANGED <<stubs, made, proxies, lost, closed>>
  BY DEF GiveUp, Live
<1>2. c \in Calls /\ (c.stage \in {"cloning", "running"} => c.op = "call")
  BY <1>1, TypeParts, LiveFacts DEF IInv, Slot, Orderly
<1>3. calls' = [calls EXCEPT ![k] = d]
  BY TypeParts DEF GiveUp
<1>4. /\ d \in Calls /\ d # Free /\ d.op = c.op /\ d.from = c.from /\ d.id = c.id
      /\ d.managed = c.managed /\ d.result = c.result /\ d.waits = FALSE /\ d.stage = c.stage
  BY <1>2 DEF Calls, Free
<1> HIDE DEF d
<1>5. TypeOK'
  <2>1. calls' \in [Slots -> Calls \cup {Free}]
    BY <1>3, <1>4, TypeParts
  <2>2. QED
    BY <1>1, <2>1, TypeParts DEF TypeOK
<1>6. Grown /\ (\A r \in Sides : stubs'[r] \ stubs[r] = {}) /\ (\A r \in Sides : proxies'[r] \ proxies[r] = {})
  BY <1>1, TypeParts, SameGrown
<1>7. QED
  BY <1>1, <1>2, <1>3, <1>4, <1>5, <1>6, Progress

-----------------------------------------------------------------------------
(* Responses that are read or thrown away.                                 *)

(* The slot of a response is free again; its identifier has gone to a      *)
(* proxy or is lost.                                                       *)
LEMMA Taken ==
  ASSUME IInv, TypeOK', NEW k \in Slots, Live(k), calls[k].stage = "response",
         calls' = [calls EXCEPT ![k] = Free],
         NEW s \in Sides, s = Peer(calls[k].from),
         \A r \in Sides : proxies[r] \subseteq proxies'[r] /\ lost[r] \subseteq lost'[r],
         \A r \in Sides : \A p \in proxies'[r] \ proxies[r] : NewProxy({k}, r, p),
         \A r \in Sides : \A p, q \in proxies'[r] \ proxies[r] : p = q,
         calls[k].result # NoId =>
            calls[k].result \in lost'[s] \/ \E p \in proxies'[Peer(s)] : p.id = calls[k].result,
         UNCHANGED <<stubs, made, gaveUp, closed>>
  PROVE  IInv'
<1>1. ~Live(k)' /\ \A j \in Slots \ {k} : calls'[j] = calls[j]
  BY TypeParts DEF Live
<1>2. Grown
  BY TypeParts, SameGrown
<1>3. Slot(k)' /\ NoClash({k})
  <2>1. Slot(k)'
    BY <1>1 DEF Slot, FreshResult, AloneDestroy, Served, Orderly, Brings
  <2>2. NoClash({k})
    BY <1>1 DEF NoClash, Brings, About
  <2>3. QED
    BY <2>1, <2>2
<1>4. calls[k].from = Peer(s) /\ calls[k].from \in Sides /\ Slot(k)
  BY TypeParts, LiveFacts, PeerFacts DEF IInv
<1>5. ResultsOwned'
  <2>1. ASSUME NEW r \in Sides, NEW b \in stubs[r], Owner(r, b.id)
        PROVE  Owner(r, b.id)'
    <3>1. CASE b.id \in lost[r] \/ \E p \in proxies[Peer(r)] : p.id = b.id
      <4>1. b.id \in lost'[r] \/ \E p \in proxies'[Peer(r)] : p.id = b.id
        BY <3>1, PeerFacts
      <4>2. QED
        BY <4>1 DEF Owner
    <3>2. CASE \E j \in Slots : /\ calls[j] # Free /\ calls[j].from = Peer(r)
                                 /\ \/ calls[j].stage = "response" /\ calls[j].result = b.id
                                    \/ calls[j].op = "destroy" /\ calls[j].id = b.id
      <4>1. PICK j \in Slots : /\ calls[j] # Free /\ calls[j].from = Peer(r)
                               /\ \/ calls[j].stage = "response" /\ calls[j].result = b.id
                                  \/ calls[j].op = "destroy" /\ calls[j].id = b.id
        BY <3>2
      <4>2. CASE j # k
        <5>1. calls'[j] = calls[j]
          BY <1>1, <4>2
        <5>2. QED
          BY <4>1, <5>1 DEF Owner
      <4>3. CASE j = k
        <5>1. r = s
          BY <1>4, <4>1, <4>3, PeerFacts
        <5>2. b \in Find(s, b.id)
          BY <5>1 DEF Find
        <5>3. calls[k].result = b.id
          BY <1>4, <4>1, <4>3, <5>1, <5>2 DEF Slot, AloneDestroy
        <5>4. b.id \in Ids /\ b.id # NoId
          BY TypeParts, IdFacts
        <5>5. b.id \in lost'[r] \/ \E p \in proxies'[Peer(r)] : p.id = b.id
          BY <5>1, <5>3, <5>4
        <5>6. QED
          BY <5>5 DEF Owner
      <4>4. QED
        BY <4>2, <4>3
    <3>3. QED
      BY <2>1, <3>1, <3>2 DEF Owner
  <2>2. QED
    BY <2>1, OwnersFound
<1>6. QED
  BY <1>1, <1>2, <1>3, <1>5, SlotStep

(* The response is read: its identifier becomes the first proxy of its     *)
(* stub, with the manager the stub was made for.                           *)
LEMMA ReceiveIInv ==
  ASSUME IInv, NEW k \in Slots, Receive(k)
  PROVE  IInv'
<1>1. Live(k) /\ calls[k].stage = "response" /\ calls' = [calls EXCEPT ![k] = Free]
      /\ UNCHANGED <<stubs, made, lost, gaveUp, closed>>
  BY DEF Receive, Live, Put
<1>2. PICK c \in Calls, s \in Sides : c = calls[k] /\ s = Peer(calls[k].from)
  BY <1>1, TypeParts, LiveFacts, PeerFacts
<1> USE <1>2
<1>3. /\ c.from \in Sides /\ c.from = Peer(s) /\ c.iface \in Interfaces /\ c.managed \in BOOLEAN
      /\ c.result \in Ids \cup {NoId}
  BY <1>1, TypeParts, LiveFacts, PeerFacts
<1>4. calls' \in [Slots -> Calls \cup {Free}]
  BY <1>1, TypeParts
<1>5. CASE c.result = NoId
  <2>1. proxies' = proxies
    BY <1>5 DEF Receive
  <2>2. TypeOK'
    BY <1>1, <1>4, <2>1, TypeParts DEF TypeOK
  <2>3. \A r \in Sides : proxies'[r] \ proxies[r] = {}
    BY <2>1
  <2>4. QED
    BY <1>1, <1>5, <2>1, <2>2, <2>3, Taken
<1>6. CASE c.result # NoId
  <2> DEFINE new == [id |-> c.result, iface |-> c.iface, managed |-> c.managed]
  <2>1. c.result \in Ids
    BY <1>3, <1>6
  <2>2. new \in Proxies /\ new.id = c.result /\ new.managed = c.managed
    BY <1>3, <2>1 DEF Proxies
  <2>3. proxies' = [proxies EXCEPT ![c.from] = @ \cup {new}]
    BY <1>6 DEF Receive
  <2> HIDE DEF new
  <2>4. /\ proxies' \in [Sides -> SUBSET Proxies]
        /\ proxies'[c.from] = proxies[c.from] \cup {new}
        /\ \A r \in Sides : r # c.from => proxies'[r] = proxies[r]
    <3>1. proxies \in [Sides -> SUBSET Proxies]
      BY TypeParts
    <3>2. QED
      BY <1>3, <2>2, <2>3, <3>1
  <2>5. TypeOK'
    BY <1>1, <1>4, <2>4, TypeParts DEF TypeOK
  <2>6. NewProxy({k}, c.from, new)
    <3>1. Brings(k, s, c.result) /\ Slot(k) /\ Peer(c.from) = s
      BY <1>1, <1>3, PeerFacts DEF Brings, IInv
    <3>2. /\ Find(s, c.result) # {}
          /\ \A b \in Find(s, c.result) : b.owned = c.managed
          /\ \A q \in proxies[c.from] : q.id # c.result
          /\ \A j \in Slots : Brings(j, s, c.result) => j = k
      BY <1>3, <2>1, <3>1 DEF Slot, FreshResult
    <3>3. \A j \in Slots : Live(j) /\ calls[j].op = "destroy" /\ calls[j].from = c.from => calls[j].id # c.result
      BY <1>3, <3>1 DEF IInv, Slot, AloneDestroy
    <3>4. Find(s, c.result)' = Find(s, c.result)
      BY <1>1 DEF Find
    <3>5. c.result <= made'[s]
      BY <1>1, <3>1 DEF Slot, Orderly
    <3>6. QED
      BY <2>2, <3>1, <3>2, <3>3, <3>4, <3>5 DEF NewProxy
  <2>7. /\ \A r \in Sides : proxies[r] \subseteq proxies'[r] /\ lost[r] \subseteq lost'[r]
        /\ \A r \in Sides : \A p \in proxies'[r] \ proxies[r] : r = c.from /\ p = new
        /\ \E p \in proxies'[Peer(s)] : p.id = c.result
    BY <1>1, <1>3, <2>2, <2>4
  <2>8. /\ \A r \in Sides : \A p \in proxies'[r] \ proxies[r] : NewProxy({k}, r, p)
        /\ \A r \in Sides : \A p, q \in proxies'[r] \ proxies[r] : p = q
    BY <2>6, <2>7
  <2>9. \E p \in proxies'[Peer(s)] : p.id = calls[k].result
    BY <2>7
  <2>10. QED
    BY <1>1, <2>5, <2>7, <2>8, <2>9, Taken
<1>7. QED
  BY <1>5, <1>6

(* A response nobody waits for is thrown away; its stub is counted lost.   *)
LEMMA DiscardIInv ==
  ASSUME IInv, NEW k \in Slots, Discard(k)
  PROVE  IInv'
<1>1. /\ Live(k) /\ calls[k].stage = "response" /\ calls' = [calls EXCEPT ![k] = Free]
      /\ UNCHANGED <<stubs, made, proxies, gaveUp, closed>>
  BY DEF Discard, Live, Put
<1>2. PICK c \in Calls, s \in Sides : c = calls[k] /\ s = Peer(calls[k].from)
  BY <1>1, TypeParts, LiveFacts, PeerFacts
<1> USE <1>2
<1>3. c.result \in Ids \cup {NoId}
  BY <1>1, TypeParts, LiveFacts
<1>4. lost' = [lost EXCEPT ![s] = @ \cup ({c.result} \ {NoId})]
  BY DEF Discard
<1>5. /\ lost' \in [Sides -> SUBSET Ids] /\ lost'[s] = lost[s] \cup ({c.result} \ {NoId})
      /\ \A r \in Sides : lost[r] \subseteq lost'[r]
  <2>1. lost \in [Sides -> SUBSET Ids]
    BY TypeParts
  <2>2. QED
    BY <1>3, <1>4, <2>1
<1>6. TypeOK'
  <2>1. calls' \in [Slots -> Calls \cup {Free}]
    BY <1>1, TypeParts
  <2>2. QED
    BY <1>1, <1>5, <2>1, TypeParts DEF TypeOK
<1>7. \A r \in Sides : proxies'[r] \ proxies[r] = {}
  BY <1>1
<1>8. QED
  BY <1>1, <1>5, <1>6, <1>7, Taken

-----------------------------------------------------------------------------
(* The invariant and what follows from it.                                 *)

(* At the start both tables are empty and nothing is under way.            *)
LEMMA InitIInv == Init => IInv
<1> SUFFICES ASSUME Init PROVE IInv
  OBVIOUS
<1> USE DEF Init
<1>1. TypeOK
  <2>1. 0 \in 0..MaxIds
    BY ObjectTableAssumption
  <2>2. /\ stubs \in [Sides -> SUBSET Stubs] /\ made \in [Sides -> 0..MaxIds]
        /\ proxies \in [Sides -> SUBSET Proxies] /\ lost \in [Sides -> SUBSET Ids]
    BY <2>1
  <2>3. calls \in [Slots -> Calls \cup {Free}] /\ gaveUp \in BOOLEAN /\ closed \in BOOLEAN
    OBVIOUS
  <2>4. QED
    BY <2>2, <2>3 DEF TypeOK
<1>2. \A s \in Sides : stubs[s] = {} /\ proxies[s] = {} /\ proxies[Peer(s)] = {}
  BY PeerFacts
<1>3. \A k \in Slots : ~Live(k)
  BY DEF Live
<1>4. ProxyHasStub /\ IdsMade /\ OneStub /\ OneProxy
  BY <1>1, <1>2 DEF ProxyHasStub, IdsMade, OneStub, OneProxy
<1>5. ManagedOwned /\ ClosedForCause /\ ResultsOwned
  BY <1>2 DEF ManagedOwned, ClosedForCause, ResultsOwned
<1>6. \A k \in Slots : Slot(k)
  BY <1>3 DEF Slot, FreshResult, AloneDestroy, Served, Orderly, Brings
<1>7. QED
  BY <1>4, <1>5, <1>6 DEF IInv

(* Every step keeps the invariant.                                         *)
LEMMA NextIInv == IInv /\ [Next]_vars => IInv'
<1> SUFFICES ASSUME IInv, [Next]_vars PROVE IInv'
  OBVIOUS
<1>1. ASSUME NEW k \in Slots, NEW i \in Interfaces, Create(k, i)
      PROVE  IInv'
  BY <1>1, CreateIInv
<1>2. ASSUME NEW k \in Slots, NEW s \in Sides, NEW p \in proxies[s], NEW withArg \in BOOLEAN,
             Call(k, s, p, withArg)
      PROVE  IInv'
  BY <1>2, CallIInv
<1>3. ASSUME NEW k \in Slots, NEW s \in Sides, NEW p \in proxies[s], NEW i \in Interfaces,
             Query(k, s, p, i)
      PROVE  IInv'
  BY <1>3, QueryIInv
<1>4. ASSUME NEW k \in Slots, NEW s \in Sides, NEW p \in proxies[s], Release(k, s, p)
      PROVE  IInv'
  BY <1>4, ReleaseIInv
<1>5. ASSUME NEW k \in Slots,
             ServeManager(k) \/ QueryNull(k) \/ ServeCall(k) \/ CloneReference(k)
      PROVE  IInv'
  BY <1>5, ServeManagerIInv, QueryNullIInv, ServeCallIInv, CloneReferenceIInv
<1>6. ASSUME NEW k \in Slots, NEW keeps \in BOOLEAN, NEW returns \in BOOLEAN,
             MethodReturns(k, keeps, returns)
      PROVE  IInv'
  BY <1>6, MethodReturnsIInv
<1>7. ASSUME NEW k \in Slots, Receive(k) \/ GiveUp(k) \/ Discard(k)
      PROVE  IInv'
  BY <1>7, ReceiveIInv, GiveUpIInv, DiscardIInv
<1>8. CASE UNCHANGED vars
  <2>1. UNCHANGED <<stubs, made, proxies, calls, lost, gaveUp, closed>>
    BY <1>8 DEF vars
  <2>2. Grown /\ TypeOK' /\ \A r \in Sides : proxies'[r] \ proxies[r] = {}
    BY <2>1, TypeParts, SameGrown DEF TypeOK
  <2>3. ResultsOwned' /\ NoClash({})
    BY <2>1 DEF IInv, ResultsOwned, NoClash
  <2>4. QED
    BY <2>1, <2>2, <2>3, SlotStep
<1>9. QED
  BY <1>1, <1>2, <1>3, <1>4, <1>5, <1>6, <1>7, <1>8 DEF Next

(* The invariant holds in every state of every behaviour of the two ends   *)
(* of a connection (ObjectManager, Stub, Proxy, PSClient::ProcessData).    *)
THEOREM ObjectTableInvariant == Spec => []IInv
BY InitIInv, NextIInv, PTL DEF Spec

(* A live proxy has its stub at the other end: only the DestroyObject of   *)
(* its own ~Proxy removes the stub, and that is sent when no caller, no    *)
(* response and no other proxy has the identifier.                         *)
THEOREM ProxiesHaveStubs == Spec => []ProxyHasStub
<1>1. IInv => ProxyHasStub
  BY DEF IInv
<1>2. QED
  BY <1>1, ObjectTableInvariant, PTL

(* ProcessData closes the connection for an instance it cannot find only   *)
(* when a caller gave up its wait or an interface has no registered PS.    *)
THEOREM ConnectionClosedForCause == Spec => []ClosedForCause
<1>1. IInv => ClosedForCause
  BY DEF IInv
<1>2. QED
  BY <1>1, ObjectTableInvariant, PTL

(* A stub made for a proxy with a manager has an owner that will destroy   *)
(* it, or its identifier was in a response that CleanOldResponses threw    *)
(* away.                                                                   *)
THEOREM StubsOwned == Spec => []ResultsOwned
<1>1. IInv => ResultsOwned
  BY DEF IInv
<1>2. QED
  BY <1>1, ObjectTableInvariant, PTL

=============================================================================
