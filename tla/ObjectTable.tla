----------------------------- MODULE ObjectTable -----------------------------
(***************************************************************************)
(* The tables of objects of the two ends of an RPC connection: m_stubs of  *)
(* each PSClient, filled by its ObjectManager, and the proxies that refer  *)
(* to the stubs of the other end.                                          *)
(*                                                                         *)
(* A request is executed by a worker of the other end; workers run in      *)
(* parallel, so requests under way are taken in any order.  A caller waits *)
(* for its response or gives it up at the timeout; the request is then     *)
(* still executed.  How a caller sleeps and wakes is the matter of         *)
(* PSClient, who gets a worker that of RpcCallbacks.                       *)
(***************************************************************************)
EXTENDS Naturals, FiniteSets

CONSTANTS
  Slots,       \* requests that may be under way at once
  Interfaces,
  Known,       \* Known[s]: interfaces with a registered PS at that end
  MaxIds       \* bound: identifiers an ObjectManager generates

Sides == {"client", "server"}
Peer(s) == IF s = "client" THEN "server" ELSE "client"

ASSUME ObjectTableAssumption ==
  /\ Known \in [Sides -> SUBSET Interfaces]
  /\ MaxIds \in Nat

VARIABLES
  stubs,    \* stubs[s]: m_stubs without the ObjectManager's own "0"
  made,     \* made[s]: how many identifiers have been generated at s
  proxies,  \* proxies[s]: proxies at s, each for a stub of the other end
  calls,    \* calls[k]: the request in slot k and what became of it
  lost,     \* lost[s]: stubs whose identifier was in a response nobody read
  gaveUp,   \* some caller did not wait for its response
  closed    \* the connection is closed

vars == <<stubs, made, proxies, calls, lost, gaveUp, closed>>

NoId == 0     \* the empty identifier
Free == [op |-> "none"]

Ids == 1..MaxIds
Stubs == [id : Ids, iface : Interfaces, null : BOOLEAN, owned : BOOLEAN]
Proxies == [id : Ids, iface : Interfaces, managed : BOOLEAN]
Calls ==
  [op : {"create", "destroy", "query", "call"}, from : Sides, iface : Interfaces,
   id : Ids \cup {NoId},               \* instance the request is about
   arg : Ids \cup {NoId},              \* identifier of an interface parameter
   clone : Ids \cup {NoId},            \* proxy the stub made for it
   managed : BOOLEAN,                  \* the calling proxy has a manager
   result : Ids \cup {NoId},
   stage : {"request", "cloning", "running", "response"},
   waits : BOOLEAN]

TypeOK ==
  /\ stubs \in [Sides -> SUBSET Stubs]
  /\ made \in [Sides -> 0..MaxIds]
  /\ proxies \in [Sides -> SUBSET Proxies]
  /\ calls \in [Slots -> Calls \cup {Free}]
  /\ lost \in [Sides -> SUBSET Ids]
  /\ gaveUp \in BOOLEAN /\ closed \in BOOLEAN

(* PSClient::PSClient *)
Init ==
  /\ stubs = [s \in Sides |-> {}]
  /\ made = [s \in Sides |-> 0]
  /\ proxies = [s \in Sides |-> {}]
  /\ calls = [k \in Slots |-> Free]
  /\ lost = [s \in Sides |-> {}]
  /\ gaveUp = FALSE
  /\ closed = FALSE

-----------------------------------------------------------------------------
(* ObjectManager::AppendStub: a new identifier and a stub for it, which is   *)
(* null when no visited PS has the interface.  owned tells whether the proxy *)
(* made of the identifier will have a manager, and so destroy the stub.      *)
AppendStub(s, i, owned) ==
  /\ made[s] < MaxIds
  /\ made' = [made EXCEPT ![s] = @ + 1]
  /\ stubs' = [stubs EXCEPT ![s] = @ \cup
       {[id |-> made[s] + 1, iface |-> i, null |-> i \notin Known[s], owned |-> owned]}]

Find(s, id) == {b \in stubs[s] : b.id = id}

(* Proxy::RemoteCall and Send as far as the peer is concerned.               *)
Request(s, op, i, id, arg, managed) ==
  [op |-> op, from |-> s, iface |-> i, id |-> id, arg |-> arg, clone |-> NoId,
   managed |-> managed, result |-> NoId, stage |-> "request", waits |-> TRUE]

Put(k, c) == calls' = [calls EXCEPT ![k] = c]

Respond(k, id) == Put(k, [calls[k] EXCEPT !.stage = "response", !.result = id])

(* A caller has a reference to the proxy it calls.                           *)
InUse(s, p) == \E k \in Slots :
  calls[k] # Free /\ calls[k].waits /\ calls[k].from = s /\ calls[k].id = p.id

-----------------------------------------------------------------------------
(* PSClient::CreateRemoteService and Proxy::Proxy with a service id.          *)
Create(k, i) ==
  /\ ~closed /\ calls[k] = Free /\ i \in Known["client"]
  /\ Put(k, Request("client", "create", i, NoId, NoId, TRUE))
  /\ UNCHANGED <<stubs, made, proxies, lost, gaveUp, closed>>

(* Proxy::RemoteCall of a method, with or without an interface parameter,     *)
(* for which PrepareParam makes a stub before anything is sent.               *)
Call(k, s, p, withArg) ==
  /\ calls[k] = Free /\ p \in proxies[s]
  /\ IF withArg THEN AppendStub(s, p.iface, FALSE) ELSE UNCHANGED <<stubs, made>>
  /\ IF closed THEN UNCHANGED calls
     ELSE Put(k, Request(s, "call", p.iface, p.id, IF withArg THEN made[s] + 1 ELSE NoId, p.managed))
  /\ UNCHANGED <<proxies, lost, gaveUp, closed>>

(* Proxy::QueryRemoteInterface through CreateProxyVisitor.                    *)
Query(k, s, p, i) ==
  /\ ~closed /\ calls[k] = Free /\ p \in proxies[s] /\ p.managed /\ i \in Known[s]
  /\ Put(k, Request(s, "query", i, p.id, NoId, TRUE))
  /\ UNCHANGED <<stubs, made, proxies, lost, gaveUp, closed>>

(* Mutant of Release: ~Proxy tells the manager while another thread is       *)
(* still in a call through it.                                               *)
ReleaseInUse(k, s, p) ==
  /\ p \in proxies[s]
  /\ proxies' = [proxies EXCEPT ![s] = @ \ {p}]
  /\ IF p.managed /\ ~closed
       THEN calls[k] = Free /\ Put(k, Request(s, "destroy", p.iface, p.id, NoId, TRUE))
       ELSE UNCHANGED calls
  /\ UNCHANGED <<stubs, made, lost, gaveUp, closed>>

(* Mutant of Release: the proxy stays usable after ~Proxy.                   *)
ReleaseKept(k, s, p) ==
  /\ p \in proxies[s] /\ ~InUse(s, p)
  /\ IF p.managed /\ ~closed
       THEN calls[k] = Free /\ Put(k, Request(s, "destroy", p.iface, p.id, NoId, TRUE))
       ELSE UNCHANGED calls
  /\ UNCHANGED <<stubs, made, proxies, lost, gaveUp, closed>>

(* Proxy::~Proxy: the last reference is gone.  Without a manager, as for a    *)
(* parameter, or without a connection, nothing is destroyed.                 *)
Release(k, s, p) ==
  /\ p \in proxies[s] /\ ~InUse(s, p)
  /\ proxies' = [proxies EXCEPT ![s] = @ \ {p}]
  /\ IF p.managed /\ ~closed
       THEN calls[k] = Free /\ Put(k, Request(s, "destroy", p.iface, p.id, NoId, TRUE))
       ELSE UNCHANGED calls
  /\ UNCHANGED <<stubs, made, lost, gaveUp, closed>>

-----------------------------------------------------------------------------
(* ProcessData of a request for the ObjectManager.  CreateObject may fail in  *)
(* the factory, QueryInterface may find nothing; the response then has no     *)
(* identifier (an exception or an empty one).                                 *)
ServeManager(k) ==
  LET c == calls[k]  s == Peer(c.from) IN
  /\ ~closed /\ c # Free /\ c.stage = "request" /\ c.op # "call"
  /\ \/ /\ c.op = "create"
        /\ AppendStub(s, c.iface, TRUE)
        /\ Respond(k, made[s] + 1)
     \/ /\ c.op = "query"
        /\ \E b \in Find(s, c.id) : ~b.null
        /\ AppendStub(s, c.iface, TRUE)
        /\ Respond(k, made[s] + 1)
     \/ /\ c.op = "create" \/ (c.op = "query" /\ \A b \in Find(s, c.id) : ~b.null)
        /\ Respond(k, NoId)
        /\ UNCHANGED <<stubs, made>>
     \/ /\ c.op = "destroy"
        /\ stubs' = [stubs EXCEPT ![s] = @ \ Find(s, c.id)]
        /\ Respond(k, NoId)
        /\ UNCHANGED made
  /\ UNCHANGED <<proxies, lost, gaveUp, closed>>

(* QueryInterface calls through the null stub it finds; the process ends and *)
(* the connection with it.                                                   *)
QueryNull(k) ==
  LET c == calls[k] IN
  /\ ~closed /\ c # Free /\ c.stage = "request" /\ c.op = "query"
  /\ \E b \in Find(Peer(c.from), c.id) : b.null
  /\ closed' = TRUE
  /\ calls' = [j \in Slots |-> Free]
  /\ UNCHANGED <<stubs, made, proxies, lost, gaveUp>>

(* ProcessData of a call: no stub, or a null one, is an exception, for which  *)
(* ParallelHandler closes the connection.  Otherwise the parameters are       *)
(* prepared, which asks the caller's end for a clone of an interface.         *)
ServeCall(k) ==
  LET c == calls[k]  s == Peer(c.from) IN
  /\ ~closed /\ c # Free /\ c.stage = "request" /\ c.op = "call"
  /\ IF \E b \in Find(s, c.id) : ~b.null
       THEN /\ Put(k, [c EXCEPT !.stage = IF c.arg = NoId THEN "running" ELSE "cloning"])
            /\ UNCHANGED closed
       ELSE /\ closed' = TRUE
            /\ calls' = [j \in Slots |-> Free]
  /\ UNCHANGED <<stubs, made, proxies, lost, gaveUp>>

(* ObjectManager::CloneReference at the caller's end, and the proxy without   *)
(* a manager that Stub::PrepareParam makes of it.  Or it fails, and the call  *)
(* is answered with an exception.                                             *)
CloneReference(k) ==
  LET c == calls[k]  s == c.from IN
  /\ ~closed /\ c # Free /\ c.stage = "cloning"
  /\ \/ /\ \E b \in Find(s, c.arg) : ~b.null
        /\ AppendStub(s, c.iface, FALSE)
        /\ proxies' = [proxies EXCEPT ![Peer(s)] = @ \cup
              {[id |-> made[s] + 1, iface |-> c.iface, managed |-> FALSE]}]
        /\ Put(k, [c EXCEPT !.stage = "running", !.clone = made[s] + 1])
     \/ Respond(k, NoId) /\ UNCHANGED <<stubs, made, proxies>>
  /\ UNCHANGED <<lost, gaveUp, closed>>

(* The method returns.  The service may have kept the parameter; PackResult   *)
(* makes a stub for an interface it returns.                                  *)
MethodReturns(k, keeps, returns) ==
  LET c == calls[k]  s == Peer(c.from) IN
  /\ ~closed /\ c # Free /\ c.stage = "running"
  /\ proxies' = IF keeps THEN proxies
                ELSE [proxies EXCEPT ![s] = {p \in @ : p.managed \/ p.id # c.clone}]
  /\ IF returns
       THEN AppendStub(s, c.iface, c.managed) /\ Respond(k, made[s] + 1)
       ELSE UNCHANGED <<stubs, made>> /\ Respond(k, NoId)
  /\ UNCHANGED <<lost, gaveUp, closed>>

-----------------------------------------------------------------------------
(* Mutant of Receive: the identifier of the result is not made a proxy.       *)
ReceiveNothing(k) ==
  LET c == calls[k] IN
  /\ c # Free /\ c.stage = "response" /\ c.waits
  /\ Put(k, Free)
  /\ UNCHANGED <<stubs, made, proxies, lost, gaveUp, closed>>

(* The response: ExtractResult, CreateObject or QueryInterface make a proxy   *)
(* of an identifier, with the manager of the proxy that was called.           *)
Receive(k) ==
  LET c == calls[k] IN
  /\ c # Free /\ c.stage = "response" /\ c.waits
  /\ Put(k, Free)
  /\ proxies' = IF c.result = NoId THEN proxies
                ELSE [proxies EXCEPT ![c.from] = @ \cup
                        {[id |-> c.result, iface |-> c.iface, managed |-> c.managed]}]
  /\ UNCHANGED <<stubs, made, lost, gaveUp, closed>>

(* Send ends with the timeout.                                                *)
GiveUp(k) ==
  /\ calls[k] # Free /\ calls[k].waits
  /\ calls' = [calls EXCEPT ![k].waits = FALSE]
  /\ gaveUp' = TRUE
  /\ UNCHANGED <<stubs, made, proxies, lost, closed>>

(* CleanOldResponses discards a response nobody waits for.                    *)
Discard(k) ==
  LET c == calls[k] IN
  /\ c # Free /\ c.stage = "response" /\ ~c.waits
  /\ Put(k, Free)
  /\ lost' = [lost EXCEPT ![Peer(c.from)] = @ \cup ({c.result} \ {NoId})]
  /\ UNCHANGED <<stubs, made, proxies, gaveUp, closed>>

Next ==
  \/ \E k \in Slots :
       \/ \E i \in Interfaces : Create(k, i)
       \/ \E s \in Sides : \E p \in proxies[s] :
            \/ \E withArg \in BOOLEAN : Call(k, s, p, withArg)
            \/ \E i \in Interfaces : Query(k, s, p, i)
            \/ Release(k, s, p)
       \/ ServeManager(k)
       \/ QueryNull(k)
       \/ ServeCall(k)
       \/ CloneReference(k)
       \/ \E keeps, returns \in BOOLEAN : MethodReturns(k, keeps, returns)
       \/ Receive(k)
       \/ GiveUp(k)
       \/ Discard(k)

Spec == Init /\ [][Next]_vars

-----------------------------------------------------------------------------
(* A proxy that is alive refers to a stub of the other end: calls and         *)
(* destruction on parallel workers, clones and results never leave a proxy   *)
(* without its object; and the state has its types.                           *)
ProxyHasStub ==
  TypeOK /\ \A s \in Sides : \A p \in proxies[s] : Find(Peer(s), p.id) # {}

(* ProcessData does not close the connection for an instance it cannot find   *)
(* unless a caller gave up: a request that is still under way when its proxy  *)
(* is released, or the use of an interface the other end has not registered.  *)
ClosedForCause ==
  closed => \/ gaveUp
            \/ \E s \in Sides : \E b \in stubs[s] : b.null

(* A stub whose identifier goes to a proxy with a manager belongs to somebody *)
(* until it is destroyed: that proxy, or the response or the DestroyObject    *)
(* under way, unless the response was lost.  The others, for parameters and   *)
(* for results of calls through them, have no such owner and stay.            *)
ResultsOwned ==
  closed \/ \A s \in Sides : \A b \in stubs[s] :
    b.owned =>
      \/ b.id \in lost[s]
      \/ \E p \in proxies[Peer(s)] : p.id = b.id
      \/ \E k \in Slots : /\ calls[k] # Free /\ calls[k].from = Peer(s)
                          /\ \/ calls[k].stage = "response" /\ calls[k].result = b.id
                             \/ calls[k].op = "destroy" /\ calls[k].id = b.id
=============================================================================
