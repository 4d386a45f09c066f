---------------------------- MODULE HttpRpcProofs ---------------------------
(***************************************************************************)
(* RPC over HTTP keeps its replies, its sessions and its sockets apart,    *)
(* for any number of clients, messages, workers, sessions and faults.      *)
(*                                                                         *)
(* The invariant says what a worker of the Servlet knows at each point of  *)
(* OnRequest: the session it uses exists, the places of this thread in the *)
(* maps of the session hold nothing that another request left, and what it *)
(* is about to send was made for its own request.                          *)
(***************************************************************************)
EXTENDS HttpRpc, TLAPS

Messages == {<<>>} \cup {<<r>> : r \in Requests} \cup (Requests \X Nat)

Objects == [close : BOOLEAN, stamp : Nat,
            responses : [Workers -> Messages], exceptions : [Workers -> Messages]]

Places == {"idle", "find", "make", "insert", "data", "running", "answer", "failed"}

Tasks == [at : Places, req : {<<>>} \cup {<<r>> : r \in Requests}, id : Ids \cup {NoId}, data : BOOLEAN,
          obj : Nat, count : Nat, result : Messages]

Replies == [header : BOOLEAN, data : Messages]

(* The state of the servlet.                                               *)
ServletTypes ==
    /\ now \in Nat
    /\ objects \in Seq(Objects)
    /\ table \in [Ids -> Nat]
    /\ worker \in [Workers -> Tasks]
    /\ replies \in [Requests -> {<<>>} \cup {<<a>> : a \in Replies}]

(* A session in the table was made.                                        *)
TableMade == \A i \in Ids : table[i] <= Len(objects)

(* What worker w knows of its session and of its thread's places in it.    *)
Own(w) ==
    /\ worker[w].at # "idle" => worker[w].req # <<>>
    /\ worker[w].at \in {"make", "insert", "data", "running", "answer"} => worker[w].id \in Ids
    /\ worker[w].at \in {"insert", "data", "running", "answer"} => worker[w].obj \in 1..Len(objects)
    /\ worker[w].at \in {"find", "make", "insert", "data", "running"} => worker[w].result = <<>>
    /\ worker[w].at \in {"find", "make", "insert", "data"} => worker[w].count = 0
    /\ worker[w].at = "running" =>
           /\ objects[worker[w].obj].exceptions[w] = <<>>
           /\ objects[worker[w].obj].responses[w] =
                  IF worker[w].count = 0 THEN <<>> ELSE <<worker[w].req[1], 1>>
    /\ worker[w].at = "answer" =>
           /\ worker[w].result \in {<<>>, <<worker[w].req[1], 1>>}
           /\ objects[worker[w].obj].exceptions[w] \in {<<>>, worker[w].req}
    /\ worker[w].at = "failed" => worker[w].result \in {<<>>, worker[w].req}

(* A reply is about its own request, and one with the session id carries   *)
(* what was published first.                                               *)
RepliesTrue ==
    \A r \in Requests : replies[r] # <<>> =>
        /\ replies[r][1].data \in {<<>>, <<r, 1>>, <<r, 0>>}
        /\ replies[r][1].header => replies[r][1].data \in {<<>>, <<r, 1>>}

ServletInv ==
    /\ ServletTypes
    /\ TableMade
    /\ \A w \in Workers : Own(w)
    /\ SharedSession
    /\ RepliesTrue

States == {"made", "connecting", "open", "down"}

SocketSet == [connection : Nat, state : States, closed : BOOLEAN, connect : SUBSET Calls,
              sent : Seq(Calls), bad : SUBSET Calls]

(* A socket that offers itself for use is being opened or waits for its    *)
(* first response.                                                         *)
InUse(x) ==
    /\ x \in SocketSet
    /\ x.closed \/ x.state \in {"made", "connecting"} \/ (x.state = "open" /\ x.sent # <<>>)

CallPlaces == {"idle", "test", "make", "run", "post", "out"}

(* The sockets of the clients, and what the clients were given.            *)
UsedSockets(so) == so \in Seq(SocketSet) /\ \A s \in 1..Len(so) : InUse(so[s])

SocketInv ==
    /\ UsedSockets(sockets)
    /\ connections \in Seq(Nat)
    /\ session \in [Clients -> [up : BOOLEAN, connection : Nat]]
    /\ call \in [Calls -> [at : CallPlaces, connection : Nat]]

ReceivedInv ==
    /\ received \in [Calls -> Messages]
    /\ \A r \in Calls : received[r] \in {<<>>, <<r, 1>>}

IInv == ServletInv /\ SocketInv /\ ReceivedInv

-----------------------------------------------------------------------------
(* What a step of worker w leaves alone: the other workers, and the places *)
(* of their threads in the sessions.                                       *)
StepOf(w) ==
    /\ worker' \in [Workers -> Tasks]
    /\ \A v \in Workers : v # w => worker'[v] = worker[v]
    /\ objects' \in Seq(Objects) /\ Len(objects) <= Len(objects')
    /\ \A v \in Workers : v # w =>
           \A p \in 1..Len(objects) : /\ objects'[p].responses[v] = objects[p].responses[v]
                                      /\ objects'[p].exceptions[v] = objects[p].exceptions[v]

(* What the table may lose in a step: sessions that are noted as erased.   *)
TableStep ==
    /\ table' \in [Ids -> Nat]
    /\ \A i \in Ids : table'[i] <= Len(objects')
    /\ \A i \in Ids : table'[i] = table[i] \/ table[i] = 0 \/ table[i] \in erased'
    /\ erased \subseteq erased'

(* What SharedSession says of one worker.                                  *)
Shares(w) ==
    worker[w].at \in {"data", "running", "answer"} =>
        worker[w].obj = table[worker[w].id] \/ worker[w].obj \in erased

(* The facts about the other workers outlast a step of one.                *)
LEMMA OthersKept ==
  ASSUME ServletInv, NEW w \in Workers, StepOf(w)
  PROVE  \A v \in Workers : v # w => Own(v)'
<1> TAKE v \in Workers
<1> HAVE v # w
<1>1. Own(v) /\ worker'[v] = worker[v] /\ Len(objects) \in Nat /\ Len(objects') \in Nat
    BY DEF ServletInv, ServletTypes, StepOf
<1>2. worker[v].obj \in 1..Len(objects) => worker[v].obj \in 1..Len(objects')
    BY <1>1 DEF StepOf
<1>3. worker[v].obj \in 1..Len(objects) =>
          /\ objects'[worker[v].obj].responses[v] = objects[worker[v].obj].responses[v]
          /\ objects'[worker[v].obj].exceptions[v] = objects[worker[v].obj].exceptions[v]
    BY DEF StepOf
<1>4. QED
    BY <1>1, <1>2, <1>3 DEF Own

(* The session of another worker is still the shared one, or an erased one.*)
LEMMA SharedKept ==
  ASSUME ServletInv, NEW w \in Workers, StepOf(w), TableStep, Shares(w)'
  PROVE  SharedSession'
<1> SUFFICES ASSUME NEW v \in Workers, v # w
             PROVE  Shares(v)'
    BY DEF SharedSession, Shares
<1>1. Shares(v) /\ Own(v) /\ worker'[v] = worker[v] /\ Len(objects) \in Nat
    BY DEF ServletInv, ServletTypes, SharedSession, Shares, StepOf
<1>2. worker[v].at \in {"data", "running", "answer"} => worker[v].id \in Ids /\ worker[v].obj # 0
    BY <1>1 DEF Own
<1>3. QED
    BY <1>1, <1>2 DEF Shares, TableStep

(* A step of a worker keeps the invariant when it does for this worker.    *)
LEMMA WorkerKept ==
  ASSUME ServletInv, NEW w \in Workers, StepOf(w), TableStep, now' = now,
         Own(w)', Shares(w)',
         replies' \in [Requests -> {<<>>} \cup {<<a>> : a \in Replies}], RepliesTrue'
  PROVE  ServletInv'
<1>1. ServletTypes'
    BY DEF ServletInv, ServletTypes, StepOf, TableStep
<1>2. TableMade'
    BY DEF TableMade, TableStep
<1>3. QED
    BY <1>1, <1>2, OthersKept, SharedKept DEF ServletInv

(* Nothing but the worker's own record changes in the steps that end here. *)
LEMMA WorkerChange ==
  ASSUME ServletInv, NEW w \in Workers, NEW k \in Tasks,
         worker' = [worker EXCEPT ![w] = k], objects' = objects
  PROVE  StepOf(w) /\ worker'[w] = k
<1>1. worker \in [Workers -> Tasks] /\ objects \in Seq(Objects) /\ Len(objects) \in Nat
    BY DEF ServletInv, ServletTypes
<1>2. QED
    BY <1>1 DEF StepOf

(* A step that leaves the table alone.                                     *)
LEMMA TableSame ==
  ASSUME ServletInv, UNCHANGED <<table, erased>>, Len(objects') \in Nat, Len(objects) <= Len(objects')
  PROVE  TableStep
<1>1. Len(objects) \in Nat /\ table \in [Ids -> Nat] /\ \A i \in Ids : table[i] <= Len(objects)
    BY DEF ServletInv, ServletTypes, TableMade
<1>2. QED
    BY <1>1 DEF TableStep

-----------------------------------------------------------------------------
(* What the invariant gives of the worker that takes a step.               *)
LEMMA OwnFacts ==
  ASSUME ServletInv, NEW w \in Workers
  PROVE  /\ worker[w] \in Tasks /\ worker \in [Workers -> Tasks]
         /\ worker[w].req # <<>> => worker[w].req[1] \in Requests /\ worker[w].req = <<worker[w].req[1]>>
         /\ Own(w) /\ Shares(w)
         /\ objects \in Seq(Objects) /\ Len(objects) \in Nat
         /\ \A p \in 1..Len(objects) : objects[p] \in Objects
<1>1. worker[w] \in Tasks /\ worker \in [Workers -> Tasks] /\ objects \in Seq(Objects)
    BY DEF ServletInv, ServletTypes
<1>2. worker[w].req \in {<<>>} \cup {<<r>> : r \in Requests}
    BY <1>1 DEF Tasks
<1>3. ASSUME worker[w].req # <<>>
      PROVE  worker[w].req[1] \in Requests /\ worker[w].req = <<worker[w].req[1]>>
    <2>1. PICK r \in Requests : worker[w].req = <<r>>
        BY <1>2, <1>3
    <2>2. QED
        BY <2>1
<1>4. QED
    BY <1>1, <1>3 DEF ServletInv, SharedSession, Shares

(* The steps of a worker that only change its own record: a new request,   *)
(* the session that is found or not, the request that is refused.          *)
LEMMA RecordKept ==
  ASSUME ServletInv, NEW w \in Workers, NEW k \in Tasks,
         worker' = [worker EXCEPT ![w] = k],
         UNCHANGED <<now, objects, table, erased, replies>>,
         Own(w)', Shares(w)'
  PROVE  ServletInv'
<1>1. StepOf(w) /\ Len(objects) \in Nat
    BY WorkerChange, OwnFacts
<1>2. TableStep
    BY <1>1, TableSame
<1>3. replies' \in [Requests -> {<<>>} \cup {<<a>> : a \in Replies}] /\ RepliesTrue'
    BY DEF ServletInv, ServletTypes, RepliesTrue
<1>4. QED
    BY <1>1, <1>2, <1>3, WorkerKept

(* x is task k, gone to another place with session o.                      *)
Goes(k, x, at, o) ==
    /\ x \in Tasks
    /\ x.at = at /\ x.obj = o
    /\ x.req = k.req /\ x.id = k.id /\ x.count = k.count /\ x.result = k.result

(* A worker goes to another place with the session it has.                *)
LEMMA TaskGoes ==
  ASSUME NEW k \in Tasks, NEW at \in Places
  PROVE  Goes(k, [k EXCEPT !.at = at], at, k.obj)
BY DEF Tasks, Goes

(* The same, with another session.                                         *)
LEMMA TaskTakes ==
  ASSUME NEW k \in Tasks, NEW at \in Places, NEW o \in Nat
  PROVE  Goes(k, [k EXCEPT !.at = at, !.obj = o], at, o)
BY DEF Tasks, Goes

(* A worker takes a request up with a clean record (Servlet::OnRequest).   *)
LEMMA OnRequestKept ==
  ASSUME ServletInv, NEW w \in Workers, NEW r \in Requests, NEW id \in Ids \cup {NoId}, NEW data \in BOOLEAN,
         OnRequest(w, r, id, data)
  PROVE  ServletInv'
<1> DEFINE k == [Idle EXCEPT !.at = "find", !.req = <<r>>, !.id = id, !.data = data]
<1>1. worker' = [worker EXCEPT ![w] = k] /\ UNCHANGED <<now, objects, table, erased, replies>>
    BY DEF OnRequest
<1>2. <<>> \in Messages /\ <<r>> \in {<<>>} \cup {<<x>> : x \in Requests} /\ <<r>> # <<>>
    BY DEF Messages
<1>3. k \in Tasks
    BY <1>2 DEF Idle, Tasks, Places
<1>4. k.at = "find" /\ k.req = <<r>> /\ k.result = <<>> /\ k.count = 0
    BY DEF Idle
<1> HIDE DEF k
<1>5. worker'[w] = k
    BY <1>1, <1>3, WorkerChange
<1>6. Own(w)' /\ Shares(w)'
    BY <1>2, <1>4, <1>5 DEF Own, Shares
<1>7. QED
    BY <1>1, <1>3, <1>6, RecordKept

(* A worker that goes to its error path has no message of an exception.    *)
LEMMA GotoFailed ==
  ASSUME ServletInv, NEW w \in Workers, worker[w].req # <<>>, worker[w].result = <<>>,
         Goto(w, "failed"), UNCHANGED <<now, objects, table, erased, replies>>
  PROVE  ServletInv'
<1> DEFINE k == [worker[w] EXCEPT !.at = "failed"]
<1>1. worker' = [worker EXCEPT ![w] = k]
    BY DEF Goto
<1>2. Goes(worker[w], k, "failed", worker[w].obj)
    <2>1. worker[w] \in Tasks /\ "failed" \in Places
        BY OwnFacts DEF Places
    <2>2. QED
        BY <2>1, TaskGoes
<1> HIDE DEF k
<1>3. worker'[w] = k /\ k \in Tasks
    BY <1>1, <1>2, WorkerChange DEF Goes
<1>4. Own(w)' /\ Shares(w)'
    BY <1>2, <1>3 DEF Own, Shares, Goes
<1>5. QED
    BY <1>1, <1>3, <1>4, RecordKept

(* What holds of a worker before OnData of the session.                    *)
Before(w, at) ==
    /\ worker[w].at = at /\ worker[w] \in Tasks
    /\ worker[w].req # <<>> /\ worker[w].result = <<>> /\ worker[w].count = 0

(* The session that is looked up was made and is the one of the table.     *)
LEMMA FindKept ==
  ASSUME ServletInv, NEW w \in Workers, FindSession(w)
  PROVE  ServletInv'
<1>1. Before(w, "find") /\ worker[w].id \in Ids \cup {NoId}
    BY OwnFacts DEF FindSession, Own, Tasks, Before
<1>2. UNCHANGED <<now, objects, table, erased, replies>>
    BY DEF FindSession
<1>3. CASE worker[w].id = NoId
    BY <1>1, <1>2, <1>3, GotoFailed DEF FindSession, Before
<1>4. CASE worker[w].id # NoId /\ table[worker[w].id] = 0
    <2> DEFINE k == [worker[w] EXCEPT !.at = "make"]
    <2>1. worker' = [worker EXCEPT ![w] = k]
        BY <1>4 DEF FindSession, Goto
    <2>2. Goes(worker[w], k, "make", worker[w].obj)
        <3>1. worker[w] \in Tasks /\ "make" \in Places
            BY <1>1 DEF Places, Before
        <3>2. QED
            BY <3>1, TaskGoes
    <2> HIDE DEF k
    <2>3. worker'[w] = k /\ k \in Tasks
        BY <1>2, <2>1, <2>2, WorkerChange DEF Goes
    <2>4. Own(w)' /\ Shares(w)'
        BY <1>1, <1>4, <2>2, <2>3 DEF Own, Shares, Goes, Before
    <2>5. QED
        BY <1>2, <2>1, <2>3, <2>4, RecordKept
<1>5. CASE worker[w].id # NoId /\ table[worker[w].id] # 0
    <2> DEFINE o == table[worker[w].id]
               k == [worker[w] EXCEPT !.at = "data", !.obj = o]
    <2>1. worker' = [worker EXCEPT ![w] = k]
        BY <1>5 DEF FindSession
    <2>2. o \in 1..Len(objects) /\ o \in Nat
        BY <1>1, <1>5, OwnFacts DEF ServletInv, ServletTypes, TableMade
    <2>3. Goes(worker[w], k, "data", o)
        <3>1. worker[w] \in Tasks /\ "data" \in Places
            BY <1>1 DEF Places, Before
        <3> HIDE DEF o
        <3>2. QED
            BY <2>2, <3>1, TaskTakes
    <2> HIDE DEF k
    <2>4. worker'[w] = k /\ k \in Tasks
        BY <1>2, <2>1, <2>3, WorkerChange DEF Goes
    <2>5. Own(w)'
        BY <1>1, <1>2, <1>5, <2>2, <2>3, <2>4 DEF Own, Goes, Before
    <2>6. Shares(w)'
        BY <1>2, <2>3, <2>4 DEF Shares, Goes
    <2>7. QED
        BY <1>2, <2>1, <2>4, <2>5, <2>6, RecordKept
<1>6. QED
    BY <1>3, <1>4, <1>5

(* A session that is made is new: nobody has left anything in it.          *)
LEMMA MakeKept ==
  ASSUME ServletInv, NEW w \in Workers, MakeSession(w)
  PROVE  ServletInv'
<1>1. Before(w, "make") /\ worker[w].id \in Ids
    BY OwnFacts DEF MakeSession, Own, Before
<1>2. UNCHANGED <<now, table, erased, replies>>
    BY DEF MakeSession
<1>3. CASE Goto(w, "failed") /\ UNCHANGED objects
    BY <1>1, <1>2, <1>3, GotoFailed DEF Before
<1>4. CASE /\ objects' = Append(objects, NewObject)
           /\ worker' = [worker EXCEPT ![w].at = "insert", ![w].obj = Len(objects) + 1]
    <2> DEFINE o == Len(objects) + 1
               k == [worker[w] EXCEPT !.at = "insert", !.obj = o]
    <2>1. worker' = [worker EXCEPT ![w] = k]
        BY <1>4
    <2>2. Goes(worker[w], k, "insert", o)
        <3>1. worker[w] \in Tasks /\ "insert" \in Places /\ o \in Nat
            BY <1>1, OwnFacts DEF Places, Before
        <3> HIDE DEF o
        <3>2. QED
            BY <3>1, TaskTakes
    <2> HIDE DEF k
    <2>3. NewObject \in Objects
        BY DEF NewObject, Objects, Messages, ServletInv, ServletTypes
    <2>4. /\ objects' \in Seq(Objects) /\ Len(objects') = o
          /\ \A p \in 1..Len(objects) : objects'[p] = objects[p]
        BY <1>4, <2>3, OwnFacts
    <2>5. StepOf(w) /\ worker'[w] = k
        BY <2>1, <2>2, <2>4, OwnFacts DEF StepOf, Goes
    <2>6. TableStep
        BY <1>2, <2>4, OwnFacts, TableSame
    <2>7. Own(w)' /\ Shares(w)'
        BY <1>1, <2>2, <2>4, <2>5, OwnFacts DEF Own, Shares, Goes, Before
    <2>8. replies' \in [Requests -> {<<>>} \cup {<<a>> : a \in Replies}] /\ RepliesTrue'
        BY <1>2 DEF ServletInv, ServletTypes, RepliesTrue
    <2>9. QED
        BY <1>2, <2>5, <2>6, <2>7, <2>8, WorkerKept
<1>5. QED
    BY <1>3, <1>4 DEF MakeSession

(* Who finds a session in the table on the second look takes that one.     *)
LEMMA InsertKept ==
  ASSUME ServletInv, NEW w \in Workers, InsertSession(w)
  PROVE  ServletInv'
<1>1. Before(w, "insert") /\ worker[w].id \in Ids /\ worker[w].obj \in 1..Len(objects)
    BY OwnFacts DEF InsertSession, Own, Before
<1>2. UNCHANGED <<now, objects, erased, replies>>
    BY DEF InsertSession
<1> DEFINE o == IF table[worker[w].id] # 0 THEN table[worker[w].id] ELSE worker[w].obj
           k == [worker[w] EXCEPT !.at = "data", !.obj = o]
<1>3. o \in 1..Len(objects) /\ o \in Nat /\ table \in [Ids -> Nat]
    BY <1>1, OwnFacts DEF ServletInv, ServletTypes, TableMade
<1>4. worker' = [worker EXCEPT ![w] = k] /\ table' = [table EXCEPT ![worker[w].id] = o]
    <2>1. CASE table[worker[w].id] # 0
        <3>1. [table EXCEPT ![worker[w].id] = o] = table
            BY <1>3, <2>1
        <3>2. QED
            BY <2>1, <3>1 DEF InsertSession
    <2>2. CASE table[worker[w].id] = 0
        <3>1. k = [worker[w] EXCEPT !.at = "data"]
            BY <1>1, <2>2 DEF Before, Tasks
        <3>2. QED
            BY <2>2, <3>1 DEF InsertSession, Goto
    <2>3. QED
        BY <2>1, <2>2
<1>5. table[worker[w].id] = 0 \/ table[worker[w].id] = o
    OBVIOUS
<1> HIDE DEF o
<1>6. Goes(worker[w], k, "data", o)
    <2>1. worker[w] \in Tasks /\ "data" \in Places
        BY <1>1 DEF Places, Before
    <2>2. QED
        BY <1>3, <2>1, TaskTakes
<1> HIDE DEF k
<1>7. StepOf(w) /\ worker'[w] = k
    BY <1>2, <1>4, <1>6, WorkerChange DEF Goes
<1>8. TableStep
    BY <1>1, <1>2, <1>3, <1>4, <1>5, OwnFacts DEF TableStep, ServletInv, TableMade
<1>9. Own(w)'
    BY <1>1, <1>2, <1>3, <1>6, <1>7 DEF Own, Goes, Before
<1>10. Shares(w)'
    BY <1>1, <1>3, <1>4, <1>6, <1>7 DEF Shares, Goes
<1>11. replies' \in [Requests -> {<<>>} \cup {<<a>> : a \in Replies}] /\ RepliesTrue'
    BY <1>2 DEF ServletInv, ServletTypes, RepliesTrue
<1>12. QED
    BY <1>2, <1>7, <1>8, <1>9, <1>10, <1>11, WorkerKept

-----------------------------------------------------------------------------
(* Session x is session s, but for its flag, its time and what it keeps    *)
(* for the thread of w: now m as the response and e as the exception.      *)
Slot(s, x, w, m, e) ==
    /\ x \in Objects
    /\ x.responses[w] = m /\ x.exceptions[w] = e
    /\ \A v \in Workers : v # w => x.responses[v] = s.responses[v] /\ x.exceptions[v] = s.exceptions[v]

(* OnData forgets what the thread has left in the session.                 *)
LEMMA SlotForgets ==
  ASSUME NEW s \in Objects, NEW w \in Workers
  PROVE  Slot(s, [s EXCEPT !.responses[w] = <<>>, !.exceptions[w] = <<>>], w, <<>>, <<>>)
<1>1. <<>> \in Messages
    BY DEF Messages
<1>2. QED
    BY <1>1 DEF Objects, Slot

(* Publish keeps a response for the thread.                                *)
LEMMA SlotPublishes ==
  ASSUME NEW s \in Objects, NEW w \in Workers, NEW m \in Messages
  PROVE  Slot(s, [s EXCEPT !.responses[w] = m], w, m, s.exceptions[w])
BY DEF Objects, Slot

(* CloseMe sets the flag only.                                             *)
LEMMA SlotCloses ==
  ASSUME NEW s \in Objects, NEW w \in Workers
  PROVE  Slot(s, [s EXCEPT !.close = TRUE], w, s.responses[w], s.exceptions[w])
BY DEF Objects, Slot

(* The end of OnData takes the response away.                              *)
LEMMA SlotEnds ==
  ASSUME NEW s \in Objects, NEW w \in Workers, NEW t \in Nat
  PROVE  Slot(s, [s EXCEPT !.stamp = t, !.responses[w] = <<>>], w, <<>>, s.exceptions[w])
<1>1. <<>> \in Messages
    BY DEF Messages
<1>2. QED
    BY <1>1 DEF Objects, Slot

(* An exception takes the place of the response.                           *)
LEMMA SlotThrows ==
  ASSUME NEW s \in Objects, NEW w \in Workers, NEW e \in Messages
  PROVE  Slot(s, [s EXCEPT !.close = TRUE, !.responses[w] = <<>>, !.exceptions[w] = e], w, <<>>, e)
<1>1. <<>> \in Messages
    BY DEF Messages
<1>2. QED
    BY <1>1 DEF Objects, Slot

(* GetException takes the exception away.                                  *)
LEMMA SlotRethrows ==
  ASSUME NEW s \in Objects, NEW w \in Workers
  PROVE  Slot(s, [s EXCEPT !.exceptions[w] = <<>>], w, s.responses[w], <<>>)
<1>1. <<>> \in Messages
    BY DEF Messages
<1>2. QED
    BY <1>1 DEF Objects, Slot

(* One session is changed.                                                 *)
LEMMA ObjectSet ==
  ASSUME objects \in Seq(Objects), NEW p \in 1..Len(objects), NEW x \in Objects,
         objects' = [objects EXCEPT ![p] = x]
  PROVE  objects' \in Seq(Objects) /\ Len(objects') = Len(objects) /\ objects'[p] = x
OBVIOUS

(* A step of a worker inside its session keeps the invariant when what it  *)
(* leaves there is its own.                                                *)
LEMMA InsideKept ==
  ASSUME ServletInv, NEW w \in Workers, worker[w].at \in {"data", "running", "answer"},
         NEW k \in Tasks, k.obj = worker[w].obj, k.id = worker[w].id,
         NEW x, NEW m, NEW e, Slot(objects[worker[w].obj], x, w, m, e),
         worker' = [worker EXCEPT ![w] = k],
         objects' = [objects EXCEPT ![worker[w].obj] = x],
         UNCHANGED <<now, table, erased, replies>>,
         objects'[worker[w].obj] = x /\ Len(objects') = Len(objects) /\ worker'[w] = k => Own(w)'
  PROVE  ServletInv'
<1>1. worker[w].obj \in 1..Len(objects) /\ Shares(w) /\ Len(objects) \in Nat
    BY OwnFacts DEF Own
<1>2. x \in Objects /\ \A v \in Workers : v # w => /\ x.responses[v] = objects[worker[w].obj].responses[v]
                                                  /\ x.exceptions[v] = objects[worker[w].obj].exceptions[v]
    BY DEF Slot
<1>3. StepOf(w) /\ Len(objects') = Len(objects) /\ objects'[worker[w].obj] = x /\ worker'[w] = k
    <2>1. PICK p \in 1..Len(objects) : p = worker[w].obj
        BY <1>1
    <2>2. objects' = [objects EXCEPT ![p] = x]
        BY <2>1
    <2>3. worker \in [Workers -> Tasks] /\ objects \in Seq(Objects)
        BY OwnFacts
    <2>4. objects' \in Seq(Objects) /\ Len(objects') = Len(objects) /\ objects'[p] = x
        <3>1. x \in Objects
            BY <1>2
        <3>2. QED
            BY <2>2, <2>3, <3>1, ObjectSet
    <2>5. \A q \in 1..Len(objects) : q # p => objects'[q] = objects[q]
        BY <2>2, <2>3
    <2>6. worker' \in [Workers -> Tasks] /\ worker'[w] = k /\ \A v \in Workers : v # w => worker'[v] = worker[v]
        BY <2>3
    <2>7. \A v \in Workers : v # w =>
              \A q \in 1..Len(objects) : /\ objects'[q].responses[v] = objects[q].responses[v]
                                         /\ objects'[q].exceptions[v] = objects[q].exceptions[v]
        BY <1>2, <2>1, <2>4, <2>5
    <2>8. QED
        BY <1>1, <2>1, <2>4, <2>6, <2>7 DEF StepOf
<1>4. TableStep
    BY <1>1, <1>3, TableSame
<1>5. Shares(w)'
    BY <1>1, <1>3 DEF Shares
<1>6. replies' \in [Requests -> {<<>>} \cup {<<a>> : a \in Replies}] /\ RepliesTrue'
    BY DEF ServletInv, ServletTypes, RepliesTrue
<1>7. QED
    BY <1>3, <1>4, <1>5, <1>6, WorkerKept

(* What holds of a worker inside OnData.                                   *)
LEMMA Inside ==
  ASSUME ServletInv, NEW w \in Workers, worker[w].at \in {"data", "running", "answer"}
  PROVE  /\ worker[w] \in Tasks /\ worker[w].obj \in 1..Len(objects) /\ worker[w].id \in Ids
         /\ objects[worker[w].obj] \in Objects
         /\ worker[w].req # <<>> /\ worker[w].req[1] \in Requests /\ worker[w].req = <<worker[w].req[1]>>
         /\ worker[w].obj \in Nat /\ worker[w].count \in Nat
<1>1. worker[w] \in Tasks /\ worker[w].obj \in 1..Len(objects) /\ worker[w].id \in Ids /\ worker[w].req # <<>>
    BY OwnFacts DEF Own
<1>2. worker[w].obj \in Nat /\ worker[w].count \in Nat
    BY <1>1 DEF Tasks
<1>3. QED
    BY <1>1, <1>2, OwnFacts

(* OnData begins: nothing is left of an earlier request of this thread.    *)
LEMMA BeginKept ==
  ASSUME ServletInv, NEW w \in Workers, BeginData(w)
  PROVE  ServletInv'
<1>1. Before(w, "data") /\ worker[w].at \in {"data", "running", "answer"}
    BY OwnFacts DEF BeginData, Own, Before
<1>2. CASE ~worker[w].data
    BY <1>1, <1>2, GotoFailed DEF BeginData, Before
<1>3. CASE worker[w].data
    <2> DEFINE k == [worker[w] EXCEPT !.at = "running"]
               s == objects[worker[w].obj]
               x == [s EXCEPT !.responses[w] = <<>>, !.exceptions[w] = <<>>]
    <2>1. worker' = [worker EXCEPT ![w] = k]
        BY <1>3 DEF BeginData, Goto
    <2>2. objects' = [objects EXCEPT ![worker[w].obj] = x]
        <3>1. worker[w].obj \in DOMAIN objects
            BY <1>1, Inside, OwnFacts
        <3>2. QED
            BY <1>3, <3>1 DEF BeginData
    <2>3. Goes(worker[w], k, "running", worker[w].obj)
        <3>1. worker[w] \in Tasks /\ "running" \in Places
            BY <1>1 DEF Places, Before
        <3>2. QED
            BY <3>1, TaskGoes
    <2>4. Slot(s, x, w, <<>>, <<>>)
        <3>1. s \in Objects
            BY <1>1, Inside
        <3> HIDE DEF s
        <3>2. QED
            BY <3>1, SlotForgets
    <2> HIDE DEF k, x
    <2>5. ASSUME objects'[worker[w].obj] = x, Len(objects') = Len(objects), worker'[w] = k
          PROVE  Own(w)'
        BY <1>1, <2>3, <2>4, <2>5, Inside DEF Own, Goes, Slot, Before
    <2>6. UNCHANGED <<now, table, erased, replies>>
        BY DEF BeginData
    <2>7. QED
        BY <1>1, <2>1, <2>2, <2>3, <2>4, <2>5, <2>6, InsideKept DEF Goes
<1>4. QED
    BY <1>2, <1>3

(* What the chain publishes first is kept, what follows is not.            *)
LEMMA PublishKept ==
  ASSUME ServletInv, NEW w \in Workers, Publish(w)
  PROVE  ServletInv'
<1> DEFINE r == worker[w].req[1]
           n == worker[w].count
           s == objects[worker[w].obj]
           m == IF s.responses[w] = <<>> THEN <<r, n + 1>> ELSE s.responses[w]
           k == [worker[w] EXCEPT !.count = n + 1]
           x == [s EXCEPT !.responses[w] = m]
<1>1. /\ worker[w].at = "running" /\ worker[w].at \in {"data", "running", "answer"}
      /\ worker' = [worker EXCEPT ![w] = k]
      /\ UNCHANGED <<now, table, erased, replies>>
    BY DEF Publish
<1>2. /\ worker[w] \in Tasks /\ worker[w].obj \in 1..Len(objects) /\ s \in Objects /\ r \in Requests
      /\ n \in Nat /\ worker[w].req # <<>> /\ worker[w].id \in Ids
    BY <1>1, Inside
<1>3. /\ s.exceptions[w] = <<>> /\ worker[w].result = <<>>
      /\ s.responses[w] = IF n = 0 THEN <<>> ELSE <<r, 1>>
    BY <1>1, OwnFacts DEF Own
<1>4. objects' = [objects EXCEPT ![worker[w].obj] = x]
    <2>1. worker[w].obj \in DOMAIN objects
        BY <1>2, OwnFacts
    <2>2. QED
        BY <2>1 DEF Publish
<1>5. m = <<r, 1>> /\ m \in Messages
    BY <1>2, <1>3 DEF Messages
<1>6. /\ k \in Tasks /\ k.at = "running" /\ k.obj = worker[w].obj /\ k.id = worker[w].id
      /\ k.req = worker[w].req /\ k.result = worker[w].result /\ k.count = n + 1 /\ k.count # 0
    BY <1>1, <1>2 DEF Tasks
<1> HIDE DEF m, k
<1>7. Slot(s, x, w, m, s.exceptions[w])
    <2> HIDE DEF s
    <2>1. QED
        BY <1>2, <1>5, SlotPublishes
<1> HIDE DEF x
<1>8. ASSUME objects'[worker[w].obj] = x, Len(objects') = Len(objects), worker'[w] = k
      PROVE  Own(w)'
    BY <1>2, <1>3, <1>5, <1>6, <1>7, <1>8 DEF Own, Slot
<1>9. QED
    BY <1>1, <1>4, <1>6, <1>7, <1>8, InsideKept

(* The chain may ask for the end of the session at any time.               *)
LEMMA CloseKept ==
  ASSUME ServletInv, NEW w \in Workers, CloseSession(w)
  PROVE  ServletInv'
<1> DEFINE s == objects[worker[w].obj]
           k == worker[w]
           x == [s EXCEPT !.close = TRUE]
<1>1. /\ worker[w].at = "running" /\ worker[w].at \in {"data", "running", "answer"}
      /\ UNCHANGED <<now, table, erased, replies>>
    BY DEF CloseSession
<1>2. worker' = [worker EXCEPT ![w] = k]
    BY OwnFacts DEF CloseSession
<1>3. k \in Tasks /\ s \in Objects
    BY <1>1, Inside
<1>4. objects' = [objects EXCEPT ![worker[w].obj] = x]
    <2>1. worker[w].obj \in DOMAIN objects
        BY <1>1, Inside, OwnFacts
    <2>2. QED
        BY <2>1 DEF CloseSession
<1>5. Slot(s, x, w, s.responses[w], s.exceptions[w])
    <2> HIDE DEF s
    <2>1. QED
        BY <1>3, SlotCloses
<1> HIDE DEF x
<1>6. ASSUME objects'[worker[w].obj] = x, Len(objects') = Len(objects), worker'[w] = k
      PROVE  Own(w)'
    BY <1>1, <1>5, <1>6, OwnFacts DEF Own, Slot
<1>7. QED
    BY <1>1, <1>2, <1>3, <1>4, <1>5, <1>6, InsideKept

(* What OnData returns is what was published first, or nothing.            *)
LEMMA EndKept ==
  ASSUME ServletInv, NEW w \in Workers, EndData(w)
  PROVE  ServletInv'
<1> DEFINE s == objects[worker[w].obj]
           m == s.responses[w]
           k == [worker[w] EXCEPT !.at = "answer", !.result = m]
           x == [s EXCEPT !.stamp = now, !.responses[w] = <<>>]
<1>1. /\ worker[w].at = "running" /\ worker[w].at \in {"data", "running", "answer"}
      /\ worker' = [worker EXCEPT ![w] = k]
      /\ UNCHANGED <<now, table, erased, replies>>
    BY DEF EndData
<1>2. /\ worker[w] \in Tasks /\ worker[w].obj \in 1..Len(objects) /\ s \in Objects
      /\ worker[w].req # <<>> /\ worker[w].id \in Ids
    BY <1>1, Inside
<1>3. s.exceptions[w] = <<>> /\ m \in {<<>>, <<worker[w].req[1], 1>>}
    BY <1>1, OwnFacts DEF Own
<1>4. m \in Messages /\ now \in Nat
    BY <1>2 DEF Objects, ServletInv, ServletTypes
<1>5. objects' = [objects EXCEPT ![worker[w].obj] = x]
    <2>1. worker[w].obj \in DOMAIN objects
        BY <1>2, OwnFacts
    <2>2. QED
        BY <2>1 DEF EndData
<1> HIDE DEF m
<1>6. /\ k \in Tasks /\ k.at = "answer" /\ k.obj = worker[w].obj /\ k.id = worker[w].id
      /\ k.req = worker[w].req /\ k.result = m
    <2>1. "answer" \in Places
        BY DEF Places
    <2>2. QED
        BY <1>2, <1>4, <2>1 DEF Tasks
<1> HIDE DEF k
<1>7. Slot(s, x, w, <<>>, s.exceptions[w])
    <2> HIDE DEF s
    <2>1. QED
        BY <1>2, <1>4, SlotEnds
<1> HIDE DEF x
<1>8. ASSUME objects'[worker[w].obj] = x, Len(objects') = Len(objects), worker'[w] = k
      PROVE  Own(w)'
    BY <1>2, <1>3, <1>6, <1>7, <1>8 DEF Own, Slot
<1>9. QED
    BY <1>1, <1>5, <1>6, <1>7, <1>8, InsideKept

(* The exception that is kept is the one of this request.                  *)
LEMMA ThrowsKept ==
  ASSUME ServletInv, NEW w \in Workers, DataThrows(w)
  PROVE  ServletInv'
<1> DEFINE s == objects[worker[w].obj]
           e == IF s.exceptions[w] = <<>> THEN worker[w].req ELSE s.exceptions[w]
           k == [worker[w] EXCEPT !.at = "answer"]
           x == [s EXCEPT !.close = TRUE, !.responses[w] = <<>>, !.exceptions[w] = e]
<1>1. /\ worker[w].at = "running" /\ worker[w].at \in {"data", "running", "answer"}
      /\ worker' = [worker EXCEPT ![w] = k]
      /\ UNCHANGED <<now, table, erased, replies>>
    BY DEF DataThrows, Goto
<1>2. /\ worker[w] \in Tasks /\ worker[w].obj \in 1..Len(objects) /\ s \in Objects
      /\ worker[w].req # <<>> /\ worker[w].id \in Ids
    BY <1>1, Inside
<1>3. s.exceptions[w] = <<>> /\ worker[w].result = <<>>
    BY <1>1, OwnFacts DEF Own
<1>4. e = worker[w].req /\ e \in Messages
    BY <1>2, <1>3 DEF Tasks, Messages
<1>5. objects' = [objects EXCEPT ![worker[w].obj] = x]
    <2>1. worker[w].obj \in DOMAIN objects
        BY <1>2, OwnFacts
    <2>2. QED
        BY <2>1 DEF DataThrows
<1> HIDE DEF e
<1>6. Goes(worker[w], k, "answer", worker[w].obj)
    <2>1. "answer" \in Places
        BY DEF Places
    <2>2. QED
        BY <1>2, <2>1, TaskGoes
<1> HIDE DEF k
<1>7. Slot(s, x, w, <<>>, e)
    <2> HIDE DEF s
    <2>1. QED
        BY <1>2, <1>4, SlotThrows
<1> HIDE DEF x
<1>8. ASSUME objects'[worker[w].obj] = x, Len(objects') = Len(objects), worker'[w] = k
      PROVE  Own(w)'
    BY <1>2, <1>3, <1>4, <1>6, <1>7, <1>8 DEF Own, Slot, Goes
<1>9. QED
    BY <1>1, <1>5, <1>6, <1>7, <1>8, InsideKept DEF Goes

(* A reply that is about its own request may be given at any time.         *)
LEMMA ReplyKept ==
  ASSUME ServletInv, NEW w \in Workers, NEW header \in BOOLEAN, NEW data, NEW r \in Requests,
         worker[w].req[1] = r, data \in {<<>>, <<r, 1>>, <<r, 0>>}, header => data \in {<<>>, <<r, 1>>},
         Reply(w, header, data), now' = now, objects' = objects, TableStep
  PROVE  ServletInv'
<1> DEFINE a == [header |-> header, data |-> data]
<1>1. Idle \in Tasks /\ Idle.at = "idle"
    <2>1. <<>> \in Messages /\ "idle" \in Places
        BY DEF Messages, Places
    <2>2. QED
        BY <2>1 DEF Idle, Tasks
<1>2. worker' = [worker EXCEPT ![w] = Idle] /\ replies' = [replies EXCEPT ![r] = <<a>>]
    BY DEF Reply
<1>3. StepOf(w) /\ worker'[w] = Idle
    BY <1>1, <1>2, WorkerChange
<1>4. Own(w)' /\ Shares(w)'
    BY <1>1, <1>3 DEF Own, Shares
<1>5. data \in Messages
    BY DEF Messages
<1>6. a \in Replies /\ a.data = data /\ a.header = header
    BY <1>5 DEF Replies
<1> HIDE DEF a
<1>7. replies \in [Requests -> {<<>>} \cup {<<b>> : b \in Replies}]
    BY DEF ServletInv, ServletTypes
<1>8. replies' \in [Requests -> {<<>>} \cup {<<b>> : b \in Replies}]
    BY <1>2, <1>6, <1>7
<1>9. RepliesTrue'
    <2> SUFFICES ASSUME NEW q \in Requests, replies'[q] # <<>>
                 PROVE  /\ replies'[q][1].data \in {<<>>, <<q, 1>>, <<q, 0>>}
                        /\ replies'[q][1].header => replies'[q][1].data \in {<<>>, <<q, 1>>}
        BY DEF RepliesTrue
    <2>1. CASE q = r
        <3>1. replies'[q][1] = a
            BY <1>2, <1>7, <2>1
        <3>2. QED
            BY <1>6, <2>1, <3>1
    <2>2. CASE q # r
        <3>1. replies'[q] = replies[q]
            BY <1>2, <1>7, <2>2
        <3>2. QED
            BY <3>1 DEF ServletInv, RepliesTrue
    <2>3. QED
        BY <2>1, <2>2
<1>10. QED
    BY <1>3, <1>4, <1>8, <1>9, WorkerKept

(* OnRequest replies with the result or goes on with the exception.        *)
LEMMA AnswerKept ==
  ASSUME ServletInv, NEW w \in Workers, Answer(w)
  PROVE  ServletInv'
<1> DEFINE s == objects[worker[w].obj]
<1>1. /\ worker[w].at = "answer" /\ worker[w].at \in {"data", "running", "answer"}
      /\ UNCHANGED <<now, table, erased>>
    BY DEF Answer
<1>2. /\ worker[w] \in Tasks /\ worker[w].obj \in 1..Len(objects) /\ s \in Objects
      /\ worker[w].req # <<>> /\ worker[w].req[1] \in Requests
    BY <1>1, Inside
<1>3. worker[w].result \in {<<>>, <<worker[w].req[1], 1>>} /\ s.exceptions[w] \in {<<>>, worker[w].req}
    BY <1>1, OwnFacts DEF Own
<1>4. CASE s.close /\ s.exceptions[w] # <<>>
    <2> DEFINE e == s.exceptions[w]
               k == [worker[w] EXCEPT !.at = "failed", !.result = e]
               x == [s EXCEPT !.exceptions[w] = <<>>]
    <2>1. worker' = [worker EXCEPT ![w] = k] /\ UNCHANGED replies
        BY <1>4 DEF Answer
    <2>2. objects' = [objects EXCEPT ![worker[w].obj] = x]
        <3>1. worker[w].obj \in DOMAIN objects
            BY <1>2, OwnFacts
        <3>2. QED
            BY <1>4, <3>1 DEF Answer
    <2>3. e = worker[w].req /\ e \in Messages
        BY <1>2, <1>3, <1>4 DEF Objects
    <2> HIDE DEF e
    <2>4. /\ k \in Tasks /\ k.at = "failed" /\ k.obj = worker[w].obj /\ k.id = worker[w].id
          /\ k.req = worker[w].req /\ k.result = e
        <3>1. "failed" \in Places
            BY DEF Places
        <3>2. QED
            BY <1>2, <2>3, <3>1 DEF Tasks
    <2> HIDE DEF k
    <2>5. Slot(s, x, w, s.responses[w], <<>>)
        <3> HIDE DEF s
        <3>1. QED
            BY <1>2, SlotRethrows
    <2> HIDE DEF x
    <2>6. ASSUME objects'[worker[w].obj] = x, Len(objects') = Len(objects), worker'[w] = k
          PROVE  Own(w)'
        BY <1>2, <2>3, <2>4, <2>6 DEF Own
    <2>7. QED
        BY <1>1, <2>1, <2>2, <2>4, <2>5, <2>6, InsideKept
<1>5. CASE ~(s.close /\ s.exceptions[w] # <<>>)
    <2>1. Reply(w, ~s.close, worker[w].result) /\ objects' = objects
        BY <1>5 DEF Answer
    <2>2. PICK header \in BOOLEAN : header = ~s.close
        OBVIOUS
    <2>3. PICK r \in Requests : r = worker[w].req[1]
        BY <1>2
    <2>4. TableStep
        BY <1>1, <2>1, TableSame, OwnFacts
    <2>5. Reply(w, header, worker[w].result) /\ worker[w].result \in {<<>>, <<r, 1>>}
        BY <1>3, <2>1, <2>2, <2>3
    <2>6. QED
        BY <1>1, <2>1, <2>3, <2>4, <2>5, ReplyKept
<1>6. QED
    BY <1>4, <1>5

(* RemoveSession notes what it takes out, and the error is its own.        *)
LEMMA RemoveKept ==
  ASSUME ServletInv, NEW w \in Workers, RemoveSession(w)
  PROVE  ServletInv'
<1> DEFINE i == worker[w].id
           r == worker[w].req[1]
           data == <<IF worker[w].result = <<>> THEN r ELSE worker[w].result[1], 0>>
<1>1. worker[w].at = "failed" /\ UNCHANGED <<now, objects>> /\ Reply(w, FALSE, data)
    BY DEF RemoveSession
<1>2. worker[w].req # <<>> /\ worker[w].result \in {<<>>, worker[w].req} /\ r \in Requests
    BY <1>1, OwnFacts DEF Own
<1>3. data = <<r, 0>>
    BY <1>2
<1>4. TableStep
    <2>1. /\ table \in [Ids -> Nat] /\ \A j \in Ids : table[j] <= Len(objects)
          /\ Len(objects) \in Nat
        BY OwnFacts DEF ServletInv, ServletTypes, TableMade
    <2>2. CASE i # NoId
        <3>1. table' = [table EXCEPT ![i] = 0] /\ erased' = erased \cup ({table[i]} \ {0})
            BY <2>2 DEF RemoveSession
        <3>2. \A j \in Ids : table'[j] = table[j] \/ (table'[j] = 0 /\ table[j] = table[i])
            BY <2>1, <3>1
        <3>3. table' \in [Ids -> Nat] /\ objects' = objects
            BY <1>1, <2>1, <3>1
        <3>4. QED
            BY <2>1, <3>1, <3>2, <3>3 DEF TableStep
    <2>3. CASE i = NoId
        BY <1>1, <2>1, <2>3 DEF TableStep, RemoveSession
    <2>4. QED
        BY <2>2, <2>3
<1>5. QED
    BY <1>1, <1>2, <1>3, <1>4, ReplyKept

(* The timer takes out sessions that may be in use, and notes them; the    *)
(* workers go on with them.                                                *)
LEMMA TimerKept ==
  ASSUME ServletInv, OnCleaner \/ Tick
  PROVE  ServletInv'
<1>1. UNCHANGED <<objects, worker, replies>> /\ TableStep /\ now' \in Nat
    <2>1. /\ table \in [Ids -> Nat] /\ \A j \in Ids : table[j] <= Len(objects)
          /\ Len(objects) \in Nat /\ now \in Nat
        BY DEF ServletInv, ServletTypes, TableMade
    <2>2. CASE OnCleaner
        BY <2>1, <2>2 DEF OnCleaner, TableStep
    <2>3. CASE Tick
        BY <2>1, <2>3 DEF Tick, TableStep
    <2>4. QED
        BY <2>2, <2>3
<1>2. \A w \in Workers : Own(w)'
    BY <1>1 DEF ServletInv, Own
<1>3. SharedSession'
    <2> SUFFICES ASSUME NEW w \in Workers PROVE Shares(w)'
        BY DEF SharedSession, Shares
    <2>1. Own(w) /\ Shares(w) /\ Len(objects) \in Nat
        BY OwnFacts
    <2>2. worker[w].at \in {"data", "running", "answer"} => worker[w].id \in Ids /\ worker[w].obj # 0
        BY <2>1 DEF Own
    <2>3. QED
        BY <1>1, <2>1, <2>2 DEF Shares, TableStep
<1>4. QED
    BY <1>1, <1>2, <1>3 DEF ServletInv, ServletTypes, TableMade, TableStep, RepliesTrue

(* All steps of the servlet.                                               *)
LEMMA ServerSideKept ==
  ASSUME ServletInv, ServerSide
  PROVE  ServletInv'
<1>1. CASE OnCleaner \/ Tick
    BY <1>1, TimerKept
<1>2. ASSUME NEW w \in Workers, WorkerStep(w)
      PROVE  ServletInv'
    BY <1>2, FindKept, MakeKept, InsertKept, BeginKept, PublishKept, CloseKept, EndKept, ThrowsKept,
       AnswerKept, RemoveKept DEF WorkerStep
<1>3. QED
    BY <1>1, <1>2 DEF ServerSide

-----------------------------------------------------------------------------
(* The invariant of the sockets is about all of them.                      *)
LEMMA AllInUse ==
  ASSUME SocketInv
  PROVE  SocketsInUse
BY DEF SocketInv, UsedSockets, InUse, SocketsInUse, Sockets

(* One socket changes, to one that is in use or closed.                    *)
LEMMA SocketKept ==
  ASSUME NEW so, UsedSockets(so), NEW s \in 1..Len(so), NEW x, InUse(x)
  PROVE  UsedSockets([so EXCEPT ![s] = x])
<1> DEFINE to == [so EXCEPT ![s] = x]
<1>1. so \in Seq(SocketSet) /\ x \in SocketSet
    BY DEF UsedSockets, InUse
<1>2. to \in Seq(SocketSet) /\ Len(to) = Len(so) /\ to[s] = x
    BY <1>1
<1>3. \A t \in 1..Len(so) : t # s => to[t] = so[t]
    BY <1>1
<1> HIDE DEF to
<1>4. UsedSockets(to)
    BY <1>2, <1>3 DEF UsedSockets
<1>5. QED
    BY <1>4 DEF to

(* What the invariant gives of one socket.                                 *)
LEMMA SocketFacts ==
  ASSUME SocketInv, NEW s \in Sockets
  PROVE  s \in 1..Len(sockets) /\ sockets[s] \in SocketSet /\ InUse(sockets[s])
BY DEF SocketInv, Sockets, UsedSockets, InUse

(* Close leaves a closed socket.                                           *)
LEMMA SocketShuts ==
  ASSUME NEW x \in SocketSet
  PROVE  InUse(Down(x))
<1>1. <<>> \in Seq(Calls)
    OBVIOUS
<1>2. Down(x) \in SocketSet /\ Down(x).closed
    BY <1>1 DEF Down, SocketSet, States
<1>3. QED
    BY <1>2 DEF InUse

(* The connections that nobody holds lose their sockets.                   *)
LEMMA FreedKept ==
  ASSUME NEW so, UsedSockets(so), NEW se, NEW ca
  PROVE  UsedSockets(Freed(so, se, ca))
<1> DEFINE to == Freed(so, se, ca)
<1>1. so \in Seq(SocketSet) /\ DOMAIN so = 1..Len(so) /\ Len(so) \in Nat
    BY DEF UsedSockets
<1>2. \A s \in 1..Len(so) : InUse(so[s]) /\ InUse(Down(so[s]))
    BY SocketShuts DEF UsedSockets, InUse
<1>3. to = [s \in 1..Len(so) |-> IF so[s].connection \in Held(se, ca) THEN so[s] ELSE Down(so[s])]
    BY <1>1 DEF Freed
<1>4. \A s \in 1..Len(so) : to[s] = so[s] \/ to[s] = Down(so[s])
    BY <1>3
<1> HIDE DEF to
<1>5. \A s \in 1..Len(so) : InUse(to[s])
    BY <1>2, <1>4
<1>6. to \in [1..Len(so) -> SocketSet]
    BY <1>3, <1>5 DEF InUse
<1>7. to \in Seq(SocketSet) /\ Len(to) = Len(so)
    BY <1>1, <1>6
<1>8. QED
    BY <1>5, <1>7 DEF UsedSockets, to

(* A socket is made, and made to connect.                                  *)
LEMMA SocketOpens ==
  ASSUME NEW x \in SocketSet, NEW r \in Calls, NEW b \in SUBSET Calls, NEW c \in Nat
  PROVE  /\ InUse([x EXCEPT !.state = "connecting", !.connect = {r}, !.sent = <<>>, !.bad = b])
         /\ InUse(NewSocket(c))
<1>1. <<>> \in Seq(Calls)
    OBVIOUS
<1>2. NewSocket(c) \in SocketSet /\ NewSocket(c).state = "made"
    BY <1>1 DEF NewSocket, SocketSet, States
<1>3. [x EXCEPT !.state = "connecting", !.connect = {r}, !.sent = <<>>, !.bad = b] \in SocketSet
    BY <1>1 DEF SocketSet, States
<1>4. [x EXCEPT !.state = "connecting", !.connect = {r}, !.sent = <<>>, !.bad = b].state = "connecting"
    BY DEF SocketSet
<1>5. QED
    BY <1>2, <1>3, <1>4 DEF InUse

(* One more message on a socket; the first one of all when it connects.    *)
LEMMA SocketSends ==
  ASSUME NEW x, InUse(x), NEW r \in Calls
  PROVE  /\ InUse([x EXCEPT !.sent = Append(@, r)])
         /\ InUse([x EXCEPT !.bad = @ \cup {r}])
         /\ InUse([x EXCEPT !.state = "open", !.closed = FALSE, !.connect = {}, !.sent = Append(x.sent, r)])
<1>1. x \in SocketSet
    BY DEF InUse
<1>2. Append(x.sent, r) \in Seq(Calls) /\ Append(x.sent, r) # <<>>
    BY <1>1 DEF SocketSet
<1>3. PICK q : q = Append(x.sent, r)
    OBVIOUS
<1>4. InUse([x EXCEPT !.sent = q])
    BY <1>1, <1>2, <1>3 DEF InUse, SocketSet
<1>5. InUse([x EXCEPT !.bad = @ \cup {r}])
    <2>1. [x EXCEPT !.bad = @ \cup {r}] \in SocketSet
        BY <1>1 DEF SocketSet
    <2>2. QED
        BY <1>1, <2>1 DEF InUse, SocketSet
<1>6. InUse([x EXCEPT !.state = "open", !.closed = FALSE, !.connect = {}, !.sent = q])
    BY <1>1, <1>2, <1>3 DEF InUse, SocketSet, States
<1>7. QED
    BY <1>3, <1>4, <1>5, <1>6

(* An operation that failed marks the socket.                              *)
LEMMA SocketRefuses ==
  ASSUME NEW x \in SocketSet, NEW r
  PROVE  InUse([x EXCEPT !.bad = @ \ {r}, !.closed = TRUE])
BY DEF SocketSet, InUse

(* The types of a message, its session and its connection.                 *)
LEMMA ClientTypesKept ==
  ASSUME SocketInv, NEW r \in Calls, ClientStep(r)
  PROVE  /\ connections' \in Seq(Nat)
         /\ session' \in [Clients -> [up : BOOLEAN, connection : Nat]]
         /\ call' \in [Calls -> [at : CallPlaces, connection : Nat]]
<1>0. /\ connections \in Seq(Nat) /\ Len(connections) \in Nat /\ Len(sockets) \in Nat
      /\ session \in [Clients -> [up : BOOLEAN, connection : Nat]]
      /\ call \in [Calls -> [at : CallPlaces, connection : Nat]]
    BY DEF SocketInv, UsedSockets
<1>1. ASSUME NEW at \in CallPlaces, NEW c \in Nat
      PROVE  /\ At(r, at) \in [Calls -> [at : CallPlaces, connection : Nat]]
             /\ [call EXCEPT ![r] = [at |-> at, connection |-> c]] \in [Calls -> [at : CallPlaces, connection : Nat]]
    BY <1>0 DEF At
<1>2. ASSUME NEW i, NEW c \in Nat
      PROVE  /\ Closed(i) \in [Clients -> [up : BOOLEAN, connection : Nat]]
             /\ [session EXCEPT ![i].connection = c] \in [Clients -> [up : BOOLEAN, connection : Nat]]
    BY <1>0 DEF Closed
<1>3. CASE GetConnection(r)
    <2>1. PICK i : i = IdOf[r]
        OBVIOUS
    <2>2. session[i].connection \in Nat
        BY <1>0, <2>1, HttpClientAssumption
    <2>3. /\ connections' \in {connections, Append(connections, 0)}
          /\ session' \in {session, Closed(i), [session EXCEPT ![i].connection = Len(connections) + 1]}
          /\ call' \in {At(r, "out"), [call EXCEPT ![r] = [at |-> "test", connection |-> Len(connections) + 1]],
                        [call EXCEPT ![r] = [at |-> "test", connection |-> session[i].connection]]}
        BY <1>3, <2>1, Zenon DEF GetConnection
    <2>4. Append(connections, 0) \in Seq(Nat) /\ Len(connections) + 1 \in Nat
        BY <1>0
    <2>5. call' \in [Calls -> [at : CallPlaces, connection : Nat]]
        <3>1. "out" \in CallPlaces /\ "test" \in CallPlaces
            BY DEF CallPlaces
        <3>2. At(r, "out") \in [Calls -> [at : CallPlaces, connection : Nat]]
            BY <1>0, <3>1 DEF At
        <3>3. ASSUME NEW c \in Nat
              PROVE  [call EXCEPT ![r] = [at |-> "test", connection |-> c]] \in [Calls -> [at : CallPlaces, connection : Nat]]
            BY <1>1, <3>1
        <3>4. QED
            BY <2>2, <2>3, <2>4, <3>2, <3>3
    <2>6. session' \in [Clients -> [up : BOOLEAN, connection : Nat]]
        <3>1. Closed(i) \in [Clients -> [up : BOOLEAN, connection : Nat]]
            BY <1>0 DEF Closed
        <3>2. [session EXCEPT ![i].connection = Len(connections) + 1] \in [Clients -> [up : BOOLEAN, connection : Nat]]
            BY <1>2, <2>4
        <3>3. QED
            BY <1>0, <2>3, <3>1, <3>2
    <2>7. QED
        BY <1>0, <2>3, <2>4, <2>5, <2>6
<1>4. CASE MakeRequest(r) \/ MakeSocket(r) \/ Run(r) \/ Post(r)
    <2>1. call' \in {At(r, "make"), At(r, "post"), At(r, "run"), At(r, "out")}
        BY <1>4 DEF MakeRequest, MakeSocket, Run, Post
    <2>2. session' \in {session, Closed(IdOf[r])}
        BY <1>4 DEF MakeRequest, MakeSocket, Run, Post
    <2>3. connections' = connections \/ \E c : connections' = [connections EXCEPT ![c] = Len(sockets) + 1]
        BY <1>4 DEF MakeRequest, MakeSocket, Run, Post
    <2>4. connections' \in Seq(Nat)
        <3>1. ASSUME NEW c, NEW n \in Nat
              PROVE  [connections EXCEPT ![c] = n] \in Seq(Nat)
            <4>1. connections \in [1..Len(connections) -> Nat]
                BY <1>0
            <4>2. [connections EXCEPT ![c] = n] \in [1..Len(connections) -> Nat]
                BY <4>1
            <4>3. QED
                BY <1>0, <4>2
        <3>2. Len(sockets) + 1 \in Nat
            BY <1>0
        <3>3. CASE connections' = connections
            BY <1>0, <3>3
        <3>4. CASE connections' # connections
            <4>1. PICK c : connections' = [connections EXCEPT ![c] = Len(sockets) + 1]
                BY <2>3, <3>4
            <4>2. QED
                BY <3>1, <3>2, <4>1
        <3>5. QED
            BY <3>3, <3>4
    <2>5. call' \in [Calls -> [at : CallPlaces, connection : Nat]]
        <3>1. /\ "make" \in CallPlaces /\ "post" \in CallPlaces
              /\ "run" \in CallPlaces /\ "out" \in CallPlaces /\ 0 \in Nat
            BY DEF CallPlaces
        <3>2. \A at \in CallPlaces : At(r, at) \in [Calls -> [at : CallPlaces, connection : Nat]]
            BY <1>0 DEF At
        <3>3. QED
            BY <2>1, <3>1, <3>2
    <2>6. session' \in [Clients -> [up : BOOLEAN, connection : Nat]]
        <3>1. Closed(IdOf[r]) \in [Clients -> [up : BOOLEAN, connection : Nat]]
            BY <1>0 DEF Closed
        <3>2. QED
            BY <1>0, <2>2, <3>1
    <2>7. QED
        BY <2>4, <2>5, <2>6
<1>5. QED
    BY <1>3, <1>4 DEF ClientStep

(* The steps of a message on its way to a socket.                          *)
LEMMA ClientStepKept ==
  ASSUME SocketInv, NEW r \in Calls, ClientStep(r)
  PROVE  SocketInv'
<1>0. UsedSockets(sockets)
    BY DEF SocketInv
<1> SUFFICES UsedSockets(sockets')
    BY ClientTypesKept DEF SocketInv, UsedSockets, InUse
<1>1. CASE GetConnection(r)
    <2>1. sockets' = Freed(sockets, session', call')
        BY <1>1 DEF GetConnection
    <2>2. QED
        BY <1>0, <2>1, FreedKept
<1>2. CASE MakeRequest(r)
    BY <1>0, <1>2 DEF MakeRequest
<1>3. CASE MakeSocket(r)
    <2> DEFINE x == NewSocket(call[r].connection)
    <2>1. call[r].connection \in Nat
        BY DEF SocketInv
    <2>2. InUse(x) /\ x \in SocketSet
        <3>1. InUse(x)
            <4>1. <<>> \in Seq(Calls)
                OBVIOUS
            <4>2. x \in SocketSet /\ x.state = "made"
                BY <2>1, <4>1 DEF NewSocket, SocketSet, States
            <4>3. QED
                BY <4>2 DEF InUse
        <3>2. QED
            BY <3>1 DEF InUse
    <2>3. sockets' = Append(sockets, x) /\ sockets \in Seq(SocketSet)
        BY <1>0, <1>3 DEF MakeSocket, UsedSockets
    <2> HIDE DEF x
    <2>4. /\ sockets' \in Seq(SocketSet) /\ Len(sockets') = Len(sockets) + 1 /\ sockets'[Len(sockets) + 1] = x
          /\ \A t \in 1..Len(sockets) : sockets'[t] = sockets[t]
        BY <2>2, <2>3
    <2>5. \A t \in 1..(Len(sockets) + 1) : t \in 1..Len(sockets) \/ t = Len(sockets) + 1
        BY <2>3
    <2>6. QED
        BY <1>0, <2>2, <2>4, <2>5 DEF UsedSockets
<1>4. CASE Run(r) \/ Post(r)
    <2>1. PICK s : s = connections[call[r].connection]
        OBVIOUS
    <2> DEFINE z == sockets[s]
               b == z.bad \cup z.connect \cup {z.sent[k] : k \in DOMAIN z.sent}
               x == [z EXCEPT !.sent = Append(@, r)]
               y == [z EXCEPT !.bad = @ \cup {r}]
               o == [z EXCEPT !.state = "connecting", !.connect = {r}, !.sent = <<>>, !.bad = b]
    <2>2. PICK to : /\ sockets' = Freed(to, session', call')
                    /\ to \in {sockets, [sockets EXCEPT ![s] = x], [sockets EXCEPT ![s] = y], [sockets EXCEPT ![s] = o]}
        <3>1. CASE Run(r)
            <4>1. session' = session /\ sockets' = Freed([sockets EXCEPT ![s] = o], session, call')
                BY <2>1, <3>1 DEF Run
            <4>2. QED
                BY <4>1, Zenon
        <3>2. CASE Post(r)
            <4>1. \/ sockets' = Freed(sockets, session', call')
                  \/ sockets' = Freed([sockets EXCEPT ![s] = x], session', call')
                  \/ sockets' = Freed([sockets EXCEPT ![s] = y], session', call')
                BY <2>1, <3>2 DEF Post
            <4>2. QED
                BY <4>1, Zenon
        <3>3. QED
            BY <1>4, <3>1, <3>2
    <2>3. UsedSockets(to)
        <3>1. CASE s \in Sockets
            <4>1. s \in 1..Len(sockets) /\ InUse(z) /\ z \in SocketSet
                BY <3>1, SocketFacts
            <4>2. b \in SUBSET Calls
                BY <4>1 DEF SocketSet
            <4>3. InUse(x) /\ InUse(y)
                BY <4>1, SocketSends
            <4>4. InUse(o)
                <5> HIDE DEF b, z
                <5>1. QED
                    BY <4>1, <4>2, SocketOpens
            <4> HIDE DEF x, y, o
            <4>5. QED
                BY <1>0, <2>2, <4>1, <4>3, <4>4, SocketKept
        <3>2. CASE s \notin Sockets
            <4>1. to = sockets
                BY <1>0, <2>2, <3>2 DEF Sockets, UsedSockets
            <4>2. QED
                BY <1>0, <4>1
        <3>3. QED
            BY <3>1, <3>2
    <2>4. QED
        BY <2>2, <2>3, FreedKept
<1>5. QED
    BY <1>1, <1>2, <1>3, <1>4 DEF ClientStep

(* The callbacks of a socket.                                              *)
LEMMA SocketStepKept ==
  ASSUME SocketInv, NEW s \in Sockets, SocketStep(s) \/ sockets' = [sockets EXCEPT ![s] = Down(@)]
  PROVE  UsedSockets(sockets')
<1>0. UsedSockets(sockets)
    BY DEF SocketInv
<1> DEFINE z == sockets[s]
<1>1. s \in 1..Len(sockets) /\ z \in SocketSet /\ InUse(z)
    BY SocketFacts
<1>2. CASE OnConnect(s)
    <2>1. PICK r \in z.connect : sockets' = [sockets EXCEPT ![s].state = "open", ![s].closed = FALSE, ![s].connect = {},
                                                            ![s].sent = Append(z.sent, r)]
        BY <1>2 DEF OnConnect
    <2>2. r \in Calls
        BY <1>1, <2>1 DEF SocketSet
    <2> DEFINE x == [z EXCEPT !.state = "open", !.closed = FALSE, !.connect = {}, !.sent = Append(z.sent, r)]
    <2>3. sockets' = [sockets EXCEPT ![s] = x]
        BY <2>1
    <2>4. InUse(x)
        BY <1>1, <2>2, SocketSends
    <2> HIDE DEF x
    <2>5. QED
        BY <1>0, <1>1, <2>3, <2>4, SocketKept
<1>3. CASE ConnectFails(s) \/ OnReadFails(s) \/ sockets' = [sockets EXCEPT ![s] = Down(@)]
    <2>1. sockets' = [sockets EXCEPT ![s] = Down(z)]
        BY <1>3 DEF ConnectFails, OnReadFails
    <2>2. InUse(Down(z))
        BY <1>1, SocketShuts
    <2>3. QED
        BY <1>0, <1>1, <2>1, <2>2, SocketKept
<1>4. ASSUME NEW r \in Calls, OnWriteFails(s, r)
      PROVE  UsedSockets(sockets')
    <2> DEFINE x == [z EXCEPT !.bad = @ \ {r}, !.closed = TRUE]
    <2>1. sockets' = [sockets EXCEPT ![s] = x]
        BY <1>4 DEF OnWriteFails
    <2>2. InUse(x)
        BY <1>1, SocketRefuses
    <2> HIDE DEF x
    <2>3. QED
        BY <1>0, <1>1, <2>1, <2>2, SocketKept
<1>5. QED
    BY <1>2, <1>3, <1>4 DEF SocketStep

-----------------------------------------------------------------------------
(* No worker, no session, no socket at the start.                          *)
LEMMA InitIInv == Init => IInv
<1> SUFFICES ASSUME Init PROVE IInv
    OBVIOUS
<1> USE DEF Init, ClientInit, ServletInit
<1>1. Idle \in Tasks /\ Idle.at = "idle"
    <2>1. <<>> \in Messages /\ "idle" \in Places
        BY DEF Messages, Places
    <2>2. QED
        BY <2>1 DEF Idle, Tasks
<1>2. ServletTypes
    BY <1>1 DEF ServletTypes
<1>3. TableMade /\ RepliesTrue
    BY DEF TableMade, RepliesTrue
<1>4. (\A w \in Workers : Own(w)) /\ SharedSession
    BY <1>1 DEF Own, SharedSession
<1>5. SocketInv
    <2>1. UsedSockets(sockets) /\ connections \in Seq(Nat)
        BY DEF UsedSockets
    <2>2. session \in [Clients -> [up : BOOLEAN, connection : Nat]]
        OBVIOUS
    <2>3. [at |-> "idle", connection |-> 0] \in [at : CallPlaces, connection : Nat]
        BY DEF CallPlaces
    <2>4. call \in [Calls -> [at : CallPlaces, connection : Nat]]
        BY <2>3
    <2>5. QED
        BY <2>1, <2>2, <2>4 DEF SocketInv
<1>6. ReceivedInv
    BY DEF ReceivedInv, Messages
<1>7. QED
    BY <1>2, <1>3, <1>4, <1>5, <1>6 DEF IInv, ServletInv

(* A request that reaches the servlet disturbs no other.                   *)
LEMMA ServeKept ==
  ASSUME IInv, (\E r \in Calls : Serve(r)) \/ (\E r \in Foreign : ServeForeign(r))
  PROVE  IInv'
<1>1. UNCHANGED clientVars
    BY DEF Serve, ServeForeign
<1>2. SocketInv' /\ ReceivedInv'
    BY <1>1 DEF clientVars, IInv, SocketInv, UsedSockets, InUse, ReceivedInv
<1>3. ASSUME NEW r \in Calls, Serve(r)
      PROVE  ServletInv'
    <2>1. r \in Requests /\ IdOf[r] \in Ids \cup {NoId}
        BY HttpRpcAssumption, HttpClientAssumption
    <2>2. PICK w \in Workers : OnRequest(w, r, IdOf[r], TRUE)
        BY <1>3 DEF Serve
    <2>3. QED
        BY <2>1, <2>2, OnRequestKept DEF IInv
<1>4. ASSUME NEW r \in Foreign, ServeForeign(r)
      PROVE  ServletInv'
    <2>1. r \in Requests
        BY HttpRpcAssumption
    <2>2. PICK w \in Workers : OnRequest(w, r, NoId, TRUE) \/ \E id \in Ids : OnRequest(w, r, id, FALSE)
        BY <1>4 DEF ServeForeign
    <2>3. CASE OnRequest(w, r, NoId, TRUE)
        BY <2>1, <2>3, OnRequestKept DEF IInv
    <2>4. ASSUME NEW id \in Ids, OnRequest(w, r, id, FALSE)
          PROVE  ServletInv'
        BY <2>1, <2>4, OnRequestKept DEF IInv
    <2>5. QED
        BY <2>2, <2>3, <2>4
<1>5. QED
    BY <1>2, <1>3, <1>4 DEF IInv

(* The client of a message takes the reply to this message only, and only  *)
(* with the session id.                                                    *)
LEMMA RespondKept ==
  ASSUME IInv, NEW s \in Sockets, NEW r \in Calls, Respond(s, r)
  PROVE  IInv'
<1>3. r \in Requests
    BY HttpRpcAssumption
<1>4. replies[r] # <<>> /\ OnRead(s, r, replies[r][1]) /\ UNCHANGED servletVars
    BY DEF Respond
<1>5. ServletInv'
    BY <1>4 DEF IInv, ServletInv, servletVars, ServletTypes, TableMade, Own, SharedSession, RepliesTrue
<1>6. SocketInv'
    <2>1. /\ sockets' = [sockets EXCEPT ![s] = Down(@)]
          /\ UNCHANGED <<connections, call>>
          /\ session' = session \/ session' = Closed(IdOf[r])
        BY <1>4 DEF OnRead
    <2>2. UsedSockets(sockets')
        BY <2>1, SocketStepKept DEF IInv
    <2>3. session' \in [Clients -> [up : BOOLEAN, connection : Nat]]
        BY <2>1 DEF IInv, SocketInv, Closed
    <2>4. QED
        BY <2>1, <2>2, <2>3 DEF IInv, SocketInv, UsedSockets, InUse
<1>7. ReceivedInv'
    <2>1. /\ received \in [Calls -> Messages]
          /\ \A q \in Calls : received[q] \in {<<>>, <<q, 1>>}
        BY DEF IInv, ReceivedInv
    <2>2. replies[r][1].header => replies[r][1].data \in {<<>>, <<r, 1>>}
        BY <1>3, <1>4 DEF IInv, ServletInv, RepliesTrue
    <2>3. CASE received' = received
        BY <2>1, <2>3 DEF ReceivedInv
    <2>4. CASE received' # received
        <3>1. received' = [received EXCEPT ![r] = replies[r][1].data] /\ replies[r][1].header
            BY <1>4, <2>4 DEF OnRead
        <3>2. replies[r][1].data \in {<<>>, <<r, 1>>} /\ replies[r][1].data \in Messages
            BY <1>3, <2>2, <3>1 DEF Messages
        <3>3. PICK m \in Messages : m = replies[r][1].data
            BY <3>2
        <3>4. received' = [received EXCEPT ![r] = m] /\ m \in {<<>>, <<r, 1>>}
            BY <3>1, <3>2, <3>3
        <3>5. QED
            BY <2>1, <3>4 DEF ReceivedInv
    <2>5. QED
        BY <2>3, <2>4
<1>8. QED
    BY <1>5, <1>6, <1>7 DEF IInv

(* Every step keeps the invariant.                                         *)
LEMMA NextIInv == IInv /\ [Next]_vars => IInv'
<1> SUFFICES ASSUME IInv, [Next]_vars PROVE IInv'
    OBVIOUS
<1>1. CASE ClientSide
    <2>1. ServletInv'
        BY <1>1 DEF ClientSide, IInv, ServletInv, servletVars, ServletTypes, TableMade, Own, SharedSession,
                    RepliesTrue
    <2>2. SocketInv'
        <3>1. ASSUME NEW r \in Calls, ClientStep(r)
              PROVE  SocketInv'
            BY <3>1, ClientStepKept DEF IInv
        <3>2. ASSUME NEW s \in Sockets, SocketStep(s)
              PROVE  SocketInv'
            <4>1. UNCHANGED <<session, connections, call>>
                BY <3>2 DEF SocketStep, OnConnect, ConnectFails, OnReadFails, OnWriteFails
            <4>2. UsedSockets(sockets')
                BY <3>2, SocketStepKept DEF IInv
            <4>3. QED
                BY <4>1, <4>2 DEF IInv, SocketInv, UsedSockets, InUse
        <3>3. QED
            BY <1>1, <3>1, <3>2 DEF ClientSide
    <2>3. received' = received
        BY <1>1 DEF ClientSide, ClientStep, GetConnection, MakeRequest, MakeSocket, Run, Post, SocketStep, OnConnect,
                    ConnectFails, OnReadFails, OnWriteFails
    <2>4. QED
        BY <2>1, <2>2, <2>3 DEF IInv, ReceivedInv
<1>2. CASE ServerSide
    <2>1. ServletInv'
        BY <1>2, ServerSideKept DEF IInv
    <2>2. UNCHANGED clientVars
        BY <1>2 DEF ServerSide
    <2>3. QED
        BY <2>1, <2>2 DEF clientVars, IInv, SocketInv, UsedSockets, InUse, ReceivedInv
<1>3. CASE UNCHANGED vars
    BY <1>3 DEF vars, clientVars, servletVars, IInv, SocketInv, UsedSockets, InUse, ReceivedInv, ServletInv,
                ServletTypes, TableMade, Own, SharedSession, RepliesTrue
<1>4. QED
    BY <1>1, <1>2, <1>3, ServeKept, RespondKept DEF Next

(* The invariant holds in every state of the clients and the servlet.      *)
THEOREM HttpRpcInvariant == Spec => []IInv
<1>1. Init /\ [][Next]_vars => []IInv
    BY InitIInv, NextIInv, PTL
<1>2. QED
    BY <1>1, PTL DEF Spec

(* What a client is given for a message was published first while that     *)
(* message was processed, and every reply is about its own request:        *)
(* Session::OnData keeps responses and exceptions by thread, and forgets   *)
(* what its thread has left before it begins.                              *)
THEOREM RepliesAreOwned == Spec => []RepliesOwned
<1>1. IInv => RepliesOwned
    BY DEF IInv, ServletInv, RepliesTrue, ReceivedInv, RepliesOwned
<1>2. QED
    BY <1>1, HttpRpcInvariant, PTL

(* Two workers never go on with two sessions of one client, unless one of  *)
(* them was taken out of the table meanwhile (Servlet::OnRequest looks     *)
(* again after it made a session).                                         *)
THEOREM SessionIsShared == Spec => []SharedSession
<1>1. IInv => SharedSession
    BY DEF IInv, ServletInv
<1>2. QED
    BY <1>1, HttpRpcInvariant, PTL

(* A socket that a connection would use again is being opened or waits for *)
(* its first response: every response and every error marks it as closed,  *)
(* whoever ran it, posted on it or freed its connection.                   *)
THEOREM SocketsAreInUse == Spec => []SocketsInUse
<1>1. IInv => SocketsInUse
    BY AllInUse DEF IInv
<1>2. QED
    BY <1>1, HttpRpcInvariant, PTL
=============================================================================
