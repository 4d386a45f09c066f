------------------------------- MODULE Servlet ------------------------------
(***************************************************************************)
(* Http::Detail::Servlet: the handler that gives each client of RPC over   *)
(* HTTP a session of its own, by the identifier in a header.  Workers of   *)
(* the server run OnRequest at the same time; the client chain of a        *)
(* session runs inside OnData and publishes its answer under the id of the *)
(* thread.  A timer removes the sessions that are expired.                 *)
(*                                                                         *)
(* Data published while request r is processed is <<r, k>>, the k-th of it,*)
(* and <<r, 0>> the message of the exception it ended with.               *)
(***************************************************************************)
EXTENDS Integers, Sequences

CONSTANTS
    Workers,         \* threads of the HTTP server
    Requests,        \* bound: the requests that are made
    Ids,             \* identifiers of clients
    SessionTimeout,  \* m_sessionTimeout, in ticks of the clock
    MaxTime,         \* bound: the clock
    MaxObjects       \* bound: sessions made

ASSUME ServletAssumption == {SessionTimeout, MaxTime, MaxObjects} \subseteq Nat

VARIABLES
    now,      \* std::time
    objects,  \* the sessions made, in turn
    table,    \* m_sessions: the session of each id, 0 for none
    erased,   \* history: the sessions taken out of m_sessions
    worker,   \* what each worker does
    replies   \* the replies given, <<>> for none yet

servletVars == <<now, objects, table, erased, worker, replies>>

NoId == "none"
Idle == [at |-> "idle", req |-> <<>>, id |-> NoId, data |-> FALSE, obj |-> 0, count |-> 0, result |-> <<>>]
NewObject == [close |-> FALSE, stamp |-> now,
              responses |-> [w \in Workers |-> <<>>], exceptions |-> [w \in Workers |-> <<>>]]

ServletInit ==
    /\ now = 0
    /\ objects = <<>>
    /\ table = [i \in Ids |-> 0]
    /\ erased = {}
    /\ worker = [w \in Workers |-> Idle]
    /\ replies = [r \in Requests |-> <<>>]

Goto(w, at) == worker' = [worker EXCEPT ![w].at = at]

\* A request reaches a worker; data tells whether it has a body.
OnRequest(w, r, id, data) ==
    /\ worker[w].at = "idle"
    /\ worker' = [worker EXCEPT ![w] = [Idle EXCEPT !.at = "find", !.req = <<r>>, !.id = id, !.data = data]]
    /\ UNCHANGED <<now, objects, table, erased, replies>>

\* The header is read and the session looked up under m_lock.
FindSession(w) ==
    /\ worker[w].at = "find"
    /\ IF worker[w].id = NoId THEN Goto(w, "failed")
       ELSE IF table[worker[w].id] = 0 THEN Goto(w, "make")
       ELSE worker' = [worker EXCEPT ![w].at = "data", ![w].obj = table[worker[w].id]]
    /\ UNCHANGED <<now, objects, table, erased, replies>>

\* A session is made without the lock; the factory may throw.
MakeSession(w) ==
    /\ worker[w].at = "make"
    /\ \/ /\ Len(objects) < MaxObjects
          /\ objects' = Append(objects, NewObject)
          /\ worker' = [worker EXCEPT ![w].at = "insert", ![w].obj = Len(objects) + 1]
       \/ Goto(w, "failed") /\ UNCHANGED objects
    /\ UNCHANGED <<now, table, erased, replies>>

\* Mutant of InsertSession: the worker goes on with the session it made.
InsertSessionOwn(w) ==
    /\ worker[w].at = "insert"
    /\ table' = [table EXCEPT ![worker[w].id] = IF @ = 0 THEN worker[w].obj ELSE @]
    /\ Goto(w, "data")
    /\ UNCHANGED <<now, objects, erased, replies>>

\* The table is looked at again: who comes second takes the session of the
\* first.
InsertSession(w) ==
    /\ worker[w].at = "insert"
    /\ LET there == table[worker[w].id]
       IN  IF there # 0
           THEN worker' = [worker EXCEPT ![w].at = "data", ![w].obj = there] /\ UNCHANGED table
           ELSE Goto(w, "data") /\ table' = [table EXCEPT ![worker[w].id] = worker[w].obj]
    /\ UNCHANGED <<now, objects, erased, replies>>

\* A request without data is refused; Session::OnData forgets the response and
\* the exception that its thread may have left.
BeginData(w) ==
    /\ worker[w].at = "data"
    /\ IF worker[w].data
       THEN /\ Goto(w, "running")
            /\ objects' = [objects EXCEPT ![worker[w].obj].responses[w] = <<>>,
                                          ![worker[w].obj].exceptions[w] = <<>>]
       ELSE Goto(w, "failed") /\ UNCHANGED objects
    /\ UNCHANGED <<now, table, erased, replies>>

\* The chain publishes: the first publication of the thread is kept.
Publish(w) ==
    LET data == <<worker[w].req[1], worker[w].count + 1>>
    IN  /\ worker[w].at = "running" /\ worker[w].count < 2
        /\ worker' = [worker EXCEPT ![w].count = @ + 1]
        /\ objects' = [objects EXCEPT ![worker[w].obj].responses[w] = IF @ = <<>> THEN data ELSE @]
        /\ UNCHANGED <<now, table, erased, replies>>

\* The chain asks to be closed.
CloseSession(w) ==
    /\ worker[w].at = "running"
    /\ objects' = [objects EXCEPT ![worker[w].obj].close = TRUE]
    /\ UNCHANGED <<now, table, erased, worker, replies>>

\* Mutant of EndData: the first response in the map is taken.
EndDataFirst(w) ==
    LET o == worker[w].obj
        v == CHOOSE u \in Workers : objects[o].responses[u] # <<>> \/ objects[o].responses = [x \in Workers |-> <<>>]
    IN  /\ worker[w].at = "running"
        /\ worker' = [worker EXCEPT ![w].at = "answer", ![w].result = objects[o].responses[v]]
        /\ objects' = [objects EXCEPT ![o].stamp = now, ![o].responses[v] = <<>>]
        /\ UNCHANGED <<now, table, erased, replies>>

\* OnData of the chain has returned: the time is noted and the response taken.
EndData(w) ==
    LET o == worker[w].obj
    IN  /\ worker[w].at = "running"
        /\ worker' = [worker EXCEPT ![w].at = "answer", ![w].result = objects[o].responses[w]]
        /\ objects' = [objects EXCEPT ![o].stamp = now, ![o].responses[w] = <<>>]
        /\ UNCHANGED <<now, table, erased, replies>>

\* OnData of the chain throws: the exception is kept for the thread, unless
\* there is one, the response is dropped and the session asked to close.
DataThrows(w) ==
    LET o == worker[w].obj
    IN  /\ worker[w].at = "running"
        /\ Goto(w, "answer")
        /\ objects' = [objects EXCEPT
                        ![o].close = TRUE, ![o].responses[w] = <<>>,
                        ![o].exceptions[w] = IF @ = <<>> THEN worker[w].req ELSE @]
        /\ UNCHANGED <<now, table, erased, replies>>

Reply(w, header, data) ==
    /\ worker' = [worker EXCEPT ![w] = Idle]
    /\ replies' = [replies EXCEPT ![worker[w].req[1]] = <<[header |-> header, data |-> data]>>]

\* The reply carries the session id, or the exception is rethrown, or the
\* session is to be closed and the reply has no session id.  (The place of the
\* exception in the map stays until the next OnData of the thread, which erases
\* it before it is looked at.)
Answer(w) ==
    LET o == worker[w].obj
    IN  /\ worker[w].at = "answer"
        /\ IF objects[o].close /\ objects[o].exceptions[w] # <<>>
           THEN /\ worker' = [worker EXCEPT ![w].at = "failed", ![w].result = objects[o].exceptions[w]]
                /\ objects' = [objects EXCEPT ![o].exceptions[w] = <<>>]
                /\ UNCHANGED replies
           ELSE Reply(w, ~objects[o].close, worker[w].result) /\ UNCHANGED objects
        /\ UNCHANGED <<now, table, erased>>

\* The handlers of exceptions: RemoveSession takes out whatever session has
\* the id now, and the reply is an error, with the message of the exception.
RemoveSession(w) ==
    LET i == worker[w].id
    IN  /\ worker[w].at = "failed"
        /\ IF i # NoId
           THEN table' = [table EXCEPT ![i] = 0] /\ erased' = erased \union ({table[i]} \ {0})
           ELSE UNCHANGED <<table, erased>>
        /\ Reply(w, FALSE, <<IF worker[w].result = <<>> THEN worker[w].req[1] ELSE worker[w].result[1], 0>>)
        /\ UNCHANGED <<now, objects>>

Expired(o) == objects[o].close \/ now - objects[o].stamp >= SessionTimeout

\* OnCleaner: under m_lock all expired sessions go, one in use too.
OnCleaner ==
    LET old == {i \in Ids : table[i] # 0 /\ Expired(table[i])}
    IN  /\ old # {}
        /\ table' = [i \in Ids |-> IF i \in old THEN 0 ELSE table[i]]
        /\ erased' = erased \union {table[i] : i \in old}
        /\ UNCHANGED <<now, objects, worker, replies>>

Tick ==
    /\ now < MaxTime
    /\ now' = now + 1
    /\ UNCHANGED <<objects, table, erased, worker, replies>>

\* What a worker does without being given a new request.
WorkerStep(w) ==
    \/ FindSession(w) \/ MakeSession(w) \/ InsertSession(w) \/ BeginData(w) \/ Publish(w) \/ CloseSession(w)
    \/ EndData(w) \/ DataThrows(w) \/ Answer(w) \/ RemoveSession(w)

-----------------------------------------------------------------------------
\* The session a worker uses is the one in the table, or one that was taken out
\* of it: two first requests of a client never go on with two sessions, each
\* with objects the other does not have.
SharedSession ==
    \A w \in Workers :
        worker[w].at \in {"data", "running", "answer"} =>
            worker[w].obj = table[worker[w].id] \/ worker[w].obj \in erased
=============================================================================
