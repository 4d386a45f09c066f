------------------------------ MODULE PSClient ------------------------------
(***************************************************************************)
(* The caller's side of a remote call: PSClient::Send and the response     *)
(* branch of PSClient::ProcessData, above a TCP session and its chain of   *)
(* clients.                                                                *)
(*                                                                         *)
(* Threads: each call is a thread in Send; the io thread reads, writes and *)
(* closes the session; worker threads of ParallelHandler run ProcessData.  *)
(* A call posts its request, then sleeps on m_condVar until its response   *)
(* is in m_responses, the client is marked closed or the time is over.     *)
(* A worker stamps the response, inserts it under m_dataLock and notifies  *)
(* after the lock is released.                                             *)
(*                                                                         *)
(* Closing goes through Client::OnClose, which marks a client at its first *)
(* call and calls Close() only at a later one.  The session tells the      *)
(* chain; only the chain's Close tells the elements, so the first OnClose  *)
(* marks the chain, the second marks PSClient and the third one notifies.  *)
(*                                                                         *)
(* Time is kept as ages and countdowns that stop at Timeout + 1 and 0, so  *)
(* that the clock never runs out of states.  A thread may be delayed for   *)
(* any time between two steps.                                             *)
(***************************************************************************)
EXTENDS Integers

CONSTANTS
  Calls,         \* remote calls; the uuid of the request is the call itself
  Timeout,       \* m_timeout in ticks
  MaxCloseTasks, \* bound: lambdas of Session::CloseMe queued at once
  None           \* m_dataLock is free

ASSUME PSClientAssumption ==
  /\ Timeout \in Nat \ {0}
  /\ MaxCloseTasks \in Nat
  /\ None \notin Calls

VARIABLES
  pc,          \* where each call is in Send
  elapsed,     \* GetCurTime() - t of the call's loop
  left,        \* time until the call's wait_for expires
  lock,        \* the call that holds m_dataLock, or None
  responses,   \* the keys of m_responses
  age,         \* age of the stamp of a response
  msg,         \* where the request, then the response, of a call is
  chainClosed, \* m_makredAsClosed of the chain
  closed,      \* m_makredAsClosed of PSClient and the other elements
  sockOpen,    \* m_socket is open
  reading,     \* an async_read_some is pending
  closeTasks   \* lambdas of Session::CloseMe in the queue of the io thread

vars == <<pc, elapsed, left, lock, responses, age, msg, chainClosed, closed,
          sockOpen, reading, closeTasks>>
session  == <<chainClosed, closed, sockOpen, reading, closeTasks>>
timers   == <<elapsed, left, age>>

-----------------------------------------------------------------------------
Done     == {"ok", "closed", "timeout", "nochannel"}
Locked   == {"check", "block", "finish"}
Steps    == {"idle", "posted", "loop", "enter", "blocked", "woken", "expired"}
              \cup Locked \cup Done
Arrived  == {"stored", "notified"}
Stages   == {"none", "writing", "sent", "queued", "stamped", "lost"} \cup Arrived

TypeOK ==
  /\ pc \in [Calls -> Steps]
  /\ elapsed \in [Calls -> 0..Timeout]
  /\ left \in [Calls -> 0..Timeout]
  /\ lock \in Calls \cup {None}
  /\ responses \in SUBSET Calls
  /\ age \in [Calls -> 0..(Timeout + 1)]
  /\ msg \in [Calls -> Stages]
  /\ chainClosed \in BOOLEAN
  /\ closed \in BOOLEAN
  /\ sockOpen \in BOOLEAN
  /\ reading \in BOOLEAN
  /\ closeTasks \in 0..MaxCloseTasks

Init ==
  /\ pc = [c \in Calls |-> "idle"]
  /\ elapsed = [c \in Calls |-> 0]
  /\ left = [c \in Calls |-> 0]
  /\ lock = None
  /\ responses = {}
  /\ age = [c \in Calls |-> 0]
  /\ msg = [c \in Calls |-> "none"]
  /\ chainClosed = FALSE
  /\ closed = FALSE
  /\ sockOpen = TRUE
  /\ reading = TRUE
  /\ closeTasks = 0

Goto(c, step) == pc' = [pc EXCEPT ![c] = step]

(* m_condVar.notify_all() *)
Notified == [c \in Calls |-> IF pc[c] = "blocked" THEN "woken" ELSE pc[c]]

(* Mutant of Clean: a response of exactly the timeout's age goes too. *)
CleanAtTimeout(R) == {c \in R : age[c] < Timeout}

(* CleanOldResponses: what stays in the table R. *)
Clean(R) == {c \in R : age[c] <= Timeout}

-----------------------------------------------------------------------------
(* PSClient::Send, a step between two points where another thread may run. *)

(* Post: a PSClient marked closed refuses.  Otherwise the buffer goes down *)
(* the chain, whose Post drops it when the chain is marked: ChainClient    *)
(* does not look at the result.                                            *)
Post(c) ==
  /\ pc[c] = "idle"
  /\ IF closed
       THEN Goto(c, "nochannel") /\ UNCHANGED msg
       ELSE /\ Goto(c, "posted")
            /\ msg' = [msg EXCEPT ![c] = IF chainClosed THEN "lost" ELSE "writing"]
  /\ UNCHANGED <<timers, lock, responses, session>>

StartTimer(c) ==
  /\ pc[c] = "posted"
  /\ Goto(c, "loop")
  /\ elapsed' = [elapsed EXCEPT ![c] = 0]
  /\ UNCHANGED <<left, age, lock, responses, msg, session>>

Loop(c) ==
  /\ pc[c] = "loop"
  /\ Goto(c, IF elapsed[c] < Timeout THEN "enter" ELSE "timeout")
  /\ UNCHANGED <<timers, lock, responses, msg, session>>

(* Take m_dataLock and call wait_for, which fixes its deadline. *)
Enter(c) ==
  /\ pc[c] = "enter"
  /\ lock = None
  /\ lock' = c
  /\ left' = [left EXCEPT ![c] = Timeout]
  /\ Goto(c, "check")
  /\ UNCHANGED <<elapsed, age, responses, msg, session>>

(* The predicate of wait_for. *)
Check(c) ==
  /\ pc[c] = "check"
  /\ Goto(c, IF c \in responses \/ closed THEN "finish" ELSE "block")
  /\ UNCHANGED <<timers, lock, responses, msg, session>>

(* Go to sleep and release m_dataLock in one step. *)
Block(c) ==
  /\ pc[c] = "block"
  /\ lock' = None
  /\ Goto(c, "blocked")
  /\ UNCHANGED <<timers, responses, msg, session>>

(* wait_for runs out of time. *)
Expire(c) ==
  /\ pc[c] = "blocked"
  /\ left[c] = 0
  /\ Goto(c, "expired")
  /\ UNCHANGED <<timers, lock, responses, msg, session>>

(* m_dataLock again: after a notification the predicate is evaluated once  *)
(* more, after a timeout its value is the result of wait_for.              *)
Relock(c) ==
  /\ pc[c] \in {"woken", "expired"}
  /\ lock = None
  /\ lock' = c
  /\ Goto(c, IF pc[c] = "woken" THEN "check" ELSE "finish")
  /\ UNCHANGED <<timers, responses, msg, session>>

(* Mutant of Finish: the exception leaves with m_dataLock still taken. *)
FinishKeepsLock(c) ==
  /\ pc[c] = "finish"
  /\ lock' = IF closed THEN lock ELSE None
  /\ \/ closed /\ Goto(c, "closed") /\ UNCHANGED responses
     \/ ~closed /\ c \in responses
          /\ Goto(c, "ok") /\ responses' = Clean(responses \ {c})
     \/ ~closed /\ c \notin responses
          /\ Goto(c, "loop") /\ responses' = Clean(responses)
  /\ UNCHANGED <<timers, msg, session>>

(* Mutant of Finish: any response in the table is taken for the own one. *)
FinishTakesAny(c) ==
  /\ pc[c] = "finish"
  /\ lock' = None
  /\ \/ closed /\ Goto(c, "closed") /\ UNCHANGED responses
     \/ ~closed /\ \E d \in responses :
          Goto(c, "ok") /\ responses' = Clean(responses \ {d})
     \/ ~closed /\ responses = {}
          /\ Goto(c, "loop") /\ UNCHANGED responses
  /\ UNCHANGED <<timers, msg, session>>

(* After wait_for: throw if closed, return the response if it is there,    *)
(* else go round the loop.                                                 *)
Finish(c) ==
  /\ pc[c] = "finish"
  /\ lock' = None
  /\ \/ closed /\ Goto(c, "closed") /\ UNCHANGED responses
     \/ ~closed /\ c \in responses
          /\ Goto(c, "ok") /\ responses' = Clean(responses \ {c})
     \/ ~closed /\ c \notin responses
          /\ Goto(c, "loop") /\ responses' = Clean(responses)
  /\ UNCHANGED <<timers, msg, session>>

Send(c) == \/ Post(c) \/ StartTimer(c) \/ Loop(c) \/ Enter(c) \/ Check(c)
           \/ Block(c) \/ Expire(c) \/ Relock(c) \/ Finish(c)

-----------------------------------------------------------------------------
(* A worker in ProcessData with the response of c.                         *)

(* ParallelHandler::Post and PSClient::OnData drop data once marked        *)
(* closed; otherwise the stamp is taken.                                   *)
Stamp(c) ==
  /\ msg[c] = "queued"
  /\ IF closed
       THEN msg' = [msg EXCEPT ![c] = "lost"] /\ UNCHANGED age
       ELSE /\ msg' = [msg EXCEPT ![c] = "stamped"]
            /\ age' = [age EXCEPT ![c] = 0]
  /\ UNCHANGED <<pc, elapsed, left, lock, responses, session>>

(* Mutant of Insert: the table is written without m_dataLock. *)
InsertUnlocked(c) ==
  /\ msg[c] = "stamped"
  /\ responses' = Clean(responses) \cup {c}
  /\ msg' = [msg EXCEPT ![c] = "stored"]
  /\ UNCHANGED <<pc, timers, lock, session>>

(* Under m_dataLock: clean the table, then insert. *)
Insert(c) ==
  /\ msg[c] = "stamped"
  /\ lock = None
  /\ responses' = Clean(responses) \cup {c}
  /\ msg' = [msg EXCEPT ![c] = "stored"]
  /\ UNCHANGED <<pc, timers, lock, session>>

(* Mutant of Notify: notify_one, which may wake another call. *)
NotifyOne(c) ==
  /\ msg[c] = "stored"
  /\ \/ \E d \in Calls : pc[d] = "blocked" /\ Goto(d, "woken")
     \/ (\A d \in Calls : pc[d] # "blocked") /\ UNCHANGED pc
  /\ msg' = [msg EXCEPT ![c] = "notified"]
  /\ UNCHANGED <<timers, lock, responses, session>>

Notify(c) ==
  /\ msg[c] = "stored"
  /\ pc' = Notified
  /\ msg' = [msg EXCEPT ![c] = "notified"]
  /\ UNCHANGED <<timers, lock, responses, session>>

ProcessResponse(c) == Stamp(c) \/ Insert(c) \/ Notify(c)

(* ProcessData throws (a request for an unknown instance, a broken one):   *)
(* ParallelHandler calls CloseMe, which passes the chain only if nothing   *)
(* is marked, and Session::CloseMe queues its lambda.                      *)
WorkerFails ==
  /\ ~closed /\ ~chainClosed
  /\ closeTasks < MaxCloseTasks
  /\ closeTasks' = closeTasks + 1
  /\ UNCHANGED <<pc, timers, lock, responses, msg, chainClosed, closed,
                 sockOpen, reading>>

-----------------------------------------------------------------------------
(* The io thread.                                                          *)

(* Mutant of DoClose: the first OnClose reaches PSClient, the socket stays *)
(* open until the second.                                                  *)
DoCloseEarly ==
  /\ chainClosed' = TRUE
  /\ closed' = TRUE
  /\ pc' = IF closed THEN Notified ELSE pc
  /\ sockOpen' = (sockOpen /\ ~chainClosed)

(* The lambda of Session::CloseMe: OnClose of the chain (see the head of   *)
(* the module for what each further call does), then close the socket.     *)
DoClose ==
  /\ chainClosed' = TRUE
  /\ closed' = chainClosed
  /\ pc' = IF closed THEN Notified ELSE pc
  /\ sockOpen' = FALSE

RunCloseTask ==
  /\ closeTasks > 0
  /\ closeTasks' = closeTasks - 1
  /\ DoClose
  /\ UNCHANGED <<timers, lock, responses, msg, reading>>

(* async_write of a request completes; an error closes the session.        *)
Write(c) ==
  /\ msg[c] = "writing"
  /\ \/ /\ sockOpen
        /\ msg' = [msg EXCEPT ![c] = "sent"]
        /\ UNCHANGED <<pc, chainClosed, closed, sockOpen>>
     \/ /\ msg' = [msg EXCEPT ![c] = "lost"]
        /\ DoClose
  /\ UNCHANGED <<timers, lock, responses, reading, closeTasks>>

(* The response of c is read and goes up the chain to ParallelHandler; a   *)
(* marked chain drops it.                                                  *)
Read(c) ==
  /\ msg[c] = "sent"
  /\ reading /\ sockOpen
  /\ msg' = [msg EXCEPT ![c] = IF chainClosed THEN "lost" ELSE "queued"]
  /\ UNCHANGED <<pc, timers, lock, responses, session>>

(* The read ends with an error: the peer has gone, or the socket was       *)
(* closed here and the pending read is aborted.  No other read follows.    *)
ReadEnds ==
  /\ reading
  /\ reading' = FALSE
  /\ DoClose
  /\ UNCHANGED <<timers, lock, responses, msg, closeTasks>>

ReadEof     == sockOpen /\ ReadEnds
ReadAborted == ~sockOpen /\ ReadEnds

-----------------------------------------------------------------------------
(* One tick of the clock, no thread moving.  A value nobody will read any  *)
(* more is left as it is.                                                  *)
Sending == {c \in Calls : pc[c] \notin {"idle", "posted"} \cup Done}
Waiting == {c \in Calls : pc[c] \in {"blocked", "woken", "check", "block"}}
Aging   == {c \in Calls : msg[c] = "stamped"} \cup responses

Tick ==
  /\ elapsed' = [c \in Calls |-> IF c \in Sending /\ elapsed[c] < Timeout
                                  THEN elapsed[c] + 1 ELSE elapsed[c]]
  /\ left' = [c \in Calls |-> IF c \in Waiting /\ left[c] > 0
                               THEN left[c] - 1 ELSE left[c]]
  /\ age' = [c \in Calls |-> IF c \in Aging /\ age[c] <= Timeout
                              THEN age[c] + 1 ELSE age[c]]
  /\ UNCHANGED <<pc, lock, responses, msg, session>>

Next ==
  \/ \E c \in Calls : Send(c) \/ ProcessResponse(c) \/ Write(c) \/ Read(c)
  \/ WorkerFails
  \/ RunCloseTask
  \/ ReadEof
  \/ ReadAborted
  \/ Tick

(* Every thread that can run runs; nothing is assumed of the peer.  In     *)
(* Spec nothing is assumed of the clock either: what Spec makes happen     *)
(* happens without the help of a timeout.                                  *)
Spec ==
  /\ Init /\ [][Next]_vars
  /\ \A c \in Calls :
       /\ WF_vars(pc[c] # "idle" /\ Send(c))
       /\ WF_vars(ProcessResponse(c))
       /\ WF_vars(Write(c))
  /\ WF_vars(RunCloseTask)
  /\ WF_vars(ReadAborted)

-----------------------------------------------------------------------------
(* No wake-up is lost: when a call sleeps in Send although its response is *)
(* in m_responses, the worker that put it there has its notify_all still   *)
(* to do.  It rests on the lock that covers predicate and sleep on one     *)
(* side (Send) and the insertion on the other (ProcessData).               *)
NoLostWakeup ==
  \A c \in Calls : pc[c] = "blocked" /\ c \in responses => msg[c] = "stored"

(* CleanOldResponses, called by any other call or worker, never discards a *)
(* response younger than the timeout that its own call has not taken.      *)
NoEarlyDiscard ==
  \A c \in Calls :
    msg[c] \in Arrived /\ pc[c] \notin Done /\ age[c] <= Timeout
      => c \in responses

(* A PSClient that reports closed has no socket any more: Send never       *)
(* throws "closed" while the session could still carry its response.       *)
ClosedIsShut == closed => ~sockOpen /\ chainClosed

(* A stored response ends its call even if the clock stands still, by the  *)
(* notification and not by the timer of wait_for, unless it gets too old   *)
(* and is discarded first.                                                 *)
PromptDelivery ==
  \A c \in Calls :
    c \in responses ~> pc[c] \in Done \/ c \notin responses

(* Send as RemoteCall: a call ends once, with the response or an exception, *)
(* and with the response only if the peer gave it.                         *)
StateOf(c) ==
  CASE pc[c] = "idle" -> "idle"
    [] pc[c] = "ok" -> "ok"
    [] pc[c] \in Done \ {"ok"} -> "failed"
    [] OTHER -> IF msg[c] \in Arrived THEN "answered" ELSE "pending"
Call == INSTANCE RemoteCall WITH st <- [c \in Calls |-> StateOf(c)]
ImplementsRemoteCall == Call!Spec

(* If the clock goes on, every call comes to its end (the timeout of Send), *)
(* whatever becomes of the request, the response, the chain and the socket. *)
CallsEnd ==
  WF_vars(Tick) => \A c \in Calls : pc[c] # "idle" ~> pc[c] \in Done
=============================================================================
