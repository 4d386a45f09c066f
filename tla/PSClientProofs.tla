--------------------------- MODULE PSClientProofs ---------------------------
(***************************************************************************)
(* Proofs about PSClient for every set of concurrent calls and every       *)
(* timeout: no wake-up is lost, no young response is discarded, a closed   *)
(* client has no socket, and Send implements RemoteCall.  That every call  *)
(* ends is liveness and is left to TLC.                                    *)
(***************************************************************************)
EXTENDS PSClient, TLAPS

(* m_dataLock belongs to the call that is between Enter or Relock and      *)
(* Block or Finish.                                                        *)
LockOwner == \A c \in Calls : pc[c] \in Locked <=> lock = c

(* What is in the table has come through ProcessData. *)
TableArrived == \A c \in responses : msg[c] \in Arrived

(* Between the predicate and the sleep nothing enters the table. *)
BlockUnanswered == \A c \in Calls : pc[c] = "block" => c \notin responses

(* The chain is marked no earlier than PSClient and no later than the      *)
(* socket is closed.                                                       *)
CloseOrder == (closed => chainClosed) /\ (chainClosed => ~sockOpen)

(* Nothing is under way for a call that has not been made. *)
IdleUnsent == \A c \in Calls : pc[c] = "idle" => msg[c] = "none"

(* The inductive invariant. *)
IInv ==
  /\ TypeOK
  /\ LockOwner
  /\ TableArrived
  /\ BlockUnanswered
  /\ NoLostWakeup
  /\ NoEarlyDiscard
  /\ CloseOrder
  /\ IdleUnsent

USE DEF Goto, Done, Locked, Arrived

(* A client that has just been made satisfies the invariant. *)
LEMMA InitIInv == Init => IInv
<1> SUFFICES ASSUME Init PROVE IInv
  OBVIOUS
<1> USE PSClientAssumption DEF Init
<1>1. TypeOK
  <2>1. pc \in [Calls -> Steps] /\ msg \in [Calls -> Stages]
    BY DEF Steps, Stages
  <2>2. /\ elapsed \in [Calls -> 0..Timeout] /\ left \in [Calls -> 0..Timeout]
        /\ age \in [Calls -> 0..(Timeout + 1)]
    OBVIOUS
  <2>3. closeTasks \in 0..MaxCloseTasks
    OBVIOUS
  <2>4. QED
    BY <2>1, <2>2, <2>3 DEF TypeOK
<1>2. LockOwner /\ TableArrived /\ BlockUnanswered /\ IdleUnsent
  BY DEF LockOwner, TableArrived, BlockUnanswered, IdleUnsent
<1>3. NoLostWakeup /\ NoEarlyDiscard /\ CloseOrder
  BY DEF NoLostWakeup, NoEarlyDiscard, CloseOrder
<1>4. QED
  BY <1>1, <1>2, <1>3 DEF IInv

-----------------------------------------------------------------------------
(* Closing the session keeps the types of what it changes. *)
LEMMA DoCloseType ==
  ASSUME TypeOK, DoClose
  PROVE  /\ pc' \in [Calls -> Steps]
         /\ chainClosed' \in BOOLEAN /\ closed' \in BOOLEAN /\ sockOpen' \in BOOLEAN
<1>1. Notified \in [Calls -> Steps]
  BY DEF TypeOK, Notified, Steps
<1>2. pc' \in [Calls -> Steps]
  BY <1>1 DEF TypeOK, DoClose
<1>3. QED
  BY <1>2 DEF TypeOK, DoClose

(* The type invariant, action by action. *)
LEMMA TypeStep == TypeOK /\ [Next]_vars => TypeOK'
<1> SUFFICES ASSUME TypeOK, [Next]_vars PROVE TypeOK'
  OBVIOUS
<1> USE PSClientAssumption DEF TypeOK, session, timers
<1>1. ASSUME NEW c \in Calls, Send(c) PROVE TypeOK'
  <2>1. CASE Post(c)
    BY <2>1 DEF Post, Steps, Stages
  <2>2. CASE StartTimer(c)
    BY <2>2 DEF StartTimer, Steps
  <2>3. CASE Loop(c)
    BY <2>3 DEF Loop, Steps
  <2>4. CASE Enter(c)
    BY <2>4 DEF Enter, Steps
  <2>5. CASE Check(c)
    BY <2>5 DEF Check, Steps
  <2>6. CASE Block(c)
    BY <2>6 DEF Block, Steps
  <2>7. CASE Expire(c)
    BY <2>7 DEF Expire, Steps
  <2>8. CASE Relock(c)
    BY <2>8 DEF Relock, Steps
  <2>9. CASE Finish(c)
    BY <2>9 DEF Finish, Clean, Steps
  <2>10. QED
    BY <1>1, <2>1, <2>2, <2>3, <2>4, <2>5, <2>6, <2>7, <2>8, <2>9 DEF Send
<1>2. ASSUME NEW c \in Calls, ProcessResponse(c) PROVE TypeOK'
  <2>1. CASE Stamp(c)
    BY <2>1 DEF Stamp, Stages
  <2>2. CASE Insert(c)
    BY <2>2 DEF Insert, Clean, Stages
  <2>3. CASE Notify(c)
    BY <2>3 DEF Notify, Notified, Steps, Stages
  <2>4. QED
    BY <1>2, <2>1, <2>2, <2>3 DEF ProcessResponse
<1>3. ASSUME NEW c \in Calls, Write(c) PROVE TypeOK'
  <2>1. msg' \in [Calls -> Stages]
    BY <1>3 DEF Write, Stages
  <2>2. CASE DoClose
    BY <1>3, <2>1, <2>2, DoCloseType DEF Write
  <2>3. CASE UNCHANGED <<pc, chainClosed, closed, sockOpen>>
    BY <1>3, <2>1, <2>3 DEF Write
  <2>4. QED
    BY <1>3, <2>2, <2>3 DEF Write
<1>4. ASSUME NEW c \in Calls, Read(c) PROVE TypeOK'
  BY <1>4 DEF Read, Stages
<1>5. CASE WorkerFails
  BY <1>5 DEF WorkerFails
<1>6. CASE RunCloseTask
  <2>1. closeTasks' \in 0..MaxCloseTasks
    BY <1>6 DEF RunCloseTask
  <2>2. QED
    BY <1>6, <2>1, DoCloseType DEF RunCloseTask
<1>7. CASE ReadEof \/ ReadAborted
  BY <1>7, DoCloseType DEF ReadEof, ReadAborted, ReadEnds
<1>8. CASE Tick
  BY <1>8 DEF Tick
<1>9. CASE UNCHANGED vars
  BY <1>9 DEF vars
<1>10. QED
  BY <1>1, <1>2, <1>3, <1>4, <1>5, <1>6, <1>7, <1>8, <1>9 DEF Next

-----------------------------------------------------------------------------
(* The rest of the invariant, action by action.  Safe names it.            *)
Safe ==
  /\ LockOwner
  /\ TableArrived
  /\ BlockUnanswered
  /\ NoLostWakeup
  /\ NoEarlyDiscard
  /\ CloseOrder
  /\ IdleUnsent

(* A step of Send.  Only Finish takes entries out of the table: its own,   *)
(* and those that are too old; only Check decides to sleep.                *)
LEMMA SendSafe ==
  ASSUME IInv, TypeOK', NEW c \in Calls, Send(c)
  PROVE  Safe'
<1> USE PSClientAssumption DEF IInv, TypeOK, session, timers
<1>1. CASE Post(c)
  <2> USE <1>1 DEF Post
  <2>1. LockOwner'
    BY DEF LockOwner
  <2>2. TableArrived' /\ IdleUnsent'
    BY DEF TableArrived, IdleUnsent
  <2>3. BlockUnanswered' /\ NoLostWakeup'
    BY DEF BlockUnanswered, NoLostWakeup, LockOwner
  <2>4. NoEarlyDiscard' /\ CloseOrder'
    BY DEF NoEarlyDiscard, CloseOrder
  <2>5. QED
    BY <2>1, <2>2, <2>3, <2>4 DEF Safe
<1>2. CASE StartTimer(c)
  <2> USE <1>2 DEF StartTimer
  <2>1. LockOwner'
    BY DEF LockOwner
  <2>2. TableArrived' /\ IdleUnsent'
    BY DEF TableArrived, IdleUnsent
  <2>3. BlockUnanswered' /\ NoLostWakeup'
    BY DEF BlockUnanswered, NoLostWakeup, LockOwner
  <2>4. NoEarlyDiscard' /\ CloseOrder'
    BY DEF NoEarlyDiscard, CloseOrder
  <2>5. QED
    BY <2>1, <2>2, <2>3, <2>4 DEF Safe
<1>3. CASE Loop(c)
  <2> USE <1>3 DEF Loop
  <2>1. LockOwner'
    BY DEF LockOwner
  <2>2. TableArrived' /\ IdleUnsent'
    BY DEF TableArrived, IdleUnsent
  <2>3. BlockUnanswered' /\ NoLostWakeup'
    BY DEF BlockUnanswered, NoLostWakeup, LockOwner
  <2>4. NoEarlyDiscard' /\ CloseOrder'
    BY DEF NoEarlyDiscard, CloseOrder
  <2>5. QED
    BY <2>1, <2>2, <2>3, <2>4 DEF Safe
<1>4. CASE Enter(c)
  <2> USE <1>4 DEF Enter
  <2>1. LockOwner'
    BY DEF LockOwner
  <2>2. TableArrived' /\ IdleUnsent'
    BY DEF TableArrived, IdleUnsent
  <2>3. BlockUnanswered' /\ NoLostWakeup'
    BY DEF BlockUnanswered, NoLostWakeup, LockOwner
  <2>4. NoEarlyDiscard' /\ CloseOrder'
    BY DEF NoEarlyDiscard, CloseOrder
  <2>5. QED
    BY <2>1, <2>2, <2>3, <2>4 DEF Safe
<1>5. CASE Check(c)
  <2> USE <1>5 DEF Check
  <2>1. LockOwner'
    BY DEF LockOwner
  <2>2. TableArrived' /\ IdleUnsent'
    BY DEF TableArrived, IdleUnsent
  <2>3. BlockUnanswered' /\ NoLostWakeup'
    BY DEF BlockUnanswered, NoLostWakeup, LockOwner
  <2>4. NoEarlyDiscard' /\ CloseOrder'
    BY DEF NoEarlyDiscard, CloseOrder
  <2>5. QED
    BY <2>1, <2>2, <2>3, <2>4 DEF Safe
<1>6. CASE Block(c)
  <2> USE <1>6 DEF Block
  <2>1. LockOwner'
    BY DEF LockOwner
  <2>2. TableArrived' /\ IdleUnsent'
    BY DEF TableArrived, IdleUnsent
  <2>3. BlockUnanswered' /\ NoLostWakeup'
    BY DEF BlockUnanswered, NoLostWakeup, LockOwner
  <2>4. NoEarlyDiscard' /\ CloseOrder'
    BY DEF NoEarlyDiscard, CloseOrder
  <2>5. QED
    BY <2>1, <2>2, <2>3, <2>4 DEF Safe
<1>7. CASE Expire(c)
  <2> USE <1>7 DEF Expire
  <2>1. LockOwner'
    BY DEF LockOwner
  <2>2. TableArrived' /\ IdleUnsent'
    BY DEF TableArrived, IdleUnsent
  <2>3. BlockUnanswered' /\ NoLostWakeup'
    BY DEF BlockUnanswered, NoLostWakeup, LockOwner
  <2>4. NoEarlyDiscard' /\ CloseOrder'
    BY DEF NoEarlyDiscard, CloseOrder
  <2>5. QED
    BY <2>1, <2>2, <2>3, <2>4 DEF Safe
<1>8. CASE Relock(c)
  <2> USE <1>8 DEF Relock
  <2>1. LockOwner'
    BY DEF LockOwner
  <2>2. TableArrived' /\ IdleUnsent'
    BY DEF TableArrived, IdleUnsent
  <2>3. BlockUnanswered' /\ NoLostWakeup'
    BY DEF BlockUnanswered, NoLostWakeup, LockOwner
  <2>4. NoEarlyDiscard' /\ CloseOrder'
    BY DEF NoEarlyDiscard, CloseOrder
  <2>5. QED
    BY <2>1, <2>2, <2>3, <2>4 DEF Safe
<1>9. CASE Finish(c)
  <2> USE <1>9 DEF Finish, Clean
  <2>1. LockOwner'
    BY DEF LockOwner
  <2>2. TableArrived' /\ IdleUnsent'
    BY DEF TableArrived, IdleUnsent
  <2>3. BlockUnanswered' /\ NoLostWakeup'
    BY DEF BlockUnanswered, NoLostWakeup, LockOwner
  <2>4. NoEarlyDiscard' /\ CloseOrder'
    BY DEF NoEarlyDiscard, CloseOrder
  <2>5. QED
    BY <2>1, <2>2, <2>3, <2>4 DEF Safe
<1>10. QED
  BY <1>1, <1>2, <1>3, <1>4, <1>5, <1>6, <1>7, <1>8, <1>9 DEF Send

(* A step of a worker.  Insert needs m_dataLock, so no call is between its *)
(* predicate and its sleep; Notify leaves nobody asleep.                   *)
LEMMA ProcessResponseSafe ==
  ASSUME IInv, TypeOK', NEW c \in Calls, ProcessResponse(c)
  PROVE  Safe'
<1> USE PSClientAssumption DEF IInv, TypeOK, session, timers
<1>1. CASE Stamp(c)
  <2> USE <1>1 DEF Stamp
  <2>1. LockOwner'
    BY DEF LockOwner
  <2>2. TableArrived' /\ IdleUnsent'
    BY DEF TableArrived, IdleUnsent
  <2>3. BlockUnanswered' /\ NoLostWakeup'
    BY DEF BlockUnanswered, NoLostWakeup, LockOwner, TableArrived
  <2>4. NoEarlyDiscard' /\ CloseOrder'
    BY DEF NoEarlyDiscard, CloseOrder
  <2>5. QED
    BY <2>1, <2>2, <2>3, <2>4 DEF Safe
<1>2. CASE Insert(c)
  <2> USE <1>2 DEF Insert, Clean
  <2>1. LockOwner'
    BY DEF LockOwner
  <2>2. TableArrived' /\ IdleUnsent'
    BY DEF TableArrived, IdleUnsent
  <2>3. BlockUnanswered' /\ NoLostWakeup'
    BY DEF BlockUnanswered, NoLostWakeup, LockOwner, TableArrived
  <2>4. NoEarlyDiscard' /\ CloseOrder'
    BY DEF NoEarlyDiscard, CloseOrder
  <2>5. QED
    BY <2>1, <2>2, <2>3, <2>4 DEF Safe
<1>3. CASE Notify(c)
  <2> USE <1>3 DEF Notify, Notified
  <2>1. LockOwner'
    BY DEF LockOwner
  <2>2. TableArrived' /\ IdleUnsent'
    BY DEF TableArrived, IdleUnsent
  <2>3. BlockUnanswered' /\ NoLostWakeup'
    BY DEF BlockUnanswered, NoLostWakeup, LockOwner, TableArrived
  <2>4. NoEarlyDiscard' /\ CloseOrder'
    BY DEF NoEarlyDiscard, CloseOrder
  <2>5. QED
    BY <2>1, <2>2, <2>3, <2>4 DEF Safe
<1>4. QED
  BY <1>1, <1>2, <1>3 DEF ProcessResponse

(* Closing the session, with the messages of no call or of one lost: it    *)
(* may wake calls but puts none to sleep.                                  *)
LEMMA DoCloseSafe ==
  ASSUME IInv, TypeOK', DoClose, UNCHANGED <<timers, lock, responses>>,
         \A c \in Calls : msg'[c] = msg[c] \/ (msg[c] = "writing" /\ msg'[c] \in {"sent", "lost"})
  PROVE  Safe'
<1> USE DEF IInv, TypeOK, timers, DoClose, Notified
<1>1. \A c \in Calls : pc'[c] = pc[c] \/ (pc[c] = "blocked" /\ pc'[c] = "woken")
  OBVIOUS
<1>2. LockOwner'
  BY <1>1 DEF LockOwner
<1>3. TableArrived' /\ IdleUnsent'
  BY <1>1 DEF TableArrived, IdleUnsent
<1>4. BlockUnanswered' /\ NoLostWakeup'
  BY <1>1 DEF BlockUnanswered, NoLostWakeup, TableArrived
<1>5. NoEarlyDiscard'
  BY <1>1 DEF NoEarlyDiscard
<1>6. CloseOrder'
  BY DEF CloseOrder
<1>7. QED
  BY <1>2, <1>3, <1>4, <1>5, <1>6 DEF Safe

(* A step of the io thread, a failing worker or the clock. *)
LEMMA OtherSafe ==
  ASSUME IInv, TypeOK',
         \/ \E c \in Calls : Write(c) \/ Read(c)
         \/ WorkerFails \/ RunCloseTask \/ ReadEof \/ ReadAborted \/ Tick
         \/ UNCHANGED vars
  PROVE  Safe'
<1>1. ASSUME NEW c \in Calls, Write(c) PROVE Safe'
  <2>1. CASE DoClose
    <3>1. \A d \in Calls : \/ msg'[d] = msg[d]
                           \/ msg[d] = "writing" /\ msg'[d] \in {"sent", "lost"}
      BY <1>1 DEF Write, IInv, TypeOK
    <3>2. QED
      BY <1>1, <2>1, <3>1, DoCloseSafe DEF Write
  <2>2. CASE UNCHANGED <<pc, chainClosed, closed, sockOpen>>
    <3> USE <1>1, <2>2 DEF Write, IInv, TypeOK, session, timers
    <3>1. LockOwner' /\ TableArrived' /\ IdleUnsent'
      BY DEF LockOwner, TableArrived, IdleUnsent
    <3>2. BlockUnanswered' /\ NoLostWakeup'
      BY DEF BlockUnanswered, NoLostWakeup, TableArrived
    <3>3. NoEarlyDiscard' /\ CloseOrder'
      BY DEF NoEarlyDiscard, CloseOrder
    <3>4. QED
      BY <3>1, <3>2, <3>3 DEF Safe
  <2>3. QED
    BY <1>1, <2>1, <2>2 DEF Write
<1>2. ASSUME NEW c \in Calls, Read(c) PROVE Safe'
  <2> USE <1>2 DEF Read, IInv, TypeOK, session, timers
  <2>1. LockOwner' /\ TableArrived' /\ IdleUnsent'
    BY DEF LockOwner, TableArrived, IdleUnsent
  <2>2. BlockUnanswered' /\ NoLostWakeup'
    BY DEF BlockUnanswered, NoLostWakeup, TableArrived
  <2>3. NoEarlyDiscard' /\ CloseOrder'
    BY DEF NoEarlyDiscard, CloseOrder
  <2>4. QED
    BY <2>1, <2>2, <2>3 DEF Safe
<1>3. CASE RunCloseTask
  BY <1>3, DoCloseSafe DEF RunCloseTask
<1>4. CASE ReadEof \/ ReadAborted
  BY <1>4, DoCloseSafe DEF ReadEof, ReadAborted, ReadEnds
<1>5. CASE WorkerFails \/ UNCHANGED vars
  BY <1>5 DEF WorkerFails, vars, timers, IInv, Safe, LockOwner, TableArrived, BlockUnanswered,
              NoLostWakeup, NoEarlyDiscard, CloseOrder, IdleUnsent
<1>6. CASE Tick
  <2> USE <1>6, PSClientAssumption DEF Tick, IInv, TypeOK, session
  <2>1. LockOwner' /\ TableArrived' /\ BlockUnanswered' /\ NoLostWakeup'
    BY DEF LockOwner, TableArrived, BlockUnanswered, NoLostWakeup
  <2>2. CloseOrder' /\ IdleUnsent'
    BY DEF CloseOrder, IdleUnsent
  <2>3. \A c \in Calls : age'[c] <= Timeout => age[c] <= Timeout
    OBVIOUS
  <2>4. NoEarlyDiscard'
    BY <2>3 DEF NoEarlyDiscard
  <2>5. QED
    BY <2>1, <2>2, <2>4 DEF Safe
<1>7. QED
  BY <1>1, <1>2, <1>3, <1>4, <1>5, <1>6

(* Every step preserves the invariant. *)
LEMMA NextIInv == IInv /\ [Next]_vars => IInv'
<1> SUFFICES ASSUME IInv, [Next]_vars PROVE IInv'
  OBVIOUS
<1>1. TypeOK'
  BY TypeStep DEF IInv
<1>2. Safe'
  BY <1>1, SendSafe, ProcessResponseSafe, OtherSafe DEF Next
<1>3. QED
  BY <1>1, <1>2 DEF IInv, Safe

-----------------------------------------------------------------------------
(* The invariant holds in every reachable state of PSClient. *)
THEOREM PSClientInvariant == Spec => []IInv
<1>1. Init /\ [][Next]_vars => []IInv
  BY InitIInv, NextIInv, PTL
<1>2. QED
  BY <1>1, PTL DEF Spec

(* The types of the state of Send, ProcessData and the session. *)
THEOREM PSClientTypeOK == Spec => []TypeOK
<1>1. IInv => TypeOK
  BY DEF IInv
<1>2. QED
  BY <1>1, PSClientInvariant, PTL

(* A call that sleeps in Send while its response is in the table is about  *)
(* to be notified, whatever the number of calls and workers.               *)
THEOREM PSClientNoLostWakeup == Spec => []NoLostWakeup
<1>1. IInv => NoLostWakeup
  BY DEF IInv
<1>2. QED
  BY <1>1, PSClientInvariant, PTL

(* CleanOldResponses discards no response that is young and not taken. *)
THEOREM PSClientNoEarlyDiscard == Spec => []NoEarlyDiscard
<1>1. IInv => NoEarlyDiscard
  BY DEF IInv
<1>2. QED
  BY <1>1, PSClientInvariant, PTL

(* PSClient is marked closed only after the session closed its socket. *)
THEOREM PSClientClosedIsShut == Spec => []ClosedIsShut
<1>1. IInv => ClosedIsShut
  BY DEF IInv, CloseOrder, ClosedIsShut
<1>2. QED
  BY <1>1, PSClientInvariant, PTL

-----------------------------------------------------------------------------
(* Where the abstract state of a call changes, it changes by a step of     *)
(* RemoteCall; Mapped is the refinement mapping.                           *)
Mapped == [c \in Calls |-> StateOf(c)]

(* A step that changes one call only. *)
LEMMA OneCall ==
  ASSUME NEW c \in Calls, \A d \in Calls \ {c} : StateOf(d)' = StateOf(d)
  PROVE  Mapped' = [Mapped EXCEPT ![c] = StateOf(c)']
BY DEF Mapped

(* A step that changes no call is a stutter of RemoteCall. *)
LEMMA NobodyChanges ==
  ASSUME \A d \in Calls : StateOf(d)' = StateOf(d)
  PROVE  Mapped' = Mapped
BY DEF Mapped

(* A step that changes the abstract state of one call as RemoteCall allows. *)
LEMMA AbstractStep ==
  ASSUME NEW c \in Calls, \A d \in Calls \ {c} : StateOf(d)' = StateOf(d),
         \/ StateOf(c)' = StateOf(c)
         \/ StateOf(c) = "idle" /\ StateOf(c)' \in {"pending", "failed"}
         \/ StateOf(c) = "pending" /\ StateOf(c)' = "answered"
         \/ StateOf(c) = "answered" /\ StateOf(c)' = "ok"
         \/ StateOf(c) \in {"pending", "answered"} /\ StateOf(c)' = "failed"
  PROVE  Call!Next \/ Mapped' = Mapped
<1>1. Mapped' = [Mapped EXCEPT ![c] = StateOf(c)'] /\ Mapped[c] = StateOf(c)
  BY OneCall DEF Mapped
<1>2. CASE StateOf(c)' = StateOf(c)
  BY <1>1, <1>2 DEF Mapped
<1>3. CASE StateOf(c) = "idle" /\ StateOf(c)' \in {"pending", "failed"}
  <2>1. Call!Start(c)
    BY <1>1, <1>3 DEF Call!Start, Mapped
  <2>2. QED
    BY <2>1 DEF Call!Next
<1>4. CASE StateOf(c) = "pending" /\ StateOf(c)' = "answered"
  <2>1. Call!Answer(c)
    BY <1>1, <1>4 DEF Call!Answer, Mapped
  <2>2. QED
    BY <2>1 DEF Call!Next
<1>5. CASE \/ StateOf(c) = "answered" /\ StateOf(c)' = "ok"
           \/ StateOf(c) \in {"pending", "answered"} /\ StateOf(c)' = "failed"
  <2>1. Call!Finish(c)
    BY <1>1, <1>5 DEF Call!Finish, Mapped
  <2>2. QED
    BY <2>1 DEF Call!Next
<1>6. QED
  BY <1>2, <1>3, <1>4, <1>5

(* Steps of Send: Post starts, Loop and Finish end a call. *)
LEMMA SendRefines ==
  ASSUME IInv, NEW c \in Calls, Send(c)
  PROVE  Call!Next \/ Mapped' = Mapped
<1> USE DEF IInv, TypeOK, StateOf
<1>1. \A d \in Calls \ {c} : StateOf(d)' = StateOf(d)
  BY DEF Send, Post, StartTimer, Loop, Enter, Check, Block, Expire, Relock, Finish
<1>2. \/ StateOf(c)' = StateOf(c)
      \/ StateOf(c) = "idle" /\ StateOf(c)' \in {"pending", "failed"}
      \/ StateOf(c) = "answered" /\ StateOf(c)' = "ok"
      \/ StateOf(c) \in {"pending", "answered"} /\ StateOf(c)' = "failed"
  <2>1. CASE Post(c)
    BY <2>1 DEF Post, IdleUnsent
  <2>2. CASE StartTimer(c) \/ Enter(c) \/ Check(c) \/ Block(c) \/ Expire(c) \/ Relock(c)
    BY <2>2 DEF StartTimer, Enter, Check, Block, Expire, Relock
  <2>3. CASE Loop(c)
    BY <2>3 DEF Loop
  <2>4. CASE Finish(c)
    BY <2>4 DEF Finish, TableArrived
  <2>5. QED
    BY <2>1, <2>2, <2>3, <2>4 DEF Send
<1> HIDE DEF StateOf
<1>3. QED
  BY <1>1, <1>2, AbstractStep

(* Insert makes the answer of one call available; no other step of a       *)
(* worker, the session or the clock shows in the abstract state.           *)
LEMMA OthersRefine ==
  ASSUME IInv, [Next]_vars, \A c \in Calls : ~Send(c)
  PROVE  Call!Next \/ Mapped' = Mapped
<1> USE DEF IInv, TypeOK, StateOf
<1>1. ASSUME NEW c \in Calls, Insert(c) PROVE Call!Next \/ Mapped' = Mapped
  <2>1. \A d \in Calls \ {c} : StateOf(d)' = StateOf(d)
    BY <1>1 DEF Insert
  <2>2. StateOf(c)' = StateOf(c) \/ (StateOf(c) = "pending" /\ StateOf(c)' = "answered")
    BY <1>1 DEF Insert, IdleUnsent
  <2> HIDE DEF StateOf
  <2>3. QED
    BY <2>1, <2>2, AbstractStep
<1>2. ASSUME NEW c \in Calls, Stamp(c) \/ Notify(c) \/ Read(c)
      PROVE  \A d \in Calls : StateOf(d)' = StateOf(d)
  BY <1>2 DEF Stamp, Notify, Notified, Read
<1>3. ASSUME NEW c \in Calls, Write(c)
      PROVE  \A d \in Calls : StateOf(d)' = StateOf(d)
  BY <1>3 DEF Write, DoClose, Notified
<1>4. CASE RunCloseTask \/ ReadEof \/ ReadAborted
  <2>1. \A d \in Calls : StateOf(d)' = StateOf(d)
    BY <1>4 DEF RunCloseTask, ReadEof, ReadAborted, ReadEnds, DoClose, Notified
  <2>2. QED
    BY <2>1, NobodyChanges
<1>5. CASE WorkerFails \/ Tick \/ UNCHANGED vars
  <2>1. \A d \in Calls : StateOf(d)' = StateOf(d)
    BY <1>5 DEF WorkerFails, Tick, vars
  <2>2. QED
    BY <2>1, NobodyChanges
<1>6. QED
  BY <1>1, <1>2, <1>3, <1>4, <1>5, NobodyChanges DEF Next, ProcessResponse

(* Every call of PSClient ends at most once, and with a response only if   *)
(* the peer gave one: Send implements RemoteCall.                          *)
THEOREM PSClientImplementsRemoteCall == Spec => ImplementsRemoteCall
<1>1. Init => Call!Init
  BY DEF Init, Call!Init, StateOf
<1>2. IInv /\ [Next]_vars => Call!Next \/ Mapped' = Mapped
  BY SendRefines, OthersRefine
<1>3. IInv /\ [Next]_vars => [Call!Next]_([c \in Calls |-> StateOf(c)])
  BY <1>2 DEF Mapped
<1>4. QED
  BY <1>1, <1>3, PSClientInvariant, PTL DEF Spec, ImplementsRemoteCall, Call!Spec
=============================================================================
