----------------------------- MODULE HttpSession -----------------------------
(***************************************************************************)
(* One connection of the HTTP server: Http::Detail::Session with its queue *)
(* of responses and OutputPack, which hands the body out in portions.      *)
(*                                                                         *)
(* All handlers of a session run on its strand, one at a time.  What keeps *)
(* the session alive is the shared pointer in the handler of a pending     *)
(* operation: with no read and no write pending it is destroyed and its    *)
(* socket closed.                                                          *)
(*                                                                         *)
(* OnRead posts the response of the request and does not read on; OnWrite  *)
(* reads on when the queue it pops was full.  A task of the queue that is  *)
(* started may throw: prepare_payload refuses a status that has no body    *)
(* (1xx, 204, 304), because the size of a buffer_body is not known.        *)
(***************************************************************************)
EXTENDS Integers, Sequences

CONSTANTS
  MaxRequests,   \* bound: requests the peer sends on one connection
  PipelineLimit, \* m_params.pipelineLimit
  ChunkSize,     \* m_params.chunkSize
  BodySizes      \* sizes of response bodies

ASSUME HttpSessionAssumption ==
  /\ MaxRequests \in Nat
  /\ PipelineLimit \in Nat
  /\ ChunkSize \in Nat \ {0}
  /\ BodySizes \subseteq Nat

VARIABLES
  arrived,  \* requests the peer has sent: is keep-alive asked for
  taken,    \* how many of them have been parsed
  eof,      \* the peer has closed its side
  reading,  \* an async_read is pending
  tasks,    \* m_tasks: the responses in the queue
  writing,  \* an async_write is pending
  replies,  \* the responses that were written to the end
  shut,     \* Close() was called
  failed    \* an operation ended with an error: broken, timed out

vars == <<arrived, taken, eof, reading, tasks, writing, replies, shut, failed>>

Limit == IF PipelineLimit = 0 THEN 1 ELSE PipelineLimit

-----------------------------------------------------------------------------
(* OutputPack.  pos is m_bufferPtr, more is body.more, body the bytes that  *)
(* were given to the serializer, by their index.                            *)
Bytes(from, count) == [i \in 1..count |-> from + i]

(* OutputPack::SetData: a short body is given at once, a long one later.    *)
(* bodiless tells whether the handler has set a status without a body.      *)
SetData(req, keep, size, bodiless) ==
  [request |-> req, keep |-> keep, size |-> size, bodiless |-> bodiless,
   pos  |-> 0,
   body |-> IF size < ChunkSize THEN Bytes(0, size) ELSE <<>>,
   more |-> size >= ChunkSize]

(* OutputPack::GetNextPortion *)
GetNextPortion(t) ==
  LET rest  == t.size - t.pos
      count == IF rest < ChunkSize THEN rest ELSE ChunkSize
  IN [t EXCEPT !.body = @ \o Bytes(t.pos, count),
               !.more = rest > ChunkSize,
               !.pos  = @ + count]

Responses ==
  [request : 1..MaxRequests, keep : BOOLEAN, size : BodySizes,
   bodiless : BOOLEAN, pos : Nat, body : Seq(Nat), more : BOOLEAN]

TypeOK ==
  /\ arrived \in Seq(BOOLEAN) /\ Len(arrived) <= MaxRequests
  /\ taken \in 0..Len(arrived)
  /\ tasks \in Seq(Responses)
  /\ replies \in Seq(Responses)
  /\ \A v \in {eof, reading, writing, shut, failed} : v \in BOOLEAN
  /\ writing => tasks # <<>>

(* Session::Run *)
Init ==
  /\ arrived = <<>>
  /\ taken = 0
  /\ eof = FALSE
  /\ reading = TRUE
  /\ tasks = <<>>
  /\ writing = FALSE
  /\ replies = <<>>
  /\ shut = FALSE
  /\ failed = FALSE

Alive == reading \/ writing

-----------------------------------------------------------------------------
(* The peer. *)
PeerSends(keep) ==
  /\ ~eof /\ Len(arrived) < MaxRequests
  /\ arrived' = Append(arrived, keep)
  /\ UNCHANGED <<taken, eof, reading, tasks, writing, replies, shut, failed>>

PeerCloses ==
  /\ ~eof
  /\ eof' = TRUE
  /\ UNCHANGED <<arrived, taken, reading, tasks, writing, replies, shut, failed>>

(* Queue::Post and Pop start the task at the front; it throws at            *)
(* prepare_payload.                                                         *)
Throws(queue) == queue # <<>> /\ Head(queue).bodiless

(* Mutant of Answer: the session reads on before the response is written.    *)
AnswerReadsOn(size, bodiless) ==
  LET reply == SetData(taken + 1, arrived[taken + 1], size, bodiless)
      error == SetData(taken + 1, arrived[taken + 1], size, FALSE)
      first == tasks = <<>>
  IN /\ reading /\ taken < Len(arrived)
     /\ reading' = TRUE
     /\ taken' = taken + 1
     /\ tasks' = IF first /\ Throws(<<reply>>)
                   THEN tasks \o <<reply, error>>
                   ELSE Append(tasks, reply)
     /\ writing' = (writing \/ (first /\ ~Throws(<<reply>>)))
     /\ UNCHANGED <<arrived, eof, replies, shut, failed>>

(* Reply or ReplyError posts a response; Queue::Post starts it if it is the  *)
(* only one.  When it throws, HandleRequest catches and posts an error as    *)
(* the second task, which is not started: neither is ever written, whatever  *)
(* their sizes.                                                              *)
Answer(size, bodiless) ==
  LET reply == SetData(taken + 1, arrived[taken + 1], size, bodiless)
      error == SetData(taken + 1, arrived[taken + 1], size, FALSE)
      first == tasks = <<>>
  IN /\ reading /\ taken < Len(arrived)
     /\ reading' = FALSE
     /\ taken' = taken + 1
     /\ tasks' = IF first /\ Throws(<<reply>>)
                   THEN tasks \o <<reply, error>>
                   ELSE Append(tasks, reply)
     /\ writing' = (writing \/ (first /\ ~Throws(<<reply>>)))
     /\ UNCHANGED <<arrived, eof, replies, shut, failed>>

(* OnRead with a request that gets an error: a bad path, a method that is    *)
(* not allowed, no handler for it, or a handler that threw.                  *)
OnReadRejects(size) == Answer(size, FALSE)

(* OnRead with a request that a handler has processed, with any status.      *)
OnRead(size, bodiless) == Answer(size, bodiless)

(* OnRead at the end of the stream closes, and so does a request to upgrade, *)
(* which gets no response.                                                   *)
OnReadCloses(upgrade) ==
  /\ reading
  /\ IF upgrade THEN taken < Len(arrived) ELSE eof /\ taken = Len(arrived)
  /\ reading' = FALSE
  /\ shut' = TRUE
  /\ taken' = IF upgrade THEN taken + 1 ELSE taken
  /\ UNCHANGED <<arrived, eof, tasks, writing, replies, failed>>

(* OnRead with any other error: a limit, a broken connection, the timeout.   *)
OnReadFails ==
  /\ reading
  /\ reading' = FALSE
  /\ failed' = TRUE
  /\ UNCHANGED <<arrived, taken, eof, tasks, writing, replies, shut>>

(* OnWrite asks for the next portion of the body.                            *)
OnWriteMore ==
  /\ writing /\ Head(tasks).more
  /\ tasks' = <<GetNextPortion(Head(tasks))>> \o Tail(tasks)
  /\ UNCHANGED <<arrived, taken, eof, reading, writing, replies, shut, failed>>

OnWriteFails ==
  /\ writing
  /\ writing' = FALSE
  /\ failed' = TRUE
  /\ UNCHANGED <<arrived, taken, eof, reading, tasks, replies, shut>>

(* Mutant of OnWrite.  Pop asks whether the queue is full after it took one  *)
(* out:                                                                      *)
OnWriteAsksLate ==
  /\ writing /\ ~Head(tasks).more
  /\ replies' = Append(replies, Head(tasks))
  /\ IF ~Head(tasks).keep
       THEN /\ shut' = TRUE
            /\ writing' = FALSE
            /\ UNCHANGED <<reading, tasks>>
       ELSE /\ tasks' = Tail(tasks)
            /\ writing' = (Tail(tasks) # <<>> /\ ~Throws(Tail(tasks)))
            /\ reading' = (reading \/ (Len(Tail(tasks)) >= Limit /\ ~Throws(Tail(tasks))))
            /\ UNCHANGED shut
  /\ UNCHANGED <<arrived, taken, eof, failed>>

(* OnWrite with the response complete: close, or Pop and perhaps Read.       *)
OnWrite ==
  /\ writing /\ ~Head(tasks).more
  /\ replies' = Append(replies, Head(tasks))
  /\ IF ~Head(tasks).keep
       THEN /\ shut' = TRUE
            /\ writing' = FALSE
            /\ UNCHANGED <<reading, tasks>>
       ELSE /\ tasks' = Tail(tasks)
            /\ writing' = (Tail(tasks) # <<>> /\ ~Throws(Tail(tasks)))
            /\ reading' = (reading \/ (Len(tasks) >= Limit /\ ~Throws(Tail(tasks))))
            /\ UNCHANGED shut
  /\ UNCHANGED <<arrived, taken, eof, failed>>

Next ==
  \/ \E keep \in BOOLEAN : PeerSends(keep)
  \/ PeerCloses
  \/ \E size \in BodySizes : OnReadRejects(size)
  \/ \E size \in BodySizes, bodiless \in BOOLEAN : OnRead(size, bodiless)
  \/ \E upgrade \in BOOLEAN : OnReadCloses(upgrade)
  \/ OnReadFails
  \/ OnWriteMore
  \/ OnWriteFails
  \/ OnWrite

(* The io threads run what is ready: a request that is there is parsed, a    *)
(* response is written on or its write fails.                                *)
Fairness ==
  /\ WF_vars(\/ \E size \in BodySizes : OnReadRejects(size)
             \/ \E size \in BodySizes, bodiless \in BOOLEAN : OnRead(size, bodiless)
             \/ OnReadCloses(FALSE))
  /\ WF_vars(OnWriteMore \/ OnWrite)

Spec == Init /\ [][Next]_vars /\ Fairness

-----------------------------------------------------------------------------
(* A task threw when it was started, and the session with it: the one way    *)
(* to end without an answer, a Close() or an error.                          *)
Refused == Throws(tasks)

(* The session is in the middle of one exchange: it waits for a request with *)
(* all the earlier ones answered, or it writes the response of the last one. *)
(* Once Close() was called or an operation failed, in the middle of a body   *)
(* too, nothing is read or written any more: a pending operation would keep  *)
(* a half open session alive, or answer requests on it (OnRead, OnWrite).    *)
OneExchangeAtATime ==
  Alive => /\ ~failed /\ ~shut
           /\ \/ reading /\ ~writing /\ taken = Len(replies)
              \/ writing /\ ~reading /\ taken = Len(replies) + 1

(* keep_alive(isKeepAlive) in Reply is kept: the session ends only when the  *)
(* peer closed, an operation failed, Close() was called for a request        *)
(* without keep-alive, an upgrade or the end of the stream, or a handler     *)
(* gave a status without a body.                                             *)
KeepAliveKept == ~Alive => eof \/ failed \/ shut \/ Refused

(* Every request that arrives is answered, unless the session failed, was    *)
(* closed or was given a status without a body: none is left in the buffer   *)
(* of a session that waits for nothing.                                      *)
RequestsAnswered ==
  \A i \in 1..MaxRequests :
    Len(arrived) >= i ~> Len(replies) >= i \/ failed \/ shut \/ Refused
=============================================================================
