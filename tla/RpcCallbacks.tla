---------------------------- MODULE RpcCallbacks ----------------------------
(***************************************************************************)
(* Remote calls with callbacks, and the worker threads they need.          *)
(*                                                                         *)
(* ParallelHandler posts everything that arrives at a side, requests and   *)
(* responses alike, to one pool of worker threads, shared by all           *)
(* connections of that side.  A worker that runs a request and calls back  *)
(* (a method of an interface it was passed; CloneReference for every       *)
(* interface parameter) sleeps in PSClient::Send and keeps its thread;     *)
(* the response that would wake it needs a free worker to be processed.    *)
(*                                                                         *)
(* Level 0 of a call is an application thread of the client; level k runs  *)
(* on a worker of the server if k is odd and of the client if it is even.  *)
(* Timeouts are left out: PSClient has them.  What is stuck here lasts     *)
(* until the timeout of some Send.                                         *)
(***************************************************************************)
EXTENDS Integers, Sequences, FiniteSets

CONSTANTS
  Calls,    \* application threads of clients, each making one call
  Depth,    \* how deep calls and callbacks nest
  Workers,  \* threads of the pool of each side
  Nested    \* bound: callbacks under one call, at all levels together

ASSUME RpcCallbacksAssumption ==
  /\ IsFiniteSet(Calls)
  /\ Depth \in Nat \ {0}
  /\ Workers \in Nat \ {0}
  /\ Nested \in Nat

VARIABLES
  level,   \* the level at which a call is now
  phase,   \* "request": queued for the level, "running" on it, "response":
           \* its result is queued for the level below
  calls,   \* callbacks made so far under a call
  queue,   \* tasks of the pool of each side, in order
  busy     \* workers of each side that run a task

vars == <<level, phase, calls, queue, busy>>

Sides   == {"client", "server"}
Side(k) == IF k % 2 = 1 THEN "server" ELSE "client"

TypeOK ==
  /\ level \in [Calls -> 0..Depth]
  /\ phase \in [Calls -> {"idle", "request", "running", "response", "done"}]
  /\ calls \in [Calls -> 0..Nested]
  /\ queue \in [Sides -> Seq(Calls)]
  /\ busy \in [Sides -> 0..Workers]

Init ==
  /\ level = [c \in Calls |-> 0]
  /\ phase = [c \in Calls |-> "idle"]
  /\ calls = [c \in Calls |-> 0]
  /\ queue = [s \in Sides |-> <<>>]
  /\ busy = [s \in Sides |-> 0]

(* ParallelHandler::OnData of side s posts a task for c. *)
Enqueue(s, c) == queue' = [queue EXCEPT ![s] = Append(@, c)]

-----------------------------------------------------------------------------
(* The application thread calls and sleeps in Send. *)
Start(c) ==
  /\ phase[c] = "idle"
  /\ level' = [level EXCEPT ![c] = 1]
  /\ phase' = [phase EXCEPT ![c] = "request"]
  /\ Enqueue(Side(1), c)
  /\ UNCHANGED <<calls, busy>>

(* A free worker takes the first task, a request: ProcessData calls the     *)
(* stub, and the worker is busy until the method returns.                   *)
TakeRequest(s) ==
  LET c == Head(queue[s]) IN
  /\ queue[s] # <<>> /\ busy[s] < Workers
  /\ phase[c] = "request"
  /\ queue' = [queue EXCEPT ![s] = Tail(@)]
  /\ busy' = [busy EXCEPT ![s] = @ + 1]
  /\ phase' = [phase EXCEPT ![c] = "running"]
  /\ UNCHANGED <<level, calls>>

(* A free worker takes the first task, a response: ProcessData stores it    *)
(* and notifies, Send returns in the thread that called, and the worker is  *)
(* free again.                                                              *)
TakeResponse(s) ==
  LET c == Head(queue[s]) IN
  /\ queue[s] # <<>> /\ busy[s] < Workers
  /\ phase[c] = "response"
  /\ queue' = [queue EXCEPT ![s] = Tail(@)]
  /\ level' = [level EXCEPT ![c] = @ - 1]
  /\ phase' = [phase EXCEPT ![c] = IF level[c] = 1 THEN "done" ELSE "running"]
  /\ UNCHANGED <<calls, busy>>

(* The method calls back: its worker sleeps in Send. *)
CallBack(c) ==
  /\ phase[c] = "running"
  /\ level[c] < Depth /\ calls[c] < Nested
  /\ level' = [level EXCEPT ![c] = @ + 1]
  /\ phase' = [phase EXCEPT ![c] = "request"]
  /\ calls' = [calls EXCEPT ![c] = @ + 1]
  /\ Enqueue(Side(level[c] + 1), c)
  /\ UNCHANGED busy

(* Mutant of Return: the worker does not come back to the pool. *)
ReturnKeepsWorker(c) ==
  /\ phase[c] = "running"
  /\ phase' = [phase EXCEPT ![c] = "response"]
  /\ Enqueue(Side(level[c] - 1), c)
  /\ UNCHANGED <<level, calls, busy>>

(* The method returns, or throws and the exception is put in the response:  *)
(* the response is posted and the worker is free.                           *)
Return(c) ==
  /\ phase[c] = "running"
  /\ phase' = [phase EXCEPT ![c] = "response"]
  /\ busy' = [busy EXCEPT ![Side(level[c])] = @ - 1]
  /\ Enqueue(Side(level[c] - 1), c)
  /\ UNCHANGED <<level, calls>>

Next ==
  \/ \E c \in Calls : Start(c) \/ CallBack(c) \/ Return(c)
  \/ \E s \in Sides : TakeRequest(s) \/ TakeResponse(s)

(* Methods come to an end and workers take what is queued. *)
Spec ==
  /\ Init /\ [][Next]_vars
  /\ \A c \in Calls : WF_vars(Return(c))
  /\ \A s \in Sides : WF_vars(TakeRequest(s) \/ TakeResponse(s))

-----------------------------------------------------------------------------
(* The frames of all calls that hold a worker of side s: those asleep below *)
(* the current level, and the running one.                                  *)
Frames(s) ==
  {f \in Calls \X (1..Depth) :
     /\ Side(f[2]) = s
     /\ \/ f[2] < level[f[1]]
        \/ f[2] = level[f[1]] /\ phase[f[1]] = "running"}

(* Every worker that is busy runs or sleeps for exactly one frame of some   *)
(* call: none leaks through callbacks and their responses.                  *)
WorkersAccounted == \A s \in Sides : busy[s] = Cardinality(Frames(s))

(* A pool with more threads than the calls can put to sleep at once always  *)
(* has one for the next response.                                           *)
WorkerLeft == \A s \in Sides : busy[s] < Workers

(* A call comes to its end without the help of a timeout, callbacks and all *)
(* (ParallelHandler, PSClient::Send and ProcessData together).              *)
CallsComplete == \A c \in Calls : phase[c] # "idle" ~> phase[c] = "done"
=============================================================================
