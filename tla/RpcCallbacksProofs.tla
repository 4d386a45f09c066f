------------------------- MODULE RpcCallbacksProofs -------------------------
(***************************************************************************)
(* Proofs about RpcCallbacks for every finite set of calls, every depth    *)
(* and every size of the pools: the workers are accounted for, and a pool  *)
(* larger than the calls can occupy always has a worker left.              *)
(***************************************************************************)
EXTENDS RpcCallbacks, FiniteSetTheorems, TLAPS

(* The side that has a call in its queue, by its phase and level. *)
At == [c \in Calls |-> IF phase[c] = "request" THEN Side(level[c])
                                               ELSE Side(level[c] - 1)]

(* A call in a queue waits there, and the queue is the one its level asks  *)
(* for.                                                                    *)
QueuedWaits ==
  \A s \in Sides : \A i \in 1..Len(queue[s]) :
    /\ phase[queue[s][i]] \in {"request", "response"}
    /\ At[queue[s][i]] = s

(* No call is in a queue twice. *)
QueuedOnce ==
  \A s \in Sides : \A i, j \in 1..Len(queue[s]) :
    queue[s][i] = queue[s][j] => i = j

(* A call is above level 0 exactly while it is under way. *)
LevelUp ==
  \A c \in Calls : phase[c] \in {"request", "running", "response"} <=> level[c] >= 1

(* The inductive invariant. *)
IInv ==
  /\ TypeOK
  /\ LevelUp
  /\ QueuedWaits
  /\ QueuedOnce
  /\ WorkersAccounted

-----------------------------------------------------------------------------
(* Every level belongs to one of the two sides. *)
LEMMA SideType == \A k : Side(k) \in Sides
BY DEF Side, Sides

(* The frames of finitely many calls of bounded depth are finitely many. *)
LEMMA FramesFinite == \A s \in Sides : IsFiniteSet(Frames(s))
<1> TAKE s \in Sides
<1>1. IsFiniteSet(Calls \X (1..Depth))
  <2>1. IsFiniteSet(1..Depth)
    BY RpcCallbacksAssumption, FS_Interval
  <2>2. QED
    BY RpcCallbacksAssumption, <2>1, FS_Product
<1>2. Frames(s) \in SUBSET (Calls \X (1..Depth))
  BY DEF Frames
<1>3. QED
  BY <1>1, <1>2, FS_Subset

(* No call, no task, no busy worker. *)
LEMMA InitIInv == Init => IInv
<1> SUFFICES ASSUME Init PROVE IInv
  OBVIOUS
<1> USE RpcCallbacksAssumption DEF Init, TypeOK, Sides
<1>1. TypeOK
  OBVIOUS
<1>2. LevelUp /\ QueuedWaits /\ QueuedOnce
  BY DEF LevelUp, QueuedWaits, QueuedOnce
<1>3. \A s \in Sides : Frames(s) = {}
  BY DEF Frames
<1>4. WorkersAccounted
  BY <1>3, FS_EmptySet DEF WorkersAccounted
<1>5. QED
  BY <1>1, <1>2, <1>4 DEF IInv

(* A call that is in no queue is appended to the one its level asks for. *)
LEMMA EnqueueKeeps ==
  ASSUME TypeOK, QueuedWaits, QueuedOnce,
         NEW c \in Calls, NEW s \in Sides, Enqueue(s, c),
         phase[c] \notin {"request", "response"},
         phase'[c] \in {"request", "response"}, At'[c] = s,
         \A d \in Calls \ {c} : phase'[d] = phase[d] /\ level'[d] = level[d]
  PROVE  queue' \in [Sides -> Seq(Calls)] /\ QueuedWaits' /\ QueuedOnce'
<1> USE DEF TypeOK, Enqueue
<1>1. queue' \in [Sides -> Seq(Calls)]
  OBVIOUS
<1>2. \A t \in Sides : \A i \in 1..Len(queue[t]) :
        queue[t][i] \in Calls \ {c} /\ queue'[t][i] = queue[t][i]
  BY DEF QueuedWaits
<1>3. \A t \in Sides \ {s} : queue'[t] = queue[t]
  OBVIOUS
<1>4. Len(queue'[s]) = Len(queue[s]) + 1 /\ queue'[s][Len(queue[s]) + 1] = c
  OBVIOUS
<1>5. \A d \in Calls \ {c} : At'[d] = At[d]
  BY DEF At
<1>6. QueuedWaits'
  <2> SUFFICES ASSUME NEW t \in Sides, NEW i \in 1..Len(queue'[t])
               PROVE  phase'[queue'[t][i]] \in {"request", "response"} /\ At'[queue'[t][i]] = t
    BY DEF QueuedWaits
  <2>1. CASE i \in 1..Len(queue[t])
    <3>1. queue[t][i] \in Calls \ {c} /\ queue'[t][i] = queue[t][i]
      BY <2>1, <1>2
    <3>2. phase[queue[t][i]] \in {"request", "response"} /\ At[queue[t][i]] = t
      BY <2>1 DEF QueuedWaits
    <3>3. QED
      BY <3>1, <3>2, <1>5
  <2>2. CASE i \notin 1..Len(queue[t])
    <3>1. t = s /\ i = Len(queue[s]) + 1
      BY <2>2, <1>3, <1>4
    <3>2. QED
      BY <3>1, <1>4
  <2>3. QED
    BY <2>1, <2>2
<1>7. QueuedOnce'
  BY <1>1, <1>2, <1>3, <1>4 DEF QueuedOnce
<1>8. QED
  BY <1>1, <1>6, <1>7

(* The first call of a queue is taken out of it and out of every queue. *)
LEMMA DequeueKeeps ==
  ASSUME TypeOK, QueuedWaits, QueuedOnce,
         NEW s \in Sides, queue[s] # <<>>,
         NEW c \in Calls, c = Head(queue[s]),
         queue' = [queue EXCEPT ![s] = Tail(@)],
         \A d \in Calls \ {c} : phase'[d] = phase[d] /\ level'[d] = level[d]
  PROVE  queue' \in [Sides -> Seq(Calls)] /\ QueuedWaits' /\ QueuedOnce'
<1> USE DEF TypeOK
<1>1. queue' \in [Sides -> Seq(Calls)]
  OBVIOUS
<1>2. /\ Len(queue'[s]) = Len(queue[s]) - 1
      /\ \A i \in 1..Len(queue'[s]) : i + 1 \in 1..Len(queue[s]) /\ queue'[s][i] = queue[s][i + 1]
  OBVIOUS
<1>3. \A t \in Sides \ {s} : queue'[t] = queue[t]
  OBVIOUS
<1>4. c = queue[s][1] /\ 1 \in 1..Len(queue[s])
  OBVIOUS
<1>5. \A d \in Calls \ {c} : At'[d] = At[d]
  BY DEF At
<1>6. ASSUME NEW t \in Sides, NEW i \in 1..Len(queue'[t])
      PROVE  /\ queue'[t][i] \in Calls \ {c}
             /\ phase[queue'[t][i]] \in {"request", "response"}
             /\ At[queue'[t][i]] = t
  <2>1. CASE t = s
    <3>1. i + 1 \in 1..Len(queue[s]) /\ queue'[s][i] = queue[s][i + 1] /\ i + 1 # 1
      BY <1>2, <1>6, <2>1
    <3>2. queue[s][i + 1] # queue[s][1]
      BY <3>1, <1>4 DEF QueuedOnce
    <3>3. queue[s][i + 1] \in Calls
      BY <3>1
    <3>4. QED
      BY <2>1, <3>1, <3>2, <3>3, <1>4 DEF QueuedWaits
  <2>2. CASE t # s
    <3>1. queue'[t] = queue[t] /\ i \in 1..Len(queue[t])
      BY <2>2, <1>3, <1>6
    <3>2. At[queue[t][i]] = t /\ At[c] = s
      BY <3>1, <1>4 DEF QueuedWaits
    <3>3. queue[t][i] \in Calls
      BY <3>1
    <3>4. QED
      BY <2>2, <3>1, <3>2, <3>3 DEF QueuedWaits
  <2>3. QED
    BY <2>1, <2>2
<1>7. QueuedWaits'
  <2> SUFFICES ASSUME NEW t \in Sides, NEW i \in 1..Len(queue'[t])
               PROVE  phase'[queue'[t][i]] \in {"request", "response"} /\ At'[queue'[t][i]] = t
    BY DEF QueuedWaits
  <2>1. QED
    BY <1>5, <1>6
<1>8. QueuedOnce'
  <2> SUFFICES ASSUME NEW t \in Sides, NEW i \in 1..Len(queue'[t]), NEW j \in 1..Len(queue'[t]),
                      queue'[t][i] = queue'[t][j]
               PROVE  i = j
    BY DEF QueuedOnce
  <2>1. CASE t = s
    <3>1. /\ i + 1 \in 1..Len(queue[s]) /\ queue'[s][i] = queue[s][i + 1]
          /\ j + 1 \in 1..Len(queue[s]) /\ queue'[s][j] = queue[s][j + 1]
      BY <1>2, <2>1
    <3>2. i + 1 = j + 1
      BY <3>1, <2>1 DEF QueuedOnce
    <3>3. i \in Int /\ j \in Int
      OBVIOUS
    <3>4. QED
      BY <3>2, <3>3
  <2>2. CASE t # s
    BY <2>2, <1>3 DEF QueuedOnce
  <2>3. QED
    BY <2>1, <2>2
<1>9. QED
  BY <1>1, <1>7, <1>8

(* Where the frames of both sides stay the same, so does the account. *)
LEMMA SameFrames ==
  ASSUME WorkersAccounted, UNCHANGED busy, \A s \in Sides : Frames(s)' = Frames(s)
  PROVE  WorkersAccounted'
BY DEF WorkersAccounted

-----------------------------------------------------------------------------
(* The first request goes to the server; no worker is taken yet. *)
LEMMA StartIInv ==
  ASSUME IInv, NEW c \in Calls, Start(c)
  PROVE  IInv'
<1> USE RpcCallbacksAssumption DEF IInv, TypeOK, Start
<1>1. At'[c] = Side(1)
  BY DEF At
<1>2. queue' \in [Sides -> Seq(Calls)] /\ QueuedWaits' /\ QueuedOnce'
  BY <1>1, EnqueueKeeps, SideType
<1>3. TypeOK'
  BY <1>2
<1>4. LevelUp'
  BY DEF LevelUp
<1>5. level[c] = 0
  <2>1. ~(level[c] >= 1)
    BY DEF LevelUp
  <2>2. level[c] \in 0..Depth
    OBVIOUS
  <2>3. QED
    BY <2>1, <2>2
<1>6. \A s \in Sides : Frames(s)' = Frames(s)
  BY <1>5 DEF Frames
<1>7. QED
  BY <1>2, <1>3, <1>4, <1>6, SameFrames

(* A worker is taken for exactly one new frame. *)
LEMMA TakeRequestIInv ==
  ASSUME IInv, NEW s \in Sides, TakeRequest(s)
  PROVE  IInv'
<1> DEFINE c == Head(queue[s])
<1> USE RpcCallbacksAssumption DEF IInv, TypeOK
<1>1. c \in Calls /\ c = queue[s][1] /\ 1 \in 1..Len(queue[s])
  BY DEF TakeRequest
<1> HIDE DEF c
<1>2. phase[c] = "request" /\ level[c] \in 1..Depth /\ Side(level[c]) = s
  <2>1. phase[c] = "request"
    BY DEF TakeRequest, c
  <2>2. level[c] >= 1 /\ level[c] \in 0..Depth
    BY <1>1, <2>1 DEF LevelUp
  <2>3. At[c] = s
    BY <1>1 DEF QueuedWaits
  <2>4. QED
    BY <1>1, <2>1, <2>2, <2>3 DEF At
<1>3. /\ queue[s] # <<>> /\ busy[s] < Workers
      /\ queue' = [queue EXCEPT ![s] = Tail(@)]
      /\ busy' = [busy EXCEPT ![s] = @ + 1]
      /\ phase' = [phase EXCEPT ![c] = "running"]
      /\ level' = level /\ calls' = calls
  BY DEF TakeRequest, c
<1>4. queue' \in [Sides -> Seq(Calls)] /\ QueuedWaits' /\ QueuedOnce'
  BY <1>1, <1>3, DequeueKeeps DEF c
<1>5. TypeOK'
  BY <1>1, <1>3, <1>4
<1>6. LevelUp'
  BY <1>1, <1>2, <1>3 DEF LevelUp
<1>7. Frames(s)' = Frames(s) \cup {<<c, level[c]>>} /\ <<c, level[c]>> \notin Frames(s)
  BY <1>1, <1>2, <1>3 DEF Frames
<1>8. \A t \in Sides \ {s} : Frames(t)' = Frames(t)
  BY <1>1, <1>2, <1>3 DEF Frames
<1>9. Cardinality(Frames(s)') = Cardinality(Frames(s)) + 1
  BY <1>7, FramesFinite, FS_AddElement
<1>10. WorkersAccounted'
  BY <1>3, <1>8, <1>9 DEF WorkersAccounted
<1>11. QED
  BY <1>4, <1>5, <1>6, <1>10

(* A frame that slept runs again on the worker it kept. *)
LEMMA TakeResponseIInv ==
  ASSUME IInv, NEW s \in Sides, TakeResponse(s)
  PROVE  IInv'
<1> DEFINE c == Head(queue[s])
<1> USE RpcCallbacksAssumption DEF IInv, TypeOK
<1>1. c \in Calls
  BY DEF TakeResponse
<1>2. phase[c] = "response" /\ level[c] \in 1..Depth
  BY <1>1 DEF TakeResponse, LevelUp
<1> HIDE DEF c
<1>3. /\ queue[s] # <<>>
      /\ queue' = [queue EXCEPT ![s] = Tail(@)]
      /\ level' = [level EXCEPT ![c] = @ - 1]
      /\ phase' = [phase EXCEPT ![c] = IF level[c] = 1 THEN "done" ELSE "running"]
      /\ busy' = busy /\ calls' = calls
  BY DEF TakeResponse, c
<1>4. queue' \in [Sides -> Seq(Calls)] /\ QueuedWaits' /\ QueuedOnce'
  BY <1>1, <1>3, DequeueKeeps DEF c
<1>5. TypeOK'
  BY <1>1, <1>2, <1>3, <1>4
<1>6. LevelUp'
  BY <1>1, <1>2, <1>3 DEF LevelUp
<1>7. ASSUME NEW d \in Calls, NEW k \in 1..Depth
      PROVE  (k < level'[d] \/ (k = level'[d] /\ phase'[d] = "running"))
               <=> (k < level[d] \/ (k = level[d] /\ phase[d] = "running"))
  <2>1. CASE d # c
    BY <2>1, <1>1, <1>3
  <2>2. CASE d = c /\ level[c] = 1
    BY <2>2, <1>1, <1>2, <1>3
  <2>3. CASE d = c /\ level[c] # 1
    BY <2>3, <1>1, <1>2, <1>3
  <2>4. QED
    BY <2>1, <2>2, <2>3
<1>8. \A t \in Sides : Frames(t)' = Frames(t)
  <2> TAKE t \in Sides
  <2>1. ASSUME NEW f \in Calls \X (1..Depth)
        PROVE  (f[2] < level'[f[1]] \/ (f[2] = level'[f[1]] /\ phase'[f[1]] = "running"))
                 <=> (f[2] < level[f[1]] \/ (f[2] = level[f[1]] /\ phase[f[1]] = "running"))
    BY <1>7
  <2>2. QED
    BY <2>1 DEF Frames
<1>9. QED
  BY <1>3, <1>4, <1>5, <1>6, <1>8, SameFrames

(* The frame that calls back keeps its worker. *)
LEMMA CallBackIInv ==
  ASSUME IInv, NEW c \in Calls, CallBack(c)
  PROVE  IInv'
<1> USE RpcCallbacksAssumption DEF IInv, TypeOK, CallBack
<1>1. At'[c] = Side(level[c] + 1)
  BY DEF At
<1>2. queue' \in [Sides -> Seq(Calls)] /\ QueuedWaits' /\ QueuedOnce'
  BY <1>1, EnqueueKeeps, SideType
<1>3. TypeOK'
  BY <1>2
<1>4. LevelUp'
  BY DEF LevelUp
<1>5. \A s \in Sides : Frames(s)' = Frames(s)
  BY DEF Frames
<1>6. QED
  BY <1>2, <1>3, <1>4, <1>5, SameFrames

(* The frame ends and gives back its worker. *)
LEMMA ReturnIInv ==
  ASSUME IInv, NEW c \in Calls, Return(c)
  PROVE  IInv'
<1> USE RpcCallbacksAssumption DEF IInv, TypeOK, Return
<1> PICK s \in Sides : s = Side(level[c])
  BY SideType
<1>1. At'[c] = Side(level[c] - 1)
  BY DEF At
<1>2. queue' \in [Sides -> Seq(Calls)] /\ QueuedWaits' /\ QueuedOnce'
  BY <1>1, EnqueueKeeps, SideType
<1>3. level[c] \in 1..Depth
  <2>1. level[c] >= 1 /\ level[c] \in 0..Depth
    BY DEF LevelUp
  <2>2. QED
    BY <2>1
<1>4. Frames(s)' = Frames(s) \ {<<c, level[c]>>} /\ <<c, level[c]>> \in Frames(s)
  BY <1>3 DEF Frames
<1>5. \A t \in Sides \ {s} : Frames(t)' = Frames(t)
  BY <1>3 DEF Frames
<1>6. IsFiniteSet(Frames(s))
  BY FramesFinite
<1>7. Cardinality(Frames(s)') = Cardinality(Frames(s)) - 1 /\ Cardinality(Frames(s)') \in Nat
  <2> DEFINE F == Frames(s)
             x == <<c, level[c]>>
  <2> HIDE DEF F, x
  <2>1. IsFiniteSet(F \ {x}) /\ Cardinality(F \ {x}) = IF x \in F THEN Cardinality(F) - 1 ELSE Cardinality(F)
    BY <1>6, FS_RemoveElement DEF F
  <2>2. Cardinality(F \ {x}) \in Nat
    BY <2>1, FS_CardinalityType
  <2>3. QED
    BY <2>1, <2>2, <1>4 DEF F, x
<1>8. busy[s] = Cardinality(Frames(s)) /\ busy[s] - 1 \in 0..Workers
  BY <1>3, <1>7 DEF WorkersAccounted
<1>9. TypeOK'
  BY <1>2, <1>3, <1>8
<1>10. LevelUp'
  BY DEF LevelUp
<1>11. WorkersAccounted'
  BY <1>3, <1>5, <1>7, <1>8 DEF WorkersAccounted
<1>12. QED
  BY <1>2, <1>9, <1>10, <1>11

(* Every step keeps the invariant. *)
LEMMA NextIInv == IInv /\ [Next]_vars => IInv'
<1> SUFFICES ASSUME IInv, [Next]_vars PROVE IInv'
  OBVIOUS
<1>1. CASE UNCHANGED vars
  BY <1>1 DEF vars, IInv, TypeOK, LevelUp, QueuedWaits, QueuedOnce, At,
              WorkersAccounted, Frames
<1>2. CASE Next
  BY <1>2, StartIInv, CallBackIInv, ReturnIInv, TakeRequestIInv, TakeResponseIInv
     DEF Next
<1>3. QED
  BY <1>1, <1>2

-----------------------------------------------------------------------------
(* The invariant holds in every reachable state of both pools. *)
THEOREM CallbacksInvariant == Spec => []IInv
<1>1. Init /\ [][Next]_vars => []IInv
  BY InitIInv, NextIInv, PTL
<1>2. QED
  BY <1>1, PTL DEF Spec

(* The variables keep their types; in particular a pool never has fewer    *)
(* than no busy worker (Return gives back one that was taken).             *)
THEOREM CallbacksTypeOK == Spec => []TypeOK
<1>1. IInv => TypeOK
  BY DEF IInv
<1>2. QED
  BY <1>1, CallbacksInvariant, PTL

(* Every busy worker stands for one frame of some call (ThreadPool,        *)
(* ParallelHandler and PSClient::Send together): none leaks.               *)
THEOREM CallbacksWorkersAccounted == Spec => []WorkersAccounted
<1>1. IInv => WorkersAccounted
  BY DEF IInv
<1>2. QED
  BY <1>1, CallbacksInvariant, PTL

(* The levels that run on side s. *)
Levels(s) == {k \in 1..Depth : Side(k) = s}

(* A pool with more workers than the calls can have frames on its side     *)
(* always has one for the next response (the size of the pool that a       *)
(* program with callbacks needs).                                          *)
THEOREM CallbacksWorkerLeft ==
  ASSUME \A s \in Sides : Workers > Cardinality(Calls) * Cardinality(Levels(s))
  PROVE  Spec => []WorkerLeft
<1>1. IInv => WorkerLeft
  <2> SUFFICES ASSUME IInv, NEW s \in Sides PROVE busy[s] < Workers
    BY DEF WorkerLeft
  <2>1. IsFiniteSet(Levels(s))
    <3>1. IsFiniteSet(1..Depth)
      BY RpcCallbacksAssumption, FS_Interval
    <3>2. Levels(s) \in SUBSET (1..Depth)
      BY DEF Levels
    <3>3. QED
      BY <3>1, <3>2, FS_Subset
  <2>2. /\ IsFiniteSet(Calls \X Levels(s))
        /\ Cardinality(Calls \X Levels(s)) = Cardinality(Calls) * Cardinality(Levels(s))
    BY <2>1, RpcCallbacksAssumption, FS_Product
  <2>3. Frames(s) \in SUBSET (Calls \X Levels(s))
    BY DEF Frames, Levels
  <2>4. Cardinality(Frames(s)) <= Cardinality(Calls \X Levels(s))
    BY <2>2, <2>3, FS_Subset
  <2>5. busy[s] = Cardinality(Frames(s)) /\ busy[s] \in Int
    BY DEF IInv, WorkersAccounted, TypeOK
  <2>6. Cardinality(Calls \X Levels(s)) \in Int /\ Workers \in Int
    BY <2>2, FS_CardinalityType, RpcCallbacksAssumption
  <2>7. QED
    BY <2>2, <2>4, <2>5, <2>6
<1>2. QED
  BY <1>1, CallbacksInvariant, PTL
=============================================================================
