-------------------------- MODULE HttpSessionProofs --------------------------
(***************************************************************************)
(* Proofs about HttpSession for every pipeline limit, chunk size, set of   *)
(* body sizes and number of requests: there is one exchange at a time,     *)
(* the replies are whole and in order, and with a limit of one (or zero,   *)
(* which counts as one) keep-alive is kept.                                *)
(***************************************************************************)
EXTENDS HttpSession, SequenceTheorems, TLAPS

(* What has been given to the serializer is the beginning of the body, and *)
(* all of it once there is no more.                                        *)
Portioned(t) ==
  IF t.more THEN t.pos < t.size /\ t.body = Bytes(0, t.pos)
            ELSE t.body = Bytes(0, t.size)

(* The session reads with an empty queue or writes the only response in    *)
(* it, and does neither once it was closed or failed.                      *)
OneAtATime ==
  /\ reading => tasks = <<>> /\ ~writing
  /\ writing => Len(tasks) = 1
  /\ Alive => ~failed /\ ~shut

(* The responses go out in the order of the requests, each with its whole  *)
(* body, every byte once, and with the connection state the request asked  *)
(* for.                                                                    *)
RepliesWhole ==
  \A i \in DOMAIN replies :
    /\ replies[i].request = i
    /\ replies[i].keep = arrived[i]
    /\ replies[i].body = Bytes(0, replies[i].size)

(* The requests parsed so far are answered, but for the one being written. *)
InTurn ==
  /\ Len(replies) <= taken
  /\ reading => taken = Len(replies)
  /\ writing => /\ taken = Len(replies) + 1
                /\ Head(tasks).request = taken
                /\ Head(tasks).keep = arrived[taken]
                /\ Portioned(Head(tasks))

(* The inductive invariant. *)
IInv ==
  /\ TypeOK
  /\ OneAtATime
  /\ InTurn
  /\ RepliesWhole

-----------------------------------------------------------------------------
(* Portions of consecutive bytes join. *)
LEMMA BytesJoin ==
  ASSUME NEW p \in Nat, NEW n \in Nat
  PROVE  /\ Bytes(0, p) \in Seq(Nat)
         /\ Bytes(p, n) \in Seq(Nat)
         /\ Bytes(0, p) \o Bytes(p, n) = Bytes(0, p + n)
<1>1. Bytes(0, p) \in Seq(Nat) /\ Bytes(p, n) \in Seq(Nat)
  BY DEF Bytes
<1>2. Len(Bytes(0, p)) = p /\ Len(Bytes(p, n)) = n
  BY DEF Bytes
<1> DEFINE b == Bytes(0, p)
           d == Bytes(p, n)
<1>3. /\ b \o d \in Seq(Nat) /\ Len(b \o d) = p + n
      /\ \A i \in 1..(p + n) : (b \o d)[i] = IF i <= p THEN b[i] ELSE d[i - p]
  <2> HIDE DEF b, d
  <2>1. b \in Seq(Nat) /\ d \in Seq(Nat) /\ Len(b) = p /\ Len(d) = n
    BY <1>1, <1>2 DEF b, d
  <2>2. /\ b \o d \in Seq(Nat) /\ Len(b \o d) = Len(b) + Len(d)
        /\ \A i \in 1 .. Len(b) + Len(d) : (b \o d)[i] = IF i <= Len(b) THEN b[i] ELSE d[i - Len(b)]
    BY <2>1, ConcatProperties
  <2>3. QED
    BY <2>1, <2>2
<1>4. /\ Bytes(0, p + n) \in Seq(Nat) /\ Len(Bytes(0, p + n)) = p + n
      /\ \A i \in 1..(p + n) : Bytes(0, p + n)[i] = i
  BY DEF Bytes
<1>5. ASSUME NEW i \in 1..(p + n)
      PROVE  (b \o d)[i] = i
  <2>1. CASE i <= p
    <3>1. b[i] = i
      BY <2>1 DEF Bytes
    <3>2. QED
      BY <2>1, <3>1, <1>3
  <2>2. CASE ~(i <= p)
    <3>1. i - p \in 1..n /\ p + (i - p) = i
      BY <2>2
    <3>2. d[i - p] = i
      BY <3>1 DEF Bytes
    <3>3. QED
      BY <2>2, <3>2, <1>3
  <2>3. QED
    BY <2>1, <2>2
<1> HIDE DEF b, d
<1>6. b \o d = Bytes(0, p + n)
  BY <1>3, <1>4, <1>5, SeqEqual
<1>7. QED
  BY <1>1, <1>6 DEF b, d

(* A new response has its types and starts at the beginning of its body    *)
(* (OutputPack::SetData).                                                  *)
LEMMA SetDataPortioned ==
  ASSUME NEW req \in 1..MaxRequests, NEW keep \in BOOLEAN, NEW size \in BodySizes,
         NEW bodiless \in BOOLEAN
  PROVE  /\ SetData(req, keep, size, bodiless) \in Responses
         /\ SetData(req, keep, size, bodiless).request = req
         /\ SetData(req, keep, size, bodiless).keep = keep
         /\ SetData(req, keep, size, bodiless).bodiless = bodiless
         /\ Portioned(SetData(req, keep, size, bodiless))
<1> USE HttpSessionAssumption
<1>1. size \in Nat /\ ChunkSize \in Nat \ {0}
  OBVIOUS
<1>2. Bytes(0, size) \in Seq(Nat)
  BY <1>1, BytesJoin
<1>3. Bytes(0, 0) = <<>>
  BY DEF Bytes
<1> DEFINE t == SetData(req, keep, size, bodiless)
<1>4. /\ t.request = req /\ t.keep = keep /\ t.size = size /\ t.pos = 0
      /\ t.bodiless = bodiless
      /\ t.more <=> size >= ChunkSize
      /\ t.body = IF size < ChunkSize THEN Bytes(0, size) ELSE <<>>
  BY DEF SetData
<1>5. t \in Responses
  <2>1. (IF size < ChunkSize THEN Bytes(0, size) ELSE <<>>) \in Seq(Nat)
    BY <1>2
  <2>2. QED
    BY <1>1, <2>1 DEF SetData, Responses
<1>6. Portioned(t)
  <2> HIDE DEF t
  <2>1. CASE size < ChunkSize
    <3>1. ~t.more /\ t.body = Bytes(0, t.size)
      BY <2>1, <1>1, <1>4
    <3>2. QED
      BY <3>1 DEF Portioned
  <2>2. CASE ~(size < ChunkSize)
    <3>1. t.more /\ t.pos < t.size /\ t.body = Bytes(0, t.pos)
      BY <2>2, <1>1, <1>3, <1>4
    <3>2. QED
      BY <3>1 DEF Portioned
  <2>3. QED
    BY <2>1, <2>2
<1>7. QED
  BY <1>4, <1>5, <1>6

(* The next portion carries on where the last one ended, and the last one  *)
(* completes the body (OutputPack::GetNextPortion).                        *)
LEMMA GetNextPortioned ==
  ASSUME NEW t \in Responses, t.more, Portioned(t)
  PROVE  /\ GetNextPortion(t) \in Responses
         /\ GetNextPortion(t).request = t.request
         /\ GetNextPortion(t).keep = t.keep
         /\ Portioned(GetNextPortion(t))
<1> USE HttpSessionAssumption
<1> DEFINE rest  == t.size - t.pos
           count == IF rest < ChunkSize THEN rest ELSE ChunkSize
<1>1. t.size \in Nat /\ t.pos \in Nat /\ t.pos < t.size /\ t.body = Bytes(0, t.pos)
  BY DEF Responses, Portioned
<1>2. count \in Nat /\ count <= rest /\ (rest > ChunkSize => count < rest) /\ (~(rest > ChunkSize) => count = rest)
  BY <1>1
<1>3. t.body \o Bytes(t.pos, count) = Bytes(0, t.pos + count) /\ Bytes(0, t.pos + count) \in Seq(Nat)
  <2> HIDE DEF count
  <2>1. t.pos + count \in Nat
    BY <1>1, <1>2
  <2>2. Bytes(0, t.pos + count) \in Seq(Nat)
    BY <2>1, BytesJoin
  <2>3. Bytes(0, t.pos) \o Bytes(t.pos, count) = Bytes(0, t.pos + count)
    BY <1>1, <1>2, BytesJoin
  <2>4. QED
    BY <1>1, <2>2, <2>3
<1>4. GetNextPortion(t) = [t EXCEPT !.body = t.body \o Bytes(t.pos, count), !.more = rest > ChunkSize, !.pos = t.pos + count]
  BY DEF GetNextPortion
<1> HIDE DEF count, rest
<1>5. /\ GetNextPortion(t).body = Bytes(0, t.pos + count)
      /\ GetNextPortion(t).more <=> rest > ChunkSize
      /\ GetNextPortion(t).pos = t.pos + count
      /\ GetNextPortion(t).size = t.size
      /\ GetNextPortion(t).request = t.request
      /\ GetNextPortion(t).keep = t.keep
  BY <1>3, <1>4 DEF Responses
<1>6. GetNextPortion(t) \in Responses
  <2>1. t.pos + count \in Nat /\ (rest > ChunkSize) \in BOOLEAN
    BY <1>1, <1>2
  <2>2. QED
    BY <1>3, <1>4, <2>1 DEF Responses
<1>7. Portioned(GetNextPortion(t))
  <2>1. CASE rest > ChunkSize
    <3>1. t.pos + count < t.size
      BY <2>1, <1>1, <1>2 DEF rest
    <3>2. QED
      BY <2>1, <3>1, <1>5 DEF Portioned
  <2>2. CASE ~(rest > ChunkSize)
    <3>1. t.pos + count = t.size
      BY <2>2, <1>1, <1>2 DEF rest
    <3>2. QED
      BY <2>2, <3>1, <1>5 DEF Portioned
  <2>3. QED
    BY <2>1, <2>2
<1>8. QED
  BY <1>5, <1>6, <1>7

-----------------------------------------------------------------------------
(* The parts of the type invariant, each for itself. *)
LEMMA TypeParts ==
  ASSUME TypeOK
  PROVE  /\ arrived \in Seq(BOOLEAN) /\ Len(arrived) \in Nat /\ Len(arrived) <= MaxRequests
         /\ taken \in Nat /\ taken <= Len(arrived)
         /\ tasks \in Seq(Responses) /\ Len(tasks) \in Nat
         /\ replies \in Seq(Responses) /\ Len(replies) \in Nat
         /\ eof \in BOOLEAN /\ reading \in BOOLEAN /\ writing \in BOOLEAN
         /\ shut \in BOOLEAN /\ failed \in BOOLEAN
         /\ writing => tasks # <<>>
BY DEF TypeOK

(* A queue of one. *)
LEMMA Singleton ==
  ASSUME NEW S, NEW x \in S
  PROVE  /\ <<x>> \in Seq(S) /\ Len(<<x>>) = 1 /\ Head(<<x>>) = x /\ <<x>> # <<>>
         /\ <<x>> \o <<>> = <<x>> /\ Append(<<>>, x) = <<x>>
<1>1. <<x>> \in Seq(S) /\ Len(<<x>>) = 1
  OBVIOUS
<1>2. Head(<<x>>) = x /\ <<x>> # <<>>
  OBVIOUS
<1>3. <<x>> \o <<>> = <<x>>
  BY <1>1, ConcatEmptySeq
<1>4. Append(<<>>, x) = <<x>>
  OBVIOUS
<1>5. QED
  BY <1>1, <1>2, <1>3, <1>4

(* The queue while a write is pending has one element.                     *)
LEMMA SingleTask ==
  ASSUME TypeOK, OneAtATime, writing
  PROVE  /\ Head(tasks) \in Responses /\ Head(tasks) = tasks[1]
         /\ Tail(tasks) = <<>> /\ Len(tasks) = 1
<1>1. tasks \in Seq(Responses) /\ Len(tasks) = 1
  BY TypeParts DEF OneAtATime
<1>2. Len(tasks) = 1 /\ Head(tasks) = tasks[1] /\ tasks[1] \in Responses
  BY <1>1
<1>3. Tail(tasks) \in Seq(Responses) /\ Len(Tail(tasks)) = 0
  BY <1>1, <1>2, HeadTailProperties
<1>4. QED
  BY <1>2, <1>3, EmptySeq

(* Session::Run establishes the invariant. *)
LEMMA InitIInv == Init => IInv
<1> SUFFICES ASSUME Init PROVE IInv
  OBVIOUS
<1> USE HttpSessionAssumption DEF Init
<1>1. TypeOK
  <2>1. arrived \in Seq(BOOLEAN) /\ Len(arrived) = 0 /\ taken \in 0..Len(arrived)
    OBVIOUS
  <2>2. tasks \in Seq(Responses) /\ replies \in Seq(Responses) /\ Len(tasks) = 0
    OBVIOUS
  <2>3. \A v \in {eof, reading, writing, shut, failed} : v \in BOOLEAN
    BY Zenon
  <2>4. Len(arrived) <= MaxRequests /\ ~writing
    BY <2>1, <2>2
  <2>5. QED
    BY <2>1, <2>2, <2>3, <2>4, Zenon DEF TypeOK
<1>2. OneAtATime /\ InTurn /\ RepliesWhole
  BY DEF OneAtATime, InTurn, RepliesWhole, Alive
<1>3. QED
  BY <1>1, <1>2 DEF IInv

(* A request more does not change the ones that are there. *)
LEMMA PeerSendsIInv ==
  ASSUME IInv, NEW keep \in BOOLEAN, PeerSends(keep)
  PROVE  IInv'
<1> USE DEF PeerSends
<1>0. TypeOK /\ OneAtATime /\ InTurn /\ RepliesWhole
  BY DEF IInv
<1>1. /\ arrived' \in Seq(BOOLEAN) /\ Len(arrived') = Len(arrived) + 1
      /\ \A i \in 1..Len(arrived) : arrived'[i] = arrived[i]
  BY <1>0, TypeParts
<1>2. TypeOK'
  BY <1>0, <1>1, TypeParts, HttpSessionAssumption DEF TypeOK
<1>3. OneAtATime'
  BY <1>0 DEF OneAtATime, Alive
<1>4. InTurn'
  <2>1. writing => taken \in 1..Len(arrived)
    BY <1>0, TypeParts DEF InTurn
  <2>2. writing => arrived'[taken] = arrived[taken]
    BY <1>1, <2>1
  <2>3. QED
    BY <1>0, <2>2 DEF InTurn
<1>5. RepliesWhole'
  <2>1. \A i \in DOMAIN replies : i \in 1..Len(arrived)
    BY <1>0, TypeParts DEF InTurn
  <2>2. \A i \in DOMAIN replies : arrived'[i] = arrived[i]
    BY <1>1, <2>1
  <2>3. QED
    BY <1>0, <2>2 DEF RepliesWhole
<1>6. QED
  BY <1>2, <1>3, <1>4, <1>5 DEF IInv

(* The request becomes the only response in the queue, or its task throws  *)
(* and nothing is pending any more.                                        *)
LEMMA AnswerIInv ==
  ASSUME IInv, NEW size \in BodySizes, NEW bodiless \in BOOLEAN, Answer(size, bodiless)
  PROVE  IInv' /\ (writing' \/ Refused')
<1> DEFINE t == SetData(taken + 1, arrived[taken + 1], size, bodiless)
           e == SetData(taken + 1, arrived[taken + 1], size, FALSE)
<1>0. TypeOK /\ OneAtATime /\ InTurn /\ RepliesWhole
  BY DEF IInv
<1>1. /\ reading /\ taken < Len(arrived) /\ reading' = FALSE /\ taken' = taken + 1
      /\ UNCHANGED <<arrived, eof, replies, shut, failed>>
  BY DEF Answer
<1>2. taken + 1 \in 1..MaxRequests /\ taken + 1 \in 1..Len(arrived)
  BY <1>0, <1>1, TypeParts, HttpSessionAssumption
<1>3. arrived[taken + 1] \in BOOLEAN
  BY <1>0, <1>2, TypeParts
<1>4. /\ t \in Responses /\ t.request = taken + 1
      /\ t.keep = arrived[taken + 1] /\ t.bodiless = bodiless /\ Portioned(t)
  BY <1>2, <1>3, SetDataPortioned
<1>5. e \in Responses
  BY <1>2, <1>3, SetDataPortioned
<1>6. tasks = <<>> /\ ~writing /\ taken = Len(replies) /\ ~failed /\ ~shut
  BY <1>0, <1>1 DEF OneAtATime, InTurn, Alive
<1>7. /\ Len(replies') <= taken' /\ taken' = Len(replies') + 1
      /\ arrived' \in Seq(BOOLEAN) /\ Len(arrived') <= MaxRequests
      /\ taken' \in 0..Len(arrived') /\ replies' \in Seq(Responses)
      /\ eof' \in BOOLEAN /\ reading' \in BOOLEAN /\ shut' \in BOOLEAN /\ failed' \in BOOLEAN
  <2>1. /\ Len(replies') <= taken' /\ taken' = Len(replies') + 1
        /\ arrived' \in Seq(BOOLEAN) /\ Len(arrived') <= MaxRequests
        /\ taken' \in 0..Len(arrived') /\ replies' \in Seq(Responses)
    BY <1>0, <1>1, <1>2, <1>6, TypeParts
  <2>2. eof' \in BOOLEAN /\ reading' \in BOOLEAN /\ shut' \in BOOLEAN /\ failed' \in BOOLEAN
    BY <1>0, <1>1, TypeParts
  <2>3. QED
    BY <2>1, <2>2
<1>8. RepliesWhole'
  BY <1>0, <1>1 DEF RepliesWhole
<1>9. Throws(<<t>>) <=> bodiless
  BY <1>4, Singleton DEF Throws
<1>10. /\ tasks' = IF Throws(<<t>>) THEN tasks \o <<t, e>> ELSE Append(tasks, t)
       /\ writing' = (writing \/ ~Throws(<<t>>))
  BY <1>6, Zenon DEF Answer
<1> HIDE DEF t, e
<1>11. CASE ~bodiless
  <2>1. tasks' = <<t>> /\ writing' = TRUE
    <3>1. tasks' = Append(<<>>, t)
      BY <1>6, <1>9, <1>10, <1>11
    <3>2. writing' = TRUE
      BY <1>6, <1>9, <1>10, <1>11
    <3>3. QED
      BY <1>4, <3>1, <3>2, Singleton, Zenon
  <2>2. tasks' \in Seq(Responses) /\ Len(tasks') = 1 /\ Head(tasks') = t
    BY <1>4, <2>1, Singleton, Zenon
  <2>3. TypeOK'
    <3>1. tasks' # <<>>
      BY <2>2
    <3>2. QED
      BY <1>7, <2>1, <2>2, <3>1 DEF TypeOK
  <2>4. OneAtATime'
    BY <1>1, <1>6, <2>2 DEF OneAtATime
  <2>5. InTurn'
    <3>1. Portioned(Head(tasks'))
      BY <1>4, <2>2
    <3>2. Head(tasks').request = taken' /\ Head(tasks').keep = arrived'[taken']
      BY <1>1, <1>4, <2>2
    <3>3. QED
      BY <1>1, <1>7, <3>1, <3>2 DEF InTurn
  <2>6. QED
    BY <1>8, <2>1, <2>3, <2>4, <2>5 DEF IInv
<1>12. CASE bodiless
  <2>1. tasks' = <<>> \o <<t, e>> /\ writing' = FALSE
    <3>1. tasks' = <<>> \o <<t, e>>
      BY <1>6, <1>9, <1>10, <1>12
    <3>2. writing' = FALSE
      BY <1>6, <1>9, <1>10, <1>12
    <3>3. QED
      BY <3>1, <3>2
  <2>2. tasks' = <<t, e>>
    <3>1. <<t, e>> \in Seq(Responses)
      BY <1>4, <1>5
    <3>2. QED
      BY <2>1, <3>1, ConcatEmptySeq
  <2>3. tasks' \in Seq(Responses) /\ Head(tasks') = t /\ tasks' # <<>>
    BY <1>4, <1>5, <2>2
  <2>4. TypeOK'
    BY <1>7, <2>1, <2>3 DEF TypeOK
  <2>5. OneAtATime' /\ InTurn'
    BY <1>1, <1>7, <2>1 DEF OneAtATime, InTurn, Alive
  <2>6. Refused'
    BY <1>4, <1>12, <2>3 DEF Refused, Throws
  <2>7. QED
    BY <1>8, <2>4, <2>5, <2>6 DEF IInv
<1>13. QED
  BY <1>11, <1>12

(* The peer's close and the ends of a read or a write without a response   *)
(* end what was pending, or leave it alone, and no response is added.      *)
LEMMA EndsIInv ==
  ASSUME IInv,
         \/ PeerCloses
         \/ \E upgrade \in BOOLEAN : OnReadCloses(upgrade)
         \/ OnReadFails
         \/ OnWriteFails
  PROVE  IInv'
<1>0. TypeOK /\ OneAtATime /\ InTurn /\ RepliesWhole
  BY DEF IInv
<1>1. /\ UNCHANGED <<arrived, tasks, replies>>
      /\ taken' \in taken..Len(arrived)
      /\ taken' = taken \/ (~reading' /\ ~writing')
  <2>0. taken \in taken..Len(arrived)
    BY <1>0, TypeParts
  <2>1. CASE PeerCloses \/ OnReadFails \/ OnWriteFails
    BY <2>0, <2>1 DEF PeerCloses, OnReadFails, OnWriteFails
  <2>2. CASE \E upgrade \in BOOLEAN : OnReadCloses(upgrade)
    <3>1. PICK upgrade \in BOOLEAN : OnReadCloses(upgrade)
      BY <2>2
    <3>2. ~writing /\ ~reading'
      BY <1>0, <3>1 DEF OneAtATime, OnReadCloses
    <3>3. taken' \in taken..Len(arrived)
      BY <1>0, <2>0, <3>1, TypeParts DEF OnReadCloses
    <3>4. UNCHANGED <<arrived, tasks, replies, writing>>
      BY <3>1 DEF OnReadCloses
    <3>5. QED
      BY <3>2, <3>3, <3>4
  <2>3. QED
    BY <2>1, <2>2
<1>2. /\ reading' => reading
      /\ writing' => writing
      /\ eof' \in BOOLEAN /\ reading' \in BOOLEAN /\ writing' \in BOOLEAN
      /\ shut' \in BOOLEAN /\ failed' \in BOOLEAN
  <2>1. CASE PeerCloses
    BY <1>0, <2>1, TypeParts, Zenon DEF PeerCloses
  <2>2. CASE \E upgrade \in BOOLEAN : OnReadCloses(upgrade)
    <3>1. reading' = FALSE /\ shut' = TRUE /\ UNCHANGED <<writing, eof, failed>>
      BY <2>2 DEF OnReadCloses
    <3>2. QED
      BY <1>0, <3>1, TypeParts, Zenon
  <2>3. CASE OnReadFails
    BY <1>0, <2>3, TypeParts, Zenon DEF OnReadFails
  <2>4. CASE OnWriteFails
    BY <1>0, <2>4, TypeParts, Zenon DEF OnWriteFails
  <2>5. QED
    BY <2>1, <2>2, <2>3, <2>4, Zenon
<1>3. TypeOK'
  BY <1>0, <1>1, <1>2, TypeParts DEF TypeOK
<1>4. OneAtATime'
  <2>1. Alive' => ~failed' /\ ~shut'
    <3>1. CASE PeerCloses
      BY <1>0, <3>1 DEF PeerCloses, OneAtATime, Alive
    <3>2. CASE \E upgrade \in BOOLEAN : OnReadCloses(upgrade)
      BY <1>0, <3>2 DEF OnReadCloses, OneAtATime, Alive
    <3>3. CASE OnReadFails
      BY <1>0, <3>3 DEF OnReadFails, OneAtATime, Alive
    <3>4. CASE OnWriteFails
      BY <1>0, <3>4 DEF OnWriteFails, OneAtATime, Alive
    <3>5. QED
      BY <3>1, <3>2, <3>3, <3>4
  <2>2. QED
    BY <1>0, <1>1, <1>2, <2>1 DEF OneAtATime
<1>5. InTurn'
  BY <1>0, <1>1, <1>2, TypeParts DEF InTurn
<1>6. RepliesWhole'
  BY <1>0, <1>1 DEF RepliesWhole
<1>7. QED
  BY <1>3, <1>4, <1>5, <1>6 DEF IInv

(* The response at the front of the queue is given its next portion.       *)
LEMMA OnWriteMoreIInv ==
  ASSUME IInv, OnWriteMore
  PROVE  IInv'
<1> USE DEF OnWriteMore
<1> DEFINE t == Head(tasks)
<1>0. TypeOK /\ OneAtATime /\ InTurn /\ RepliesWhole
  BY DEF IInv
<1>1. t \in Responses /\ Tail(tasks) = <<>>
  BY <1>0, TypeParts, SingleTask
<1>2. Portioned(t) /\ t.more /\ t.request = taken /\ t.keep = arrived[taken] /\ taken = Len(replies) + 1
  BY <1>0 DEF InTurn
<1> DEFINE u == GetNextPortion(t)
<1>3. u \in Responses /\ Portioned(u) /\ u.request = t.request /\ u.keep = t.keep
  <2> HIDE DEF t
  <2>1. QED
    BY <1>1, <1>2, GetNextPortioned
<1>4. tasks' = <<u>>
  <2>1. tasks' = <<u>> \o <<>>
    BY <1>1, Zenon
  <2>2. QED
    BY <1>3, <2>1, Singleton, Zenon
<1> HIDE DEF u, t
<1>5. tasks' \in Seq(Responses) /\ Len(tasks') = 1 /\ Head(tasks') = u
  BY <1>3, <1>4, Singleton, Zenon
<1>6. TypeOK'
  BY <1>0, <1>5, TypeParts DEF TypeOK
<1>7. OneAtATime'
  BY <1>0, <1>5 DEF OneAtATime, Alive
<1>8. InTurn'
  <2>1. ~reading'
    BY <1>0 DEF OneAtATime
  <2>2. Len(replies') <= taken' /\ taken' = Len(replies') + 1
    BY <1>0, <1>2, TypeParts
  <2>3. Portioned(Head(tasks'))
    BY <1>3, <1>5
  <2>4. Head(tasks').request = taken' /\ Head(tasks').keep = arrived'[taken']
    BY <1>2, <1>3, <1>5
  <2>5. QED
    BY <2>1, <2>2, <2>3, <2>4 DEF InTurn
<1>9. RepliesWhole'
  BY <1>0 DEF RepliesWhole
<1>10. QED
  BY <1>6, <1>7, <1>8, <1>9 DEF IInv

(* A response that is complete joins the replies as the next one.          *)
LEMMA OnWriteIInv ==
  ASSUME IInv, OnWrite
  PROVE  IInv'
<1> DEFINE t == Head(tasks)
<1>0. TypeOK /\ OneAtATime /\ InTurn /\ RepliesWhole
  BY DEF IInv
<1>1. t \in Responses /\ Tail(tasks) = <<>> /\ writing /\ ~reading /\ ~t.more
  BY <1>0, TypeParts, SingleTask DEF OnWrite, OneAtATime
<1>2. t.body = Bytes(0, t.size) /\ t.request = taken /\ t.keep = arrived[taken] /\ taken = Len(replies) + 1
  BY <1>0, <1>1 DEF InTurn, Portioned
<1>3. /\ replies' = Append(replies, t)
      /\ UNCHANGED <<arrived, taken, eof, failed>>
      /\ \/ shut' = TRUE /\ writing' = FALSE /\ UNCHANGED <<reading, tasks>>
         \/ tasks' = <<>> /\ writing' = FALSE /\ reading' \in BOOLEAN /\ UNCHANGED shut
  <2>1. CASE ~t.keep
    BY <2>1 DEF OnWrite
  <2>2. CASE t.keep
    <3>1. tasks' = <<>> /\ writing' = FALSE /\ UNCHANGED shut
      BY <1>1, <2>2 DEF OnWrite
    <3>2. reading' \in BOOLEAN
      BY <2>2 DEF OnWrite
    <3>3. QED
      BY <3>1, <3>2 DEF OnWrite
  <2>3. QED
    BY <2>1, <2>2
<1> HIDE DEF t
<1>4. /\ replies' \in Seq(Responses) /\ Len(replies') = taken
      /\ DOMAIN replies' = 1..taken
      /\ \A i \in 1..Len(replies) : replies'[i] = replies[i]
      /\ replies'[taken] = t
  BY <1>0, <1>1, <1>2, <1>3, TypeParts
<1>5. TypeOK'
  <2>1. /\ eof' \in BOOLEAN /\ reading' \in BOOLEAN /\ writing' = FALSE
        /\ shut' \in BOOLEAN /\ failed' \in BOOLEAN
    BY <1>0, <1>3, TypeParts, Zenon
  <2>2. tasks' \in Seq(Responses)
    <3>1. tasks' = tasks \/ tasks' = <<>>
      BY <1>3
    <3>2. tasks \in Seq(Responses) /\ <<>> \in Seq(Responses)
      BY <1>0, TypeParts
    <3>3. QED
      BY <3>1, <3>2
  <2>3. /\ arrived' \in Seq(BOOLEAN) /\ Len(arrived') <= MaxRequests
        /\ taken' \in 0..Len(arrived')
    BY <1>0, <1>3 DEF TypeOK
  <2>4. QED
    BY <1>4, <2>1, <2>2, <2>3 DEF TypeOK
<1>6. OneAtATime'
  BY <1>0, <1>1, <1>3 DEF OneAtATime, Alive
<1>7. InTurn'
  BY <1>0, <1>3, <1>4, TypeParts DEF InTurn
<1>8. RepliesWhole'
  <2> SUFFICES ASSUME NEW i \in 1..taken
               PROVE  /\ replies'[i].request = i
                      /\ replies'[i].keep = arrived[i]
                      /\ replies'[i].body = Bytes(0, replies'[i].size)
    BY <1>3, <1>4 DEF RepliesWhole
  <2>1. CASE i = taken
    BY <1>2, <1>4, <2>1
  <2>2. CASE i # taken
    <3>1. i \in 1..Len(replies) /\ i \in DOMAIN replies
      BY <1>0, <1>2, <2>2, TypeParts
    <3>2. replies'[i] = replies[i]
      BY <1>4, <3>1
    <3>3. QED
      BY <1>0, <3>1, <3>2 DEF RepliesWhole
  <2>3. QED
    BY <2>1, <2>2
<1>9. QED
  BY <1>5, <1>6, <1>7, <1>8 DEF IInv

(* Every step preserves the invariant. *)
LEMMA NextIInv == IInv /\ [Next]_vars => IInv'
<1> SUFFICES ASSUME IInv, [Next]_vars PROVE IInv'
  OBVIOUS
<1>1. CASE \E keep \in BOOLEAN : PeerSends(keep)
  BY <1>1, PeerSendsIInv
<1>2. CASE \/ \E size \in BodySizes : OnReadRejects(size)
           \/ \E size \in BodySizes, bodiless \in BOOLEAN : OnRead(size, bodiless)
  BY <1>2, AnswerIInv DEF OnReadRejects, OnRead
<1>3. CASE PeerCloses \/ (\E upgrade \in BOOLEAN : OnReadCloses(upgrade)) \/ OnReadFails \/ OnWriteFails
  BY <1>3, EndsIInv
<1>4. CASE OnWriteMore
  BY <1>4, OnWriteMoreIInv
<1>5. CASE OnWrite
  BY <1>5, OnWriteIInv
<1>6. CASE UNCHANGED vars
  BY <1>6 DEF vars, IInv, TypeOK, OneAtATime, InTurn, RepliesWhole, Alive
<1>7. QED
  BY <1>1, <1>2, <1>3, <1>4, <1>5, <1>6 DEF Next

-----------------------------------------------------------------------------
(* The inductive invariant holds throughout: the strand, Queue and         *)
(* OutputPack keep one response at a time, in turn, in whole portions.     *)
THEOREM HttpSessionInvariant == Spec => []IInv
BY InitIInv, NextIInv, PTL DEF Spec

(* The type invariant of the session: a write is pending only for a        *)
(* response in the queue.                                                  *)
THEOREM HttpTypeOK == Spec => []TypeOK
<1>1. IInv => TypeOK
  BY DEF IInv
<1>2. QED
  BY <1>1, HttpSessionInvariant, PTL

(* The session is in the middle of one exchange, whatever its pipeline     *)
(* limit is, and of none once it was closed or an operation failed: OnRead *)
(* does not read on, and nothing is started by an operation that failed.   *)
THEOREM HttpOneExchange == Spec => []OneExchangeAtATime
<1>1. IInv => OneExchangeAtATime
  BY DEF IInv, OneAtATime, InTurn, OneExchangeAtATime, Alive
<1>2. QED
  BY <1>1, HttpSessionInvariant, PTL

(* The responses go out in the order of the requests, each with its whole  *)
(* body once, whatever the body's size is to the chunk size.               *)
THEOREM HttpRepliesWhole == Spec => []RepliesWhole
<1>1. IInv => RepliesWhole
  BY DEF IInv
<1>2. QED
  BY <1>1, HttpSessionInvariant, PTL

(* With a pipeline limit of one a session that was not closed, whose       *)
(* operations did not fail and whose handlers gave no status without a     *)
(* body always has a read or a write pending: OnWrite finds the queue full *)
(* and reads on.                                                           *)
THEOREM HttpKeepAliveKept ==
  ASSUME Limit = 1
  PROVE  Spec => []KeepAliveKept
<1>1. Init => KeepAliveKept
  BY DEF Init, KeepAliveKept, Alive
<1>2. IInv /\ KeepAliveKept /\ [Next]_vars => KeepAliveKept'
  <2> SUFFICES ASSUME IInv, KeepAliveKept, [Next]_vars PROVE KeepAliveKept'
    OBVIOUS
  <2>0. TypeOK /\ OneAtATime
    BY DEF IInv
  <2> USE DEF KeepAliveKept, Alive, Refused, Throws
  <2>1. CASE \E keep \in BOOLEAN : PeerSends(keep)
    BY <2>1 DEF PeerSends
  <2>2. CASE PeerCloses
    BY <2>2 DEF PeerCloses
  <2>3. CASE \/ \E size \in BodySizes : OnReadRejects(size)
             \/ \E size \in BodySizes, bodiless \in BOOLEAN : OnRead(size, bodiless)
    BY <2>3, AnswerIInv DEF OnReadRejects, OnRead
  <2>4. CASE \E upgrade \in BOOLEAN : OnReadCloses(upgrade)
    BY <2>4 DEF OnReadCloses
  <2>5. CASE OnReadFails \/ OnWriteFails
    BY <2>5 DEF OnReadFails, OnWriteFails
  <2>6. CASE OnWriteMore
    BY <2>6 DEF OnWriteMore
  <2>7. CASE OnWrite
    <3>1. Len(tasks) = 1
      BY <2>0, <2>7, TypeParts, SingleTask DEF OnWrite
    <3>2. CASE Head(tasks).keep
      <4>1. Len(tasks) >= Limit
        BY <3>1
      <4>2. ~Throws(Tail(tasks))
        BY <2>0, <2>7, SingleTask DEF OnWrite
      <4>3. reading'
        BY <2>7, <3>2, <4>1, <4>2, Zenon DEF OnWrite
      <4>4. QED
        BY <4>3
    <3>3. CASE ~Head(tasks).keep
      <4>1. shut'
        BY <2>7, <3>3 DEF OnWrite
      <4>2. QED
        BY <4>1
    <3>4. QED
      BY <3>2, <3>3
  <2>8. CASE UNCHANGED vars
    BY <2>8 DEF vars
  <2>9. QED
    BY <2>1, <2>2, <2>3, <2>4, <2>5, <2>6, <2>7, <2>8 DEF Next
<1>3. QED
  BY <1>1, <1>2, HttpSessionInvariant, PTL DEF Spec
=============================================================================
