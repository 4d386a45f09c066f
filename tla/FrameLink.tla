------------------------------ MODULE FrameLink ------------------------------
(***************************************************************************)
(* One direction of a framed TCP connection: FrameWriter puts a length     *)
(* before each message, Session::Publish starts an async_write for it on   *)
(* the io thread, the bytes travel, Session::DoRead takes what is there    *)
(* and FrameReader cuts it into messages again.                            *)
(*                                                                         *)
(* Writes are not queued by the session: every Publish starts its own      *)
(* async_write.  One that the socket takes only partly goes on after the   *)
(* others that are outstanding have had their turn.                        *)
(*                                                                         *)
(* FrameReader::OnData takes at most one message out of its buffer, each   *)
(* time data arrive.                                                       *)
(*                                                                         *)
(* A byte is <<m, k>>: the k-th byte of the frame of message m.            *)
(***************************************************************************)
EXTENDS Integers, FiniteSets, Sequences, SequencesExt

CONSTANTS
  Messages,    \* the messages, each sent once
  Size,        \* bytes of the content of each message
  HeaderBytes, \* sizeof(frameBytes)
  MaxRead,     \* size of the buffer of DoRead
  MaxWrites    \* writes that the threads above have outstanding at once

ASSUME FrameLinkAssumption ==
  /\ Size \in [Messages -> Nat \ {0}]
  /\ HeaderBytes \in Nat \ {0}
  /\ MaxRead \in Nat \ {0}
  /\ MaxWrites \in Nat \ {0}

VARIABLES
  order,     \* history: the messages in the order of their async_write
  outbox,    \* outstanding writes: what is left of each, in turn
  wire,      \* bytes between the sockets
  buffer,    \* FrameReader's m_buffer
  delivered, \* the messages FrameReader has posted, as sequences of bytes
  mixed      \* history: a write was half done while another was outstanding

linkVars == <<order, outbox, wire, buffer, delivered, mixed>>

-----------------------------------------------------------------------------
(* FrameWriter::ProcessData: the length, then the content. *)
Frame(m)   == [k \in 1..(HeaderBytes + Size[m]) |-> <<m, k>>]
Payload(m) == SubSeq(Frame(m), HeaderBytes + 1, HeaderBytes + Size[m])

Bytes == UNION {{<<m, k>> : k \in 1..(HeaderBytes + Size[m])} : m \in Messages}

TypeOK ==
  /\ order \in Seq(Messages)
  /\ outbox \in Seq(Seq(Bytes) \ {<<>>})
  /\ wire \in Seq(Bytes)
  /\ buffer \in Seq(Bytes)
  /\ delivered \in Seq(Seq(Bytes))
  /\ mixed \in BOOLEAN

LinkInit ==
  /\ order = <<>>
  /\ outbox = <<>>
  /\ wire = <<>>
  /\ buffer = <<>>
  /\ delivered = <<>>
  /\ mixed = FALSE

(* The first write is half done. *)
HalfDone == outbox # <<>> /\ Head(outbox)[1][2] # 1

(* Post through FrameWriter and Session::Publish to async_write, which      *)
(* nothing in Publish delays, a half done write included.                   *)
Publish(m) ==
  /\ m \notin Range(order)
  /\ Len(outbox) < MaxWrites
  /\ order' = Append(order, m)
  /\ outbox' = Append(outbox, Frame(m))
  /\ mixed' = (mixed \/ HalfDone)
  /\ UNCHANGED <<wire, buffer, delivered>>

(* The socket takes n bytes of the write whose turn it is; a write that is *)
(* not complete gets in line again.                                        *)
WriteSome(n) ==
  LET rest == SubSeq(Head(outbox), n + 1, Len(Head(outbox))) IN
  /\ mixed' = (mixed \/ (rest # <<>> /\ Len(outbox) > 1))
  /\ wire' = wire \o SubSeq(Head(outbox), 1, n)
  /\ outbox' = Tail(outbox) \o (IF rest = <<>> THEN <<>> ELSE <<rest>>)
  /\ UNCHANGED <<order, buffer, delivered>>

(* The lengths FrameReader may find at the head of buf: the one FrameWriter *)
(* put there, or any number if these bytes are not the head of a frame.     *)
(* Len(buf) stands for every length that leaves the buffer as it is: one    *)
(* that is too large, one below -4, which the sum with the size turns into  *)
(* such a one, and -4 to -1, where assign throws and DoRead goes on.        *)
Lengths(buf) ==
  {Size[m] : m \in {m \in Messages :
     SubSeq(buf, 1, HeaderBytes) = SubSeq(Frame(m), 1, HeaderBytes)}}

Decoded(buf) == IF Lengths(buf) = {} THEN 0..Len(buf) ELSE Lengths(buf)

(* Mutants of OnData.  The length is left in the buffer: *)
OnDataKeepsLength(buf) ==
  \/ Len(buf) < HeaderBytes /\ buffer' = buf /\ UNCHANGED delivered
  \/ /\ Len(buf) >= HeaderBytes
     /\ \E frameBytes \in Decoded(buf) :
          IF Len(buf) < frameBytes + HeaderBytes
            THEN buffer' = buf /\ UNCHANGED delivered
            ELSE /\ delivered' = Append(delivered,
                      SubSeq(buf, HeaderBytes + 1, HeaderBytes + frameBytes))
                 /\ buffer' = SubSeq(buf, frameBytes + 1, Len(buf))

(* what follows the message is dropped:                                     *)
OnDataDropsRest(buf) ==
  \/ Len(buf) < HeaderBytes /\ buffer' = buf /\ UNCHANGED delivered
  \/ /\ Len(buf) >= HeaderBytes
     /\ \E frameBytes \in Decoded(buf) :
          IF Len(buf) < frameBytes + HeaderBytes
            THEN buffer' = buf /\ UNCHANGED delivered
            ELSE /\ delivered' = Append(delivered,
                      SubSeq(buf, HeaderBytes + 1, HeaderBytes + frameBytes))
                 /\ buffer' = <<>>

(* a message is posted only when a byte follows it:                         *)
OnDataWaitsForMore(buf) ==
  \/ Len(buf) < HeaderBytes /\ buffer' = buf /\ UNCHANGED delivered
  \/ /\ Len(buf) >= HeaderBytes
     /\ \E frameBytes \in Decoded(buf) :
          IF Len(buf) <= frameBytes + HeaderBytes
            THEN buffer' = buf /\ UNCHANGED delivered
            ELSE /\ delivered' = Append(delivered,
                      SubSeq(buf, HeaderBytes + 1, HeaderBytes + frameBytes))
                 /\ buffer' = SubSeq(buf, HeaderBytes + frameBytes + 1, Len(buf))

(* FrameReader::Impl::OnData with the bytes collected so far in buf: wait   *)
(* for the length, wait for the content, or post one message.               *)
OnData(buf) ==
  \/ /\ Len(buf) < HeaderBytes
     /\ buffer' = buf
     /\ UNCHANGED delivered
  \/ /\ Len(buf) >= HeaderBytes
     /\ \E frameBytes \in Decoded(buf) :
          IF Len(buf) < frameBytes + HeaderBytes
            THEN buffer' = buf /\ UNCHANGED delivered
            ELSE /\ delivered' = Append(delivered,
                      SubSeq(buf, HeaderBytes + 1, HeaderBytes + frameBytes))
                 /\ buffer' = SubSeq(buf, HeaderBytes + frameBytes + 1, Len(buf))

(* DoRead: async_read_some yields n bytes, and the next read is started. *)
DoRead(n) ==
  /\ wire' = SubSeq(wire, n + 1, Len(wire))
  /\ OnData(buffer \o SubSeq(wire, 1, n))
  /\ UNCHANGED <<order, outbox, mixed>>

WriteStep == outbox # <<>> /\ \E n \in 1..Len(Head(outbox)) : WriteSome(n)
ReadStep  == \E n \in 1..Len(wire) : n <= MaxRead /\ DoRead(n)

LinkNext ==
  \/ \E m \in Messages : Publish(m)
  \/ WriteStep
  \/ ReadStep

(* The io threads on both sides keep going; no message need be published.   *)
LinkSpec == LinkInit /\ [][LinkNext]_linkVars /\ WF_linkVars(WriteStep) /\ WF_linkVars(ReadStep)

-----------------------------------------------------------------------------
(* FrameReader gives back the messages FrameWriter was given: each one      *)
(* whole, none twice, in the order in which the writes were started,        *)
(* however the stream is cut into reads, as long as no write was taken in   *)
(* part while another one was outstanding.                                  *)
Intact ==
  ~mixed =>
    /\ Len(delivered) <= Len(order)
    /\ \A i \in DOMAIN delivered : delivered[i] = Payload(order[i])

(* Nothing is lost or reordered on the way: after the last message taken    *)
(* out, buffer, wire and outstanding writes together are the frames that    *)
(* are still to come.  When writes were mixed, the bytes that are still to  *)
(* come are in another order but still all there until FrameReader takes a  *)
(* length from among them.  And the state has its types.                    *)
StreamKept ==
  LET due  == SubSeq(order, Len(delivered) + 1, Len(order))
      held == buffer \o wire \o FlattenSeq(outbox)
      sent == FlattenSeq([i \in DOMAIN due |-> Frame(due[i])])
  IN  /\ TypeOK
      /\ ~mixed => held = sent
      /\ delivered = <<>> => Len(held) = Len(sent) /\ Range(held) = Range(sent)

(* The first message sent arrives, though nothing need follow it, unless    *)
(* its bytes were mixed with those of another.                              *)
FirstArrives == order # <<>> ~> delivered # <<>> \/ mixed
=============================================================================
