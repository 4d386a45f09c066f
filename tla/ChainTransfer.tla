---------------------------- MODULE ChainTransfer ---------------------------
(***************************************************************************)
(* A message from PSClient at one end of a connection to PSClient at the   *)
(* other, through the chains of clients of both ends: the protocols are    *)
(* the same or not, and OnClose came to either end before, any number of   *)
(* times.                                                                  *)
(*                                                                         *)
(* This is one of the conversions of the library: a job is an input, its   *)
(* result what the code makes of it.                                       *)
(***************************************************************************)
EXTENDS ClientChain

CONSTANTS
    Contents,  \* contents of messages
    MaxCloses  \* how often OnClose of a chain is called

ASSUME ChainTransferAssumption == MaxCloses \in Nat

VARIABLES job, result

Idle == [kind |-> "idle"]

Convert(j, r) == job' = j /\ result' = r

-----------------------------------------------------------------------------
\* The chain after n calls of OnClose.
Closing(chain, n) ==
    LET closing[k \in 0 .. n] == IF k = 0 THEN chain ELSE ChainOnClose(closing[k - 1])
    IN  closing[n]

\* PSClient of one end posts b, the other end gets what was published.
Transfer(sender, receiver, b) ==
    LET item == GetClientItem(sender, "PSClient")
        out == ClientPost(sender, item, b)
    IN  [client |-> sender.clients[item], out |-> out,
         in |-> IF out[1] = "posted" THEN ChainOnData(receiver, out[2]) ELSE out]

SendThroughChain ==
    /\ job = Idle
    /\ \E from, to \in {SimpleFrame, ArchivedFrame}, m, n \in 0 .. MaxCloses,
          b \in {Empty} \cup {<<"message", x>> : x \in Contents} :
           Convert([kind |-> "chain", from |-> from, to |-> to, closes |-> <<m, n>>, buffer |-> b],
                   Transfer(Closing(CreateChain(from, ClientCreators), m),
                            Closing(CreateChain(to, ClientCreators), n), b))

\* Every other conversion, and the end of one.
OtherJob == job'.kind # "chain"

ChainSpec == job = Idle /\ [][SendThroughChain \/ OtherJob]_<<job, result>>

-----------------------------------------------------------------------------
(***************************************************************************)
(* What PSClient posts is what PSClient of the other end gets, through the *)
(* filters of either protocol and in their order; a chain that was closed  *)
(* once lets nothing through in either direction although its clients do   *)
(* not know yet; a buffer that cannot be decompressed closes the session,  *)
(* but one that should be is taken for a message by a chain that does not; *)
(* nothing empty is published; PSClient is told with the third OnClose and *)
(* not before; and the item of the chain is the client with its arguments. *)
(***************************************************************************)
ChainCarries ==
    job.kind = "chain" =>
        LET open == job.closes = <<0, 0>> /\ job.buffer # Empty
        IN  /\ open /\ job.from = job.to => result.in = <<"delivered", job.buffer>>
            /\ open /\ job.from = SimpleFrame /\ job.to = ArchivedFrame => result.in = <<"closes">>
            /\ open /\ job.from = ArchivedFrame /\ job.to = SimpleFrame =>
                   result.in = <<"delivered", Compress(job.buffer)>>
            /\ ~open => result.in[1] # "delivered"
            /\ job.closes[1] > 0 \/ job.buffer = Empty => result.out[1] # "posted"
            /\ result.client.closed = (IF job.closes[1] < 3 THEN 0 ELSE job.closes[1] - 2)
            /\ result.client.args = "timeout and factory"
=============================================================================
