----------------------------- MODULE ClientChain ----------------------------
(***************************************************************************)
(* The chain of clients behind a connection: net/clients_chain.h and       *)
(* net/client.h, the protocols and the factory of remote/predefined, and   *)
(* the filters that a message goes through.                                *)
(*                                                                         *)
(* A buffer is <<"message", m>>, <<"zip", buffer>>, <<"frame", buffer>> or *)
(* Empty.  A chain is the flag of the ClientsChain itself and its clients  *)
(* in order, each with its flag m_makredAsClosed and how often Close ran.  *)
(* What becomes of a buffer is <<"posted", buffer>> at the publisher of    *)
(* the chain, <<"delivered", buffer>> to the client that ends the way in,  *)
(* <<"dropped">>, <<"throws">> to the caller, or <<"closes">>: the control *)
(* of the chain was asked to close.                                        *)
(***************************************************************************)
EXTENDS Integers, Sequences, SequencesExt, FiniteSetsExt

Empty == <<"empty">>

\* The protocols, in the order of the data.
SimpleFrame == <<"FrameReader", "ParallelHandler", "PSClient", "FrameWriter">>
ArchivedFrame ==
    <<"FrameReader", "ParallelHandler", "GZipDecompressor", "PSClient", "GZipCompressor", "FrameWriter">>

\* MakeClientFactory: the arguments that clients of a type are made with.
ClientCreators ==
    <<[type |-> "ParallelHandler", args |-> "workers"], [type |-> "PSClient", args |-> "timeout and factory"]>>

-----------------------------------------------------------------------------
\* Holder::CreateClient: the first creator for the type of the client, or
\* none of them.
NewClient(type, creators) ==
    LET found == {i \in DOMAIN creators : creators[i].type = type}
    IN  [type |-> type, args |-> IF found = {} THEN "none" ELSE creators[Min(found)].args,
         marked |-> FALSE, closed |-> 0]

CreateChain(types, creators) ==
    [marked |-> FALSE, clients |-> [i \in DOMAIN types |-> NewClient(types[i], creators)]]

\* The place of the client of a type: GetClient asks one holder after the
\* other; 0 when ChainClient throws.
GetClientItem(chain, type) ==
    LET found == {i \in DOMAIN chain.clients : chain.clients[i].type = type}
    IN  IF found = {} THEN 0 ELSE Min(found)

\* Client::OnClose marks first and calls Close() only when it is marked.
ClientOnClose(c) == IF c.marked THEN [c EXCEPT !.closed = @ + 1] ELSE [c EXCEPT !.marked = TRUE]

\* Mutant of ChainOnClose: the clients are told first.
ChainOnCloseInside(chain) ==
    [chain EXCEPT !.clients = [i \in DOMAIN @ |-> ClientOnClose(@[i])]]

\* OnClose of the chain; its Close() is OnClose of every holder.
ChainOnClose(chain) ==
    IF chain.marked THEN [chain EXCEPT !.clients = [i \in DOMAIN @ |-> ClientOnClose(@[i])]]
    ELSE [chain EXCEPT !.marked = TRUE]

\* A client asks its control, the holder, and so every holder after it, to
\* close; the last one asks the chain, which asks the session.
ClientCloseMe(chain, i) ==
    IF chain.clients[i].marked \/ chain.marked THEN <<"dropped">> ELSE <<"closes">>

-----------------------------------------------------------------------------
\* ProcessData: what a client posts to the next one.  Empty stands for nothing:
\* a filter that throws (the next client would refuse an empty buffer in any
\* case), PSClient, which keeps what it gets, and what was refused before.
Compress(b) == <<"zip", b>>
Decompress(b) == IF b[1] = "zip" THEN b[2] ELSE Empty

Filter(type, b) ==
    IF b = Empty \/ type = "PSClient" THEN Empty
    ELSE CASE type = "GZipCompressor" -> Compress(b)
           [] type = "GZipDecompressor" -> Decompress(b)
           [] type = "FrameWriter" -> <<"frame", b>>
           [] type = "FrameReader" -> b[2]
           [] type = "ParallelHandler" -> b

\* ChainClient::OnData: the end of the chain posts for the chain.
ChainPost(chain, b) == IF chain.marked THEN <<"dropped">> ELSE <<"posted", b>>

\* What comes to the holders from i on and to the end of the chain when b
\* comes to the one at i: each publishes to OnData of the next.
Passed(chain, i, b) ==
    LET passed[k \in 0 .. Len(chain.clients) + 1 - i] ==
            IF k = 0 THEN b ELSE Filter(chain.clients[i + k - 1].type, passed[k - 1])
    IN  passed

\* OnData of a client that does not post: it is marked, it refuses an empty
\* buffer, or it is PSClient.
Keeps(c, b) == c.marked \/ b = Empty \/ c.type = "PSClient"

Kept(c, b) ==
    IF c.marked THEN <<"dropped">> ELSE IF b = Empty THEN <<"throws">> ELSE <<"delivered", b>>

\* OnData of the holder at i: the buffer goes from client to client, as far as
\* the first that keeps it.  What is thrown there comes back as far as the last
\* ParallelHandler on the way, whose worker catches it and asks to close.
HolderOnData(chain, i, b) ==
    LET end == Len(chain.clients) + 1
        got(k) == Passed(chain, i, b)[k - i]
        stop == Min({k \in i .. end - 1 : Keeps(chain.clients[k], got(k))} \cup {end})
        outcome == IF stop = end THEN ChainPost(chain, got(end)) ELSE Kept(chain.clients[stop], got(stop))
        workers == {k \in i .. stop - 1 : chain.clients[k].type = "ParallelHandler"}
    IN  IF outcome = <<"throws">> /\ workers # {} THEN ClientCloseMe(chain, Max(workers)) ELSE outcome

\* Client::OnData of the chain, and Client::Post of the client at i.
ChainOnData(chain, b) == IF chain.marked THEN <<"dropped">> ELSE HolderOnData(chain, 1, b)
ClientPost(chain, i, b) ==
    IF chain.clients[i].marked THEN <<"dropped">> ELSE HolderOnData(chain, i + 1, b)

=============================================================================
