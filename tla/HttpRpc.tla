------------------------------ MODULE HttpRpc -------------------------------
(***************************************************************************)
(* RPC over HTTP: the clients of HttpClient and the Servlet that answers   *)
(* them, with the HTTP server in between.  All requests are sent with      *)
(* keep-alive off and a session of the server reads no further before its  *)
(* first response is written (HttpSession), so only the first request on a *)
(* socket is served.  Requests of others have no session id or no body.    *)
(***************************************************************************)
EXTENDS HttpClient, Servlet

CONSTANTS
    Foreign   \* requests that are not made by these clients

ASSUME HttpRpcAssumption == Foreign \intersect Calls = {} /\ Requests = Foreign \union Calls /\ Clients \subseteq Ids

VARIABLES
    served    \* the requests that were handed to the servlet

vars == <<clientVars, servletVars, served>>

Init == ClientInit /\ ServletInit /\ served = {}

Sockets == DOMAIN sockets

\* Listener::OnAccept, Session::Run and HandleRequest: the first request on a
\* socket reaches the handler, also when the client has left by now.
Serve(r) ==
    /\ r \in arriving \ served
    /\ served' = served \union {r}
    /\ \E w \in Workers : OnRequest(w, r, IdOf[r], TRUE)
    /\ UNCHANGED clientVars

ServeForeign(r) ==
    /\ r \notin served
    /\ served' = served \union {r}
    /\ \E w \in Workers :
        \/ OnRequest(w, r, NoId, TRUE)
        \/ \E id \in Ids : OnRequest(w, r, id, FALSE)
    /\ UNCHANGED clientVars

\* The reply to the first request on a socket reaches the client.
Respond(s, r) ==
    /\ replies[r] # <<>>
    /\ OnRead(s, r, replies[r][1])
    /\ UNCHANGED <<servletVars, served>>

ClientSide ==
    /\ (\E r \in Calls : ClientStep(r)) \/ (\E s \in Sockets : SocketStep(s))
    /\ UNCHANGED <<servletVars, served>>

ServerSide ==
    /\ OnCleaner \/ Tick \/ (\E w \in Workers : WorkerStep(w))
    /\ UNCHANGED <<clientVars, served>>

Next ==
    \/ ClientSide
    \/ ServerSide
    \/ \E r \in Calls : Serve(r) \/ \E s \in Sockets : Respond(s, r)
    \/ \E r \in Foreign : ServeForeign(r)

Spec == Init /\ [][Next]_vars

-----------------------------------------------------------------------------
\* What a client is given for a message is what was published first while this
\* message was processed, and the reply to any request, an error too, is its
\* own: Session::OnData keeps responses and exceptions by thread.
RepliesOwned ==
    /\ \A r \in Calls : received[r] \in {<<>>, <<r, 1>>}
    /\ \A r \in Requests : replies[r] # <<>> => replies[r][1].data \in {<<>>, <<r, 1>>, <<r, 0>>}

\* A socket that is not marked as closed has been made, is connecting or waits
\* for the response to its first request, so that its connection never offers
\* one that the server has left: every response and every error closes it,
\* whoever ran it or posted what, and when, on it.
SocketsInUse ==
    \A s \in Sockets :
        \/ sockets[s].closed
        \/ sockets[s].state \in {"made", "connecting"}
        \/ sockets[s].state = "open" /\ sockets[s].sent # <<>>
=============================================================================
