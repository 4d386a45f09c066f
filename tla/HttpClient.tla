----------------------------- MODULE HttpClient -----------------------------
(***************************************************************************)
(* The client of RPC over HTTP: Http::Clients, whose sessions publish each *)
(* message as a request of their own, and Http::Connection, which makes a  *)
(* socket for it, or posts it on the one it has.                           *)
(*                                                                         *)
(* A socket is closed after its first response; who publishes at the same  *)
(* time finds it made, connecting, in use or closed.  m_session of a       *)
(* connection is tested, set and used without a lock, so two threads may   *)
(* each make a socket, or both run the same one (each access to the        *)
(* pointer is atomic here).  A connection that was replaced is freed by    *)
(* who holds it last; its sockets go with it and none of their handlers is *)
(* called any more.                                                        *)
(* OnClose of the session does nothing ("may be try to reconnect"): what   *)
(* was lost with a socket is for the timeout of PSClient.                  *)
(***************************************************************************)
EXTENDS Integers, Sequences

CONSTANTS
    Calls,       \* bound: messages published, each by a thread of its own
    Clients,     \* the sessions, by their identifier
    IdOf,        \* the session of each message
    MaxSockets,  \* bound: sockets made
    MaxFaults    \* bound: failures of the network

ASSUME HttpClientAssumption == IdOf \in [Calls -> Clients] /\ {MaxSockets, MaxFaults} \subseteq Nat

VARIABLES
    session,      \* of each id: in the table, client closed and m_needForClose in one
    connections,  \* m_session of the connections made (0 for none)
    sockets,      \* the sockets made
    call,         \* where each message is in Publish, and the connection it holds
    arriving,     \* the messages that went out first on a connected socket
    received,     \* what OnData of the client was given for a message
    faults        \* failures so far

clientVars == <<session, connections, sockets, call, arriving, received, faults>>

ClientInit ==
    /\ session = [i \in Clients |-> [up |-> TRUE, connection |-> 0]]
    /\ connections = <<>>
    /\ sockets = <<>>
    /\ call = [r \in Calls |-> [at |-> "idle", connection |-> 0]]
    /\ arriving = {}
    /\ received = [r \in Calls |-> <<>>]
    /\ faults = 0

Fault == faults < MaxFaults /\ faults' = faults + 1

\* A socket of connection c: connect is the message it connects for, sent what
\* was written on it or waits behind the connect, bad the messages whose
\* handlers will be called with an error.
NewSocket(c) == [connection |-> c, state |-> "made", closed |-> FALSE, connect |-> {}, sent |-> <<>>, bad |-> {}]

\* m_session->IsClosed() of a connection.
IsClosed(c) == connections[c] # 0 /\ sockets[connections[c]].closed

At(r, at) == [call EXCEPT ![r].at = at]

\* CloseMe: out of the table, OnClose of the client, m_needForClose.  The
\* client accepts no message and passes no data on any more.
Closed(i) == [session EXCEPT ![i].up = FALSE]

\* Close: the socket is shut down and marked.
Down(socket) == [socket EXCEPT !.state = "down", !.closed = TRUE, !.connect = {}, !.sent = <<>>, !.bad = {}]

\* The connections that the sessions se and the messages in Publish hold.
Held(se, ca) ==
    {se[i].connection : i \in Clients}
        \union {ca[r].connection : r \in {q \in Calls : ca[q].at \notin {"idle", "out"}}}

\* ~Impl of the connections that nobody holds any more: the io_context is
\* stopped and their sockets are destroyed with what was sent on them.
Freed(so, se, ca) ==
    [s \in DOMAIN so |-> IF so[s].connection \in Held(se, ca) THEN so[s] ELSE Down(so[s])]

\* Client::Post, then Publish: GetConnection under m_lock.
GetConnection(r) ==
    LET i == IdOf[r]
        c == session[i].connection
    IN  /\ call[r].at = "idle"
        /\ session[i].up
        /\ IF c = 0 \/ IsClosed(c)
           THEN \/ /\ connections' = Append(connections, 0)
                   /\ session' = [session EXCEPT ![i].connection = Len(connections) + 1]
                   /\ call' = [call EXCEPT ![r] = [at |-> "test", connection |-> Len(connections) + 1]]
                   /\ UNCHANGED faults
                \/ /\ Fault       \* the host is not resolved
                   /\ session' = Closed(i)
                   /\ call' = At(r, "out")
                   /\ UNCHANGED connections
           ELSE /\ call' = [call EXCEPT ![r] = [at |-> "test", connection |-> c]]
                /\ UNCHANGED <<session, connections, faults>>
        /\ sockets' = Freed(sockets, session', call')
        /\ UNCHANGED <<arriving, received>>

\* MakeRequest tests m_session.
MakeRequest(r) ==
    LET c == call[r].connection
    IN  /\ call[r].at = "test"
        /\ call' = At(r, IF connections[c] = 0 \/ IsClosed(c) THEN "make" ELSE "post")
        /\ UNCHANGED <<session, connections, sockets, arriving, received, faults>>

\* m_session is set.
MakeSocket(r) ==
    LET c == call[r].connection
    IN  /\ call[r].at = "make"
        /\ Len(sockets) < MaxSockets
        /\ sockets' = Append(sockets, NewSocket(c))
        /\ connections' = [connections EXCEPT ![c] = Len(sockets) + 1]
        /\ call' = At(r, "run")
        /\ UNCHANGED <<session, arriving, received, faults>>

\* m_session is read again and starts to connect for r.  Run by another thread
\* before, it is closed and opened anew: what was under way on it ends with an
\* error.
Run(r) ==
    LET s == connections[call[r].connection]
    IN  /\ call[r].at = "run"
        /\ call' = At(r, "out")
        /\ sockets' = Freed([sockets EXCEPT ![s].state = "connecting", ![s].connect = {r}, ![s].sent = <<>>,
                                            ![s].bad = @ \union sockets[s].connect
                                                         \union {sockets[s].sent[k] : k \in DOMAIN sockets[s].sent}],
                            session, call')
        /\ UNCHANGED <<session, connections, arriving, received, faults>>

\* Post on m_session: closed by now it throws, and Publish calls CloseMe.  A
\* write waits behind the connect that is under way, and fails if the socket has
\* not been opened.
Post(r) ==
    LET s == connections[call[r].connection]
    IN  /\ call[r].at = "post"
        /\ call' = At(r, "out")
        /\ session' = IF sockets[s].closed THEN Closed(IdOf[r]) ELSE session
        /\ sockets' = Freed(IF sockets[s].closed THEN sockets
                            ELSE IF sockets[s].state \in {"connecting", "open"}
                            THEN [sockets EXCEPT ![s].sent = Append(@, r)]
                            ELSE [sockets EXCEPT ![s].bad = @ \union {r}],
                            session', call')
        /\ UNCHANGED <<connections, arriving, received, faults>>

\* OnConnect, after the handlers of what failed before.  The flag is reset,
\* whatever happened meanwhile, and the message goes out behind those that
\* waited.
OnConnect(s) ==
    \E r \in sockets[s].connect :
        /\ sockets[s].bad = {}
        /\ LET sent == Append(sockets[s].sent, r)
           IN  /\ sockets' = [sockets EXCEPT ![s].state = "open", ![s].closed = FALSE, ![s].connect = {}, ![s].sent = sent]
               /\ arriving' = arriving \union {Head(sent)}
        /\ UNCHANGED <<session, connections, call, received, faults>>

\* OnConnect with an error, which a Close before it may be the reason of.
ConnectFails(s) ==
    /\ sockets[s].connect # {} /\ sockets[s].bad = {}
    /\ IF sockets[s].closed THEN UNCHANGED faults ELSE Fault
    /\ sockets' = [sockets EXCEPT ![s] = Down(@)]
    /\ UNCHANGED <<session, connections, call, arriving, received>>

\* OnConnect or OnWrite with an error, for a connect that another has stopped or
\* a message posted too early: the socket is marked.
OnWriteFails(s, r) ==
    /\ r \in sockets[s].bad
    /\ sockets' = [sockets EXCEPT ![s].bad = @ \ {r}, ![s].closed = TRUE]
    /\ UNCHANGED <<session, connections, call, arriving, received, faults>>

\* A read or a write that ends with an error, on a socket that failed or that
\* the server has closed: Close.
OnReadFails(s) ==
    /\ sockets[s].state = "open"
    /\ Fault
    /\ sockets' = [sockets EXCEPT ![s] = Down(@)]
    /\ UNCHANGED <<session, connections, call, arriving, received>>

\* Mutant of OnRead: the connection is kept for the next request.
OnReadKeeps(s, r, reply) ==
    LET i == IdOf[r]
    IN  /\ sockets[s].state = "open" /\ sockets[s].sent # <<>> /\ Head(sockets[s].sent) = r
        /\ IF ~reply.header \/ reply.data = <<>>
           THEN session' = Closed(i) /\ UNCHANGED received
           ELSE /\ received' = IF session[i].up THEN [received EXCEPT ![r] = reply.data] ELSE received
                /\ UNCHANGED session
        /\ sockets' = [sockets EXCEPT ![s].sent = Tail(@)]
        /\ UNCHANGED <<connections, call, arriving, faults>>

\* OnRead and OnRequestDone: a reply with this session's id and data goes to
\* the client, any other reply closes the client; then Close.
OnRead(s, r, reply) ==
    LET i == IdOf[r]
    IN  /\ sockets[s].state = "open" /\ sockets[s].sent # <<>> /\ Head(sockets[s].sent) = r
        /\ IF ~reply.header \/ reply.data = <<>>
           THEN session' = Closed(i) /\ UNCHANGED received
           ELSE /\ received' = IF session[i].up THEN [received EXCEPT ![r] = reply.data] ELSE received
                /\ UNCHANGED session
        /\ sockets' = [sockets EXCEPT ![s] = Down(@)]
        /\ UNCHANGED <<connections, call, arriving, faults>>

ClientStep(r) == GetConnection(r) \/ MakeRequest(r) \/ MakeSocket(r) \/ Run(r) \/ Post(r)
SocketStep(s) ==
    \/ OnConnect(s) \/ ConnectFails(s) \/ OnReadFails(s)
    \/ \E r \in Calls : OnWriteFails(s, r)
=============================================================================
