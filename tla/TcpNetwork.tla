----------------------------- MODULE TcpNetwork -----------------------------
(***************************************************************************)
(* A Tcp::Server and a Tcp::Connection to it: the accept loop, the         *)
(* sessions on both sides from connect to close, and GetClient, which      *)
(* connects again when the client it keeps is closed.                      *)
(*                                                                         *)
(* A session has a side at the client (cl) and one at the server (sv); a   *)
(* side runs on one io thread.  What is sent over a session is in          *)
(* FrameLink and PSClient.                                                 *)
(***************************************************************************)
EXTENDS Integers, FiniteSets

CONSTANTS
    Callers,      \* threads of the client that create services by Remote::Factory
    MaxSessions,  \* bound: connections made
    MaxFaults     \* bound: failures of the network and exceptions of a factory

Nobody == "nobody"

ASSUME TcpNetworkAssumption ==
    MaxSessions \in Nat /\ MaxFaults \in Nat /\ Nobody \notin Callers

VARIABLES
    listening,   \* the acceptor of the server is open
    accepting,   \* async_accept is pending
    cl,          \* the client's side of each session
    sv,          \* the server's side of each session
    broken,      \* sessions whose link failed
    connection,  \* the Connection object: none, made or gone
    kept,        \* its m_client: a session, or 0
    lock,        \* who holds its m_lock
    where,       \* where each caller is in Factory::Create
    faults       \* failures so far

netVars == <<listening, accepting, cl, sv, broken, connection, kept, lock, where, faults>>
client  == <<connection, kept, lock, where>>

Sessions == 1..MaxSessions
Live     == {"open", "closing"}

NetInit ==
    /\ listening = FALSE
    /\ accepting = FALSE
    /\ cl = [s \in Sessions |-> "none"]
    /\ sv = [s \in Sessions |-> "none"]
    /\ broken = {}
    /\ connection = "none"
    /\ kept = 0
    /\ lock = Nobody
    /\ where = [t \in Callers |-> "idle"]
    /\ faults = 0

Fault == faults < MaxFaults /\ faults' = faults + 1

-----------------------------------------------------------------------------
(* The server. *)

\* Server::Impl::Impl: resolve, bind and listen, then the first DoAccept.
OpenServer ==
    /\ listening' = TRUE
    /\ accepting' = TRUE
    /\ UNCHANGED <<cl, sv, broken, client, faults>>

\* DoAccept without an error: the session is made and accepting goes on.
Accept(s) ==
    /\ accepting /\ sv[s] = "backlog"
    /\ sv' = [sv EXCEPT ![s] = "open"]
    /\ UNCHANGED <<listening, accepting, cl, broken, client, faults>>

\* An error in accept: the connection is lost, accepting goes on.
AcceptFails(s) ==
    /\ accepting /\ sv[s] = "backlog"
    /\ Fault
    /\ sv' = [sv EXCEPT ![s] = "closed"]
    /\ UNCHANGED <<listening, accepting, cl, broken, client>>

\* Session::Start throws in the factory: DoAccept is not called again.
AcceptThrows(s) ==
    /\ accepting /\ sv[s] = "backlog"
    /\ Fault
    /\ sv' = [sv EXCEPT ![s] = "closed"]
    /\ accepting' = FALSE
    /\ UNCHANGED <<listening, cl, broken, client>>

\* Server::Impl::~Impl: the io thread stops and is joined, then the acceptor
\* and every session are destroyed; no session hears OnClose.
CloseServer ==
    /\ listening' = FALSE
    /\ accepting' = FALSE
    /\ sv' = [s \in Sessions |-> IF sv[s] = "none" THEN "none" ELSE "closed"]
    /\ UNCHANGED <<cl, broken, client, faults>>

-----------------------------------------------------------------------------
(* Sessions. *)

\* Mutant of ReadFails: only the client's side closes on an error.
ReadFailsAtClient(s) ==
    /\ cl[s] = "open" /\ (sv[s] = "closed" \/ s \in broken)
    /\ cl' = [cl EXCEPT ![s] = "closing"]
    /\ UNCHANGED <<sv, listening, accepting, broken, client, faults>>

\* DoRead ends with an error (the other side is closed, or the link failed):
\* CloseMe posts the task that closes.
ReadFails(s) ==
    /\ \/ /\ cl[s] = "open" /\ (sv[s] = "closed" \/ s \in broken)
          /\ cl' = [cl EXCEPT ![s] = "closing"]
          /\ UNCHANGED sv
       \/ /\ sv[s] = "open" /\ (cl[s] = "closed" \/ s \in broken)
          /\ sv' = [sv EXCEPT ![s] = "closing"]
          /\ UNCHANGED cl
    /\ UNCHANGED <<listening, accepting, broken, client, faults>>

\* CloseMe called by a client of the chain, or by a write that failed.
CloseMe(s) ==
    /\ \/ cl[s] = "open" /\ cl' = [cl EXCEPT ![s] = "closing"] /\ UNCHANGED sv
       \/ sv[s] = "open" /\ sv' = [sv EXCEPT ![s] = "closing"] /\ UNCHANGED cl
    /\ UNCHANGED <<listening, accepting, broken, client, faults>>

\* The posted task: Client::OnClose marks the client as closed, and the socket
\* is closed.
OnClose(s) ==
    /\ \/ cl[s] = "closing" /\ cl' = [cl EXCEPT ![s] = "closed"] /\ UNCHANGED sv
       \/ sv[s] = "closing" /\ sv' = [sv EXCEPT ![s] = "closed"] /\ UNCHANGED cl
    /\ UNCHANGED <<listening, accepting, broken, client, faults>>

LinkBreaks(s) ==
    /\ cl[s] \in Live \/ sv[s] \in Live
    /\ s \notin broken
    /\ Fault
    /\ broken' = broken \union {s}
    /\ UNCHANGED <<listening, accepting, cl, sv, client>>

-----------------------------------------------------------------------------
(* The client. *)

\* TcpServiceClient::OnInit.
MakeConnection ==
    /\ connection = "none"
    /\ connection' = "made"
    /\ UNCHANGED <<listening, accepting, cl, sv, broken, kept, lock, where, faults>>

\* The factory is released: ~Connection, ~Clients::Impl stops and joins the io
\* thread and the sockets are destroyed; no client hears OnClose.
DropConnection ==
    /\ connection = "made"
    /\ \A t \in Callers : where[t] = "idle"
    /\ connection' = "gone"
    /\ cl' = [s \in Sessions |-> IF cl[s] = "none" THEN "none" ELSE "closed"]
    /\ UNCHANGED <<listening, accepting, sv, broken, kept, lock, where, faults>>

\* Remote::Factory::Create asks the connection for its client.
CreateService(t) ==
    /\ connection = "made"
    /\ where[t] = "idle"
    /\ where' = [where EXCEPT ![t] = "ask"]
    /\ UNCHANGED <<listening, accepting, cl, sv, broken, connection, kept, lock, faults>>

IsClosed(s) == cl[s] = "closed"

\* Mutant of GetClient: the lock is not taken.
GetClientUnlocked(t) ==
    /\ where[t] = "ask"
    /\ IF kept = 0 \/ IsClosed(kept)
       THEN where' = [where EXCEPT ![t] = "connect"]
       ELSE where' = [where EXCEPT ![t] = "idle"]
    /\ UNCHANGED <<listening, accepting, cl, sv, broken, connection, kept, lock, faults>>

\* GetClient takes m_lock; it keeps the lock if it has to connect.
GetClient(t) ==
    /\ where[t] = "ask" /\ lock = Nobody
    /\ IF kept = 0 \/ IsClosed(kept)
       THEN lock' = t /\ where' = [where EXCEPT ![t] = "connect"]
       ELSE UNCHANGED lock /\ where' = [where EXCEPT ![t] = "idle"]
    /\ UNCHANGED <<listening, accepting, cl, sv, broken, connection, kept, faults>>

\* RunClient returns a session that reads; the lock is released.
RunClient(t, s) ==
    /\ where[t] = "connect"
    /\ listening
    /\ cl[s] = "none" /\ sv[s] = "none"
    /\ \A r \in 1..(s - 1) : cl[r] # "none"
    /\ cl' = [cl EXCEPT ![s] = "open"]
    /\ sv' = [sv EXCEPT ![s] = "backlog"]
    /\ kept' = s
    /\ where' = [where EXCEPT ![t] = "idle"]
    /\ lock' = Nobody
    /\ UNCHANGED <<listening, accepting, broken, connection, faults>>

\* RunClient throws: nobody listens, or the connection cannot be made, or
\* (with the connection made) the factory throws.
RunClientThrows(t) ==
    /\ where[t] = "connect"
    /\ \/ ~listening /\ UNCHANGED <<cl, sv, faults>>
       \/ listening /\ Fault /\ UNCHANGED <<cl, sv>>
       \/ /\ listening /\ Fault
          /\ \E s \in Sessions :
                /\ cl[s] = "none" /\ \A r \in 1..(s - 1) : cl[r] # "none"
                /\ cl' = [cl EXCEPT ![s] = "closed"]
                /\ sv' = [sv EXCEPT ![s] = "backlog"]
    /\ where' = [where EXCEPT ![t] = "idle"]
    /\ lock' = Nobody
    /\ UNCHANGED <<listening, accepting, broken, connection, kept>>

ServerStep  == \E s \in Sessions : Accept(s) \/ AcceptFails(s) \/ AcceptThrows(s)
SessionStep == \E s \in Sessions : ReadFails(s) \/ CloseMe(s) \/ OnClose(s) \/ LinkBreaks(s)
ClientStep  ==
    \/ MakeConnection
    \/ DropConnection
    \/ \E t \in Callers :
        \/ CreateService(t) \/ GetClient(t) \/ RunClientThrows(t)
        \/ \E s \in Sessions : RunClient(t, s)

\* The io threads take the tasks posted to them, and the network reports a
\* closed or a failed peer.  There are finitely many sessions and none of these
\* steps can be taken twice by a side, so no session has to be named.
NetFairness ==
    /\ WF_netVars(ServerStep)
    /\ WF_netVars(\E s \in Sessions : ReadFails(s) \/ OnClose(s))

-----------------------------------------------------------------------------
\* A Connection has one client at a time that is not closed, whatever its
\* callers do at once: GetClient tests and replaces m_client under m_lock.
OneOpenSession == \A r, s \in Sessions : cl[r] \in Live /\ cl[s] \in Live => r = s

\* A side whose peer is closed or whose link failed closes too, as long as the
\* accept loop goes on: every read and every accept is followed by the next one
\* or by CloseMe.
NobodyForgotten ==
    \A s \in Sessions :
        /\ (cl[s] \in Live /\ (sv[s] = "closed" \/ s \in broken)) ~> (cl[s] = "closed")
        /\ (sv[s] # "none" /\ (cl[s] = "closed" \/ s \in broken)) ~> (sv[s] = "closed" \/ ~accepting)
=============================================================================
