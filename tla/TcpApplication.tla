--------------------------- MODULE TcpApplication ---------------------------
(***************************************************************************)
(* A TcpService application and a client of it: Application with the server *)
(* of TcpNetwork behind Listen and StopServer.  An HttpServer application  *)
(* has the same life; its server is in HttpSession and HttpRpc.            *)
(***************************************************************************)
EXTENDS Application, TcpNetwork

vars == <<appVars, netVars>>

Init == AppInit /\ NetInit

StartListening ==
    /\ Listen
    /\ IF opts.class = "tcp" THEN OpenServer ELSE UNCHANGED netVars

StopListening ==
    /\ StopServer
    /\ IF served' = "stopped" THEN CloseServer ELSE UNCHANGED netVars

\* A signal that ends the process ends its sockets too.
Interrupt ==
    /\ Signal
    /\ IF at' = "killed" THEN CloseServer ELSE UNCHANGED netVars

Next ==
    \/ AppStep /\ UNCHANGED netVars
    \/ StartListening
    \/ StopListening
    \/ Interrupt
    \/ (ServerStep \/ SessionStep \/ ClientStep) /\ UNCHANGED appVars

\* A program that has been woken goes on: Done of the application returns, and
\* the io thread, whose handlers return, is joined.
Fairness ==
    /\ WF_vars(Ending /\ UNCHANGED netVars)
    /\ WF_vars(StopListening)
    /\ NetFairness

Spec == Init /\ [][Next]_vars /\ Fairness

-----------------------------------------------------------------------------
\* A session is served only between the user's Init and the user's Done, while
\* the locator has the services: OnDone destroys the server, which joins its
\* thread, before it calls Done, and Stop clears the locator after that.
StoppedInOrder ==
    (\E s \in Sessions : sv[s] \in Live) =>
        services /\ at \in {"install", "lock", "waiting", "stop"}

\* A log opened by Run has the level of the command line when one is given,
\* whatever the configuration says.
OptionsWin ==
    at \notin {"run", "config", "log", "returned", "exited", "killed"} /\ Given(opts.level)
        => log.level = opts.level[1]

\* A signal that finds the program waiting ends it, with the server stopped
\* and the services released: wait, OnStop, OnDone, Clear, return.
StopsAfterSignal ==
    (at = "waiting" /\ wake) ~> (at = "exited" /\ served = "stopped" /\ ~services)
=============================================================================
