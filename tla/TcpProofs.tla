------------------------------ MODULE TcpProofs ------------------------------
(***************************************************************************)
(* Proofs about TCP: the application with its server and its connections   *)
(* (TcpApplication), the framed stream of one session (FrameLink), and the *)
(* chains of clients at its ends (ChainTransfer).                          *)
(*                                                                         *)
(* For every set of command lines, of callers and every number of          *)
(* sessions, signals and faults: a session is served only between the      *)
(* user's Init and Done, a connection has one client that is not closed,   *)
(* and the level of the command line wins.                                 *)
(*                                                                         *)
(* For all messages, their sizes, and the sizes of the header and of a     *)
(* read: FrameReader gives back what FrameWriter was given.  The lemmas on *)
(* FlattenSeq that this needs come first; they are proved by induction     *)
(* over a set of numbers (SetInduction).                                   *)
(*                                                                         *)
(* For any number of calls of OnClose at either end: a chain of clients    *)
(* carries a message, or drops it once it was closed.  What recursive      *)
(* functions return is shown by the same induction.                        *)
(***************************************************************************)
EXTENDS TcpApplication, FrameLink, ChainTransfer, SequenceTheorems, WellFoundedInduction, TLAPS

-----------------------------------------------------------------------------
(* The server.                                                             *)

(* Where the program is while its server may be up.                        *)
Serving == {"install", "lock", "waiting", "stop"}

ServerTypes == sv \in [Sessions -> {"none", "backlog", "open", "closing", "closed"}]

(* The acceptor is open, accepts or has sessions only while the program    *)
(* is in there.                                                            *)
ServedInside ==
    listening \/ accepting \/ (\E s \in Sessions : sv[s] \in Live) => at \in Serving

(* The user's Init has put services into the locator before the server is  *)
(* made, and nobody takes them out before it is stopped.                   *)
ServicesThere == at \in Serving \cup {"listen"} => services

(* Why StoppedInOrder holds.                                               *)
ServerInv == ServerTypes /\ ServedInside /\ ServicesThere

(* The client.                                                             *)

ClientTypes ==
    /\ cl \in [Sessions -> {"none", "open", "closing", "closed"}]
    /\ kept \in Sessions \cup {0}
    /\ where \in [Callers -> {"idle", "ask", "connect"}]

(* Who connects has m_lock, and the client that GetClient found is closed; *)
(* m_client is the only one that may not be.                               *)
ClientInv ==
    /\ ClientTypes
    /\ \A t \in Callers : where[t] = "connect" => lock = t
    /\ \A t \in Callers : where[t] = "connect" => kept = 0 \/ cl[kept] = "closed"
    /\ \A s \in Sessions : cl[s] \in Live => s = kept

(* The log.                                                                *)

(* The settings keep the level of the command line until the log is        *)
(* opened, and then the log does.                                          *)
LevelInv ==
    /\ "level" \in DOMAIN settings
    /\ at \in {"config", "log"} /\ Given(opts.level) => settings.level = opts.level[1]
    /\ at \notin {"run", "config", "log", "returned", "exited", "killed"} /\ Given(opts.level)
         => log.sink # "none" /\ log.level = opts.level[1]

(* The inductive invariant.  Its three parts do not need each other.       *)
IInv == ServerInv /\ ClientInv /\ LevelInv

-----------------------------------------------------------------------------
(* Steps of the program and of the server.                                 *)

(* At the start there is no server.                                        *)
LEMMA InitServer == Init => ServerInv
<1> SUFFICES ASSUME Init PROVE ServerInv
    OBVIOUS
<1>1. at = "run" /\ ~listening /\ ~accepting /\ sv = [s \in Sessions |-> "none"]
    BY DEF Init, AppInit, NetInit
<1>2. QED
    BY <1>1 DEF ServerInv, ServerTypes, ServedInside, ServicesThere, Live, Serving

(* A step of the program that leaves the network alone: the program comes  *)
(* to where the server may be up by making it, and leaves by stopping it.  *)
LEMMA AppStepServer ==
    ASSUME ServerInv, AppStep, UNCHANGED netVars
    PROVE  ServerInv'
<1>1. UNCHANGED <<listening, accepting, sv>>
    BY DEF netVars
<1>2. CASE ParseCommandLine \/ ReadConfiguration \/ InitLog \/ Start \/ OnStart
    <2>1. at \notin Serving /\ at' \notin Serving \cup {"listen"}
        BY <1>2 DEF ParseCommandLine, ReadConfiguration, InitLog, Start, OnStart, OnStartFailed, Serving
    <2>2. QED
        BY <1>1, <2>1 DEF ServerInv, ServerTypes, ServedInside, ServicesThere
<1>3. CASE OnInit \/ ListenFails
    <2>1. at \notin Serving /\ at' \notin Serving /\ (at' = "listen" => services')
        BY <1>3 DEF OnInit, ListenFails, OnStartFailed, Serving
    <2>2. QED
        BY <1>1, <2>1 DEF ServerInv, ServerTypes, ServedInside, ServicesThere
<1>4. CASE InstallHandler \/ Wait \/ Wake \/ SpuriousWake
    <2>1. at \in Serving /\ at' \in Serving /\ services' = services
        BY <1>4 DEF InstallHandler, Wait, Wake, SpuriousWake, Serving
    <2>2. QED
        BY <1>1, <2>1 DEF ServerInv, ServerTypes, ServedInside, ServicesThere
<1>5. CASE Done \/ Failed \/ Destroy
    <2>1. at \notin Serving /\ at' \notin Serving \cup {"listen"}
        BY <1>5 DEF Done, Failed, Destroy, Serving
    <2>2. QED
        BY <1>1, <2>1 DEF ServerInv, ServerTypes, ServedInside, ServicesThere
<1>6. QED
    BY <1>2, <1>3, <1>4, <1>5 DEF AppStep

(* A closed server has no session that is served.                          *)
LEMMA CloseServerFacts ==
    ASSUME ServerTypes, CloseServer
    PROVE  ServerTypes' /\ ~listening' /\ ~accepting' /\ \A s \in Sessions : sv'[s] \notin Live
BY DEF ServerTypes, CloseServer, Live

(* The server is made after Init and stopped before Done, or the process   *)
(* is killed with it.                                                      *)
LEMMA ListenServer ==
    ASSUME ServerInv, StartListening \/ StopListening \/ Interrupt
    PROVE  ServerInv'
<1>1. CASE StartListening
    <2>1. at = "listen" /\ at' = "install" /\ services' = services
        BY <1>1 DEF StartListening, Listen
    <2>2. sv' = sv
        BY <1>1 DEF StartListening, OpenServer, netVars
    <2>3. QED
        BY <2>1, <2>2 DEF ServerInv, ServerTypes, ServedInside, ServicesThere, Serving
<1>2. CASE StopListening
    <2>1. CloseServer /\ at' = "done"
        BY <1>2 DEF StopListening, StopServer
    <2>2. QED
        BY <2>1, CloseServerFacts DEF ServerInv, ServedInside, ServicesThere, Serving
<1>3. CASE Interrupt /\ at' = "killed"
    <2>1. CloseServer
        BY <1>3 DEF Interrupt
    <2>2. QED
        BY <1>3, <2>1, CloseServerFacts DEF ServerInv, ServedInside, ServicesThere, Serving
<1>4. CASE Interrupt /\ at' # "killed"
    <2>1. UNCHANGED <<listening, accepting, sv, at, services>>
        BY <1>4 DEF Interrupt, Signal, netVars
    <2>2. QED
        BY <2>1 DEF ServerInv, ServerTypes, ServedInside, ServicesThere
<1>5. QED
    BY <1>1, <1>2, <1>3, <1>4

(* The network: a session is served only if the acceptor was open.         *)
LEMMA NetStepServer ==
    ASSUME ServerInv, ServerStep \/ SessionStep \/ ClientStep, UNCHANGED appVars
    PROVE  ServerInv'
<1>1. UNCHANGED <<at, services>>
    BY DEF appVars
<1>2. /\ ServerTypes' /\ (listening' => listening) /\ (accepting' => accepting)
      /\ (\E s \in Sessions : sv'[s] \in Live) => accepting \/ \E s \in Sessions : sv[s] \in Live
    <2>1. CASE ServerStep
        BY <2>1 DEF ServerStep, Accept, AcceptFails, AcceptThrows, ServerInv, ServerTypes, Live
    <2>2. CASE SessionStep
        <3>1. PICK s \in Sessions : ReadFails(s) \/ CloseMe(s) \/ OnClose(s) \/ LinkBreaks(s)
            BY <2>2 DEF SessionStep
        <3>2. UNCHANGED <<listening, accepting>>
            BY <3>1 DEF ReadFails, CloseMe, OnClose, LinkBreaks
        <3>3. \/ sv' = sv
              \/ sv[s] = "open" /\ sv' = [sv EXCEPT ![s] = "closing"]
              \/ sv[s] = "closing" /\ sv' = [sv EXCEPT ![s] = "closed"]
            BY <3>1 DEF ReadFails, CloseMe, OnClose, LinkBreaks
        <3>4. QED
            BY <3>2, <3>3 DEF ServerInv, ServerTypes, Live
    <2>3. CASE ClientStep
        <3>1. UNCHANGED <<listening, accepting>>
            BY <2>3 DEF ClientStep, MakeConnection, DropConnection, CreateService, GetClient, RunClient,
                        RunClientThrows
        <3>2. sv' = sv \/ \E s \in Sessions : sv' = [sv EXCEPT ![s] = "backlog"]
            BY <2>3 DEF ClientStep, MakeConnection, DropConnection, CreateService, GetClient, RunClient,
                        RunClientThrows
        <3>3. QED
            BY <3>1, <3>2 DEF ServerInv, ServerTypes, Live
    <2>4. QED
        BY <2>1, <2>2, <2>3
<1>3. QED
    BY <1>1, <1>2 DEF ServerInv, ServedInside, ServicesThere

-----------------------------------------------------------------------------
(* Steps of the client.                                                    *)

(* At the start there is no connection.                                    *)
LEMMA InitClient == Init => ClientInv
<1> SUFFICES ASSUME Init PROVE ClientInv
    OBVIOUS
<1>1. cl = [s \in Sessions |-> "none"] /\ kept = 0 /\ where = [t \in Callers |-> "idle"]
    BY DEF Init, NetInit
<1>2. QED
    BY <1>1 DEF ClientInv, ClientTypes, Live

(* The program, the server and the sessions leave the Connection alone,    *)
(* and a client's side of a session only goes towards closed.              *)
LEMMA SessionsClient ==
    ASSUME ClientInv, UNCHANGED <<kept, lock, where>>,
           \/ cl' = cl
           \/ \E s \in Sessions : \/ cl[s] = "open" /\ cl' = [cl EXCEPT ![s] = "closing"]
                                  \/ cl[s] = "closing" /\ cl' = [cl EXCEPT ![s] = "closed"]
    PROVE  ClientInv'
<1>1. CASE cl' = cl
    BY <1>1 DEF ClientInv, ClientTypes
<1>2. CASE \E s \in Sessions : \/ cl[s] = "open" /\ cl' = [cl EXCEPT ![s] = "closing"]
                               \/ cl[s] = "closing" /\ cl' = [cl EXCEPT ![s] = "closed"]
    <2>1. PICK s \in Sessions : \/ cl[s] = "open" /\ cl' = [cl EXCEPT ![s] = "closing"]
                                \/ cl[s] = "closing" /\ cl' = [cl EXCEPT ![s] = "closed"]
        BY <1>2
    <2>2. ClientTypes'
        BY <2>1 DEF ClientInv, ClientTypes
    <2>3. \A r \in Sessions : /\ cl[r] = "closed" => cl'[r] = "closed"
                              /\ cl'[r] \in Live => cl[r] \in Live
        BY <2>1 DEF ClientInv, ClientTypes, Live
    <2>4. kept # 0 => kept \in Sessions
        BY DEF ClientInv, ClientTypes
    <2>5. QED
        BY <2>2, <2>3, <2>4 DEF ClientInv
<1>3. QED
    BY <1>1, <1>2

(* A step of a caller.                                                     *)
LEMMA CallerClient ==
    ASSUME ClientInv, NEW t \in Callers,
           CreateService(t) \/ GetClient(t) \/ RunClientThrows(t) \/ \E s \in Sessions : RunClient(t, s)
    PROVE  ClientInv'
<1> USE TcpNetworkAssumption
<1>1. CASE CreateService(t)
    BY <1>1 DEF CreateService, ClientInv, ClientTypes
<1>2. CASE GetClient(t)
    <2>1. where[t] = "ask" /\ lock = Nobody /\ UNCHANGED <<cl, kept>>
        BY <1>2 DEF GetClient
    <2>2. \A u \in Callers : where[u] # "connect"
        BY <2>1 DEF ClientInv
    <2>3. \/ lock' = t /\ where' = [where EXCEPT ![t] = "connect"] /\ (kept = 0 \/ cl[kept] = "closed")
          \/ where' = [where EXCEPT ![t] = "idle"]
        BY <1>2 DEF GetClient, IsClosed
    <2>4. ClientTypes'
        BY <2>1, <2>3 DEF ClientInv, ClientTypes
    <2>5. \A u \in Callers : where'[u] = "connect" => lock' = u /\ (kept = 0 \/ cl[kept] = "closed")
        BY <2>2, <2>3 DEF ClientInv, ClientTypes
    <2>6. QED
        BY <2>1, <2>4, <2>5 DEF ClientInv
<1>3. CASE RunClientThrows(t)
    <2>1. where[t] = "connect" /\ where' = [where EXCEPT ![t] = "idle"] /\ kept' = kept
        BY <1>3 DEF RunClientThrows
    <2>2. cl' = cl \/ \E s \in Sessions : cl' = [cl EXCEPT ![s] = "closed"]
        BY <1>3 DEF RunClientThrows
    <2>3. \A u \in Callers : where'[u] # "connect"
        BY <2>1 DEF ClientInv, ClientTypes
    <2>4. ClientTypes' /\ \A r \in Sessions : cl'[r] \in Live => cl[r] \in Live
        BY <2>1, <2>2 DEF ClientInv, ClientTypes, Live
    <2>5. QED
        BY <2>1, <2>3, <2>4 DEF ClientInv
<1>4. CASE \E s \in Sessions : RunClient(t, s)
    <2>1. PICK s \in Sessions : RunClient(t, s)
        BY <1>4
    <2>2. /\ where[t] = "connect" /\ where' = [where EXCEPT ![t] = "idle"] /\ kept' = s
          /\ cl' = [cl EXCEPT ![s] = "open"]
        BY <2>1 DEF RunClient
    <2>3. \A u \in Callers : where'[u] # "connect"
        BY <2>2 DEF ClientInv, ClientTypes
    <2>4. \A r \in Sessions : cl[r] \notin Live
        <3>1. kept = 0 \/ cl[kept] = "closed"
            BY <2>2 DEF ClientInv
        <3>2. 0 \notin Sessions
            BY DEF Sessions
        <3>3. QED
            BY <3>1, <3>2 DEF ClientInv, Live
    <2>5. ClientTypes' /\ \A r \in Sessions : cl'[r] \in Live => r = s
        BY <2>2, <2>4 DEF ClientInv, ClientTypes
    <2>6. QED
        BY <2>2, <2>3, <2>5 DEF ClientInv
<1>5. QED
    BY <1>1, <1>2, <1>3, <1>4

(* Every step of the network keeps the client's invariant.                 *)
LEMMA NetStepClient ==
    ASSUME ClientInv, ServerStep \/ SessionStep \/ ClientStep
    PROVE  ClientInv'
<1>1. CASE ServerStep
    <2>1. UNCHANGED <<cl, kept, lock, where>>
        BY <1>1 DEF ServerStep, Accept, AcceptFails, AcceptThrows, client
    <2>2. QED
        BY <2>1, SessionsClient
<1>2. CASE SessionStep
    <2>1. PICK s \in Sessions : ReadFails(s) \/ CloseMe(s) \/ OnClose(s) \/ LinkBreaks(s)
        BY <1>2 DEF SessionStep
    <2>2. UNCHANGED <<kept, lock, where>>
        BY <2>1 DEF ReadFails, CloseMe, OnClose, LinkBreaks, client
    <2>3. \/ cl' = cl
          \/ cl[s] = "open" /\ cl' = [cl EXCEPT ![s] = "closing"]
          \/ cl[s] = "closing" /\ cl' = [cl EXCEPT ![s] = "closed"]
        BY <2>1 DEF ReadFails, CloseMe, OnClose, LinkBreaks
    <2>4. QED
        BY <2>2, <2>3, SessionsClient
<1>3. CASE ClientStep
    <2>1. CASE MakeConnection
        BY <2>1, SessionsClient DEF MakeConnection
    <2>2. CASE DropConnection
        <3>1. /\ cl' = [s \in Sessions |-> IF cl[s] = "none" THEN "none" ELSE "closed"]
              /\ UNCHANGED <<kept, where>> /\ \A t \in Callers : where[t] = "idle"
            BY <2>2 DEF DropConnection
        <3>2. QED
            BY <3>1 DEF ClientInv, ClientTypes, Live
    <2>3. QED
        BY <1>3, <2>1, <2>2, CallerClient DEF ClientStep
<1>4. QED
    BY <1>1, <1>2, <1>3

-----------------------------------------------------------------------------
(* Steps of the program and the log.                                       *)

(* A setting other than the level leaves the level alone.                  *)
LEMMA LevelLeft ==
    ASSUME NEW s, "level" \in DOMAIN s, NEW v
    PROVE  /\ "level" \in DOMAIN [s EXCEPT !.data = v] /\ [s EXCEPT !.data = v].level = s.level
           /\ "level" \in DOMAIN [s EXCEPT !.daemon = v] /\ [s EXCEPT !.daemon = v].level = s.level
OBVIOUS

(* The group "log" sets the level and others.                              *)
LEMMA LevelSet ==
    ASSUME NEW s, "level" \in DOMAIN s, NEW a, NEW b, NEW c, NEW d, NEW e
    PROVE  LET t == [s EXCEPT !.dir = a, !.pattern = b, !.path = c, !.level = d, !.levelGiven = e]
           IN  "level" \in DOMAIN t /\ t.level = d
OBVIOUS

(* The configuration sets the level only when the command line does not.   *)
LEMMA ConfiguredLevel ==
    ASSUME NEW s, "level" \in DOMAIN s, NEW o, NEW c
    PROVE  /\ "level" \in DOMAIN Configured(s, o, c)
           /\ Given(o.level) => Configured(s, o, c).level = s.level
<1> DEFINE withData == IF Exists(c, "data") THEN [s EXCEPT !.data = GetConfig(c, <<"data">>)[1]] ELSE s
           common == GetConfig(c, <<"common">>)[1][1]
           daemon == FromConfig(common, IF o.daemon THEN <<TRUE>> ELSE <<>>, "daemon")
           withDaemon == IF daemon = Null THEN withData
                         ELSE [withData EXCEPT !.daemon = ReadBool(daemon[1])]
           group == GetConfig(common, <<"log">>)[1][1]
           dir == FromConfig(group, o.dir, "dir")
           pattern == FromConfig(group, o.pattern, "pattern")
           level == FromConfig(group, o.level, "level")
           all == [withDaemon EXCEPT
                    !.dir = IF dir = Null THEN @ ELSE "config",
                    !.pattern = IF pattern = Null THEN @ ELSE "config",
                    !.path = dir # Null \/ pattern # Null,
                    !.level = IF level = Null THEN @ ELSE ReadUnsigned(level[1]),
                    !.levelGiven = level # Null]
<1>1. Configured(s, o, c) = IF ~Exists(c, "common") THEN withData
                            ELSE IF ~Exists(common, "log") THEN withDaemon ELSE all
    BY DEF Configured
<1>2. Given(o.level) => level = Null
    BY DEF FromConfig
<1> HIDE DEF common, daemon, group, dir, pattern, level
<1>3. "level" \in DOMAIN withData /\ withData.level = s.level
    BY LevelLeft
<1> HIDE DEF withData
<1>4. "level" \in DOMAIN withDaemon /\ withDaemon.level = s.level
    BY <1>3, LevelLeft
<1> HIDE DEF withDaemon
<1>5. "level" \in DOMAIN all /\ (level = Null => all.level = withDaemon.level)
    BY <1>4, LevelSet
<1> HIDE DEF all
<1>6. QED
    BY <1>1, <1>2, <1>3, <1>4, <1>5

(* At the start no option has been looked at.                              *)
LEMMA InitLevel == Init => LevelInv
BY DEF Init, AppInit, LevelInv

(* Run takes the level of the command line into the settings, keeps it     *)
(* there and opens the log with it.                                        *)
LEMMA RunLevel ==
    ASSUME LevelInv, ParseCommandLine \/ ReadConfiguration \/ InitLog
    PROVE  LevelInv'
<1>1. CASE ParseCommandLine
    <2>1. at' \in {"returned", "config"} /\ opts' = opts
        BY <1>1 DEF ParseCommandLine
    <2>2. settings' = [settings EXCEPT !.dir = IF Given(opts.dir) THEN "option" ELSE "",
                                       !.pattern = IF Given(opts.pattern) THEN "option" ELSE "",
                                       !.level = IF Given(opts.level) THEN opts.level[1] ELSE @]
        BY <1>1 DEF ParseCommandLine
    <2>3. "level" \in DOMAIN settings' /\ (Given(opts.level) => settings'.level = opts.level[1])
        BY <2>2 DEF LevelInv
    <2>4. QED
        BY <2>1, <2>3 DEF LevelInv
<1>2. CASE ReadConfiguration
    <2>1. at = "config" /\ at' \in {"returned", "log"} /\ opts' = opts
        BY <1>2 DEF ReadConfiguration
    <2>2. settings' = settings \/ \E c : settings' = Configured(settings, opts, c)
        BY <1>2 DEF ReadConfiguration
    <2>3. "level" \in DOMAIN settings' /\ (Given(opts.level) => settings'.level = settings.level)
        BY <2>2, ConfiguredLevel DEF LevelInv
    <2>4. QED
        BY <2>1, <2>3 DEF LevelInv
<1>3. CASE InitLog
    <2>1. at = "log" /\ UNCHANGED <<opts, settings>>
        BY <1>3 DEF InitLog
    <2>2. at' = "returned" \/ at' = "start"
        BY <1>3 DEF InitLog
    <2>3. ASSUME at' = "start", Given(opts.level)
          PROVE  log'.sink # "none" /\ log'.level = settings.level
        <3> DEFINE dir == IF Given(opts.dir) THEN settings.dir ELSE "program"
                   pattern == IF Given(opts.pattern) THEN settings.pattern ELSE "program"
        <3>1. log' = Console(settings.level) \/ log' = FileLog(dir, pattern, settings.level)
            BY <1>3, <2>3 DEF InitLog
        <3>2. CASE log' = Console(settings.level)
            BY <3>2 DEF Console, NoLog
        <3>3. CASE log' = FileLog(dir, pattern, settings.level)
            BY <3>3 DEF FileLog
        <3>4. QED
            BY <3>1, <3>2, <3>3
    <2>4. QED
        BY <2>1, <2>2, <2>3 DEF LevelInv
<1>4. QED
    BY <1>1, <1>2, <1>3

(* Once the log is open, no step of the program opens another.             *)
LEMMA LogKept ==
    ASSUME LevelInv, UNCHANGED <<opts, settings>>, log' \in {log, Logged(log)},
           at' \notin {"config", "log"},
           \/ at' \in {"run", "returned", "exited", "killed"}
           \/ at \notin {"run", "config", "log", "returned", "exited", "killed"}
    PROVE  LevelInv'
BY DEF LevelInv, Logged

(* The steps of the program after that.                                    *)
LEMMA AppStepLevel ==
    ASSUME LevelInv, AppStep \/ Listen \/ StopServer \/ Signal
    PROVE  LevelInv'
<1>1. CASE ParseCommandLine \/ ReadConfiguration \/ InitLog
    BY <1>1, RunLevel
<1>2. CASE Start \/ OnStart \/ OnInit
    <2>1. UNCHANGED <<opts, settings>> /\ log' \in {log, Logged(log)}
        BY <1>2 DEF Start, OnStart, OnInit, OnStartFailed
    <2>2. at \in {"start", "onstart", "init"} /\ at' \in {"onstart", "failed", "exited", "init", "listen"}
        BY <1>2 DEF Start, OnStart, OnInit, OnStartFailed
    <2>3. QED
        BY <2>1, <2>2, LogKept
<1>3. CASE Listen \/ ListenFails \/ InstallHandler \/ Wait \/ Wake \/ SpuriousWake
    <2>1. UNCHANGED <<opts, settings>> /\ log' \in {log, Logged(log)}
        BY <1>3 DEF Listen, ListenFails, OnStartFailed, InstallHandler, Wait, Wake, SpuriousWake
    <2>2. /\ at \in {"listen", "install", "lock", "waiting"}
          /\ at' \in {"failed", "exited", "install", "lock", "waiting", "stop"}
        BY <1>3 DEF Listen, ListenFails, OnStartFailed, InstallHandler, Wait, Wake, SpuriousWake
    <2>3. QED
        BY <2>1, <2>2, LogKept
<1>4. CASE StopServer \/ Done \/ Failed \/ Destroy
    <2>1. UNCHANGED <<opts, settings, log>>
        BY <1>4 DEF StopServer, Done, Failed, Destroy
    <2>2. /\ at \in {"stop", "done", "failed", "returned"}
          /\ at' \in {"done", "returned", "exited"} /\ (at' = "done" => at = "stop")
        BY <1>4 DEF StopServer, Done, Failed, Destroy
    <2>3. QED
        BY <2>1, <2>2, LogKept
<1>5. CASE Signal
    <2>1. UNCHANGED <<opts, settings, log>> /\ at' \in {at, "killed"}
        BY <1>5 DEF Signal
    <2>2. QED
        BY <2>1 DEF LevelInv
<1>6. QED
    BY <1>1, <1>2, <1>3, <1>4, <1>5 DEF AppStep

-----------------------------------------------------------------------------
(* The invariant and what follows from it.                                 *)

(* Every step keeps the invariant.                                         *)
LEMMA NextIInv == IInv /\ [Next]_vars => IInv'
<1> SUFFICES ASSUME IInv, [Next]_vars PROVE IInv'
    OBVIOUS
<1>1. CASE AppStep /\ UNCHANGED netVars
    <2>1. ServerInv' /\ LevelInv'
        BY <1>1, AppStepServer, AppStepLevel DEF IInv
    <2>2. UNCHANGED <<cl, kept, lock, where>>
        BY <1>1 DEF netVars
    <2>3. QED
        BY <2>1, <2>2, SessionsClient DEF IInv
<1>2. CASE StartListening \/ StopListening \/ Interrupt
    <2>1. ServerInv'
        BY <1>2, ListenServer DEF IInv
    <2>2. LevelInv'
        BY <1>2, AppStepLevel DEF IInv, StartListening, StopListening, Interrupt
    <2>3. UNCHANGED <<cl, kept, lock, where>>
        BY <1>2 DEF StartListening, StopListening, Interrupt, OpenServer, CloseServer, netVars, client
    <2>4. QED
        BY <2>1, <2>2, <2>3, SessionsClient DEF IInv
<1>3. CASE (ServerStep \/ SessionStep \/ ClientStep) /\ UNCHANGED appVars
    <2>1. ServerInv' /\ ClientInv'
        BY <1>3, NetStepServer, NetStepClient DEF IInv
    <2>2. UNCHANGED <<at, opts, settings, log>>
        BY <1>3 DEF appVars
    <2>3. QED
        BY <2>1, <2>2 DEF IInv, LevelInv
<1>4. CASE UNCHANGED vars
    <2>1. UNCHANGED <<at, opts, settings, log, services, listening, accepting, sv, cl, kept, lock, where>>
        BY <1>4 DEF vars, appVars, netVars
    <2>2. ServerInv' /\ LevelInv'
        BY <2>1 DEF IInv, ServerInv, ServerTypes, ServedInside, ServicesThere, LevelInv
    <2>3. QED
        BY <2>1, <2>2, SessionsClient DEF IInv
<1>5. QED
    BY <1>1, <1>2, <1>3, <1>4 DEF Next

(* The invariant holds in every state of a TcpService application and its  *)
(* client (Application::Run, Tcp::Server, Tcp::Connection).                *)
THEOREM ApplicationInvariant == Spec => []IInv
<1>1. Init => IInv
    BY InitServer, InitClient, InitLevel DEF IInv
<1>2. Init /\ [][Next]_vars => []IInv
    BY <1>1, NextIInv, PTL
<1>3. QED
    BY <1>2, PTL DEF Spec

(* No session is served before the user's Init has filled the locator or   *)
(* after OnDone destroyed the server, whatever signals come and when.      *)
THEOREM ServerStoppedInOrder == Spec => []StoppedInOrder
<1>1. IInv => StoppedInOrder
    BY DEF IInv, ServerInv, ServedInside, ServicesThere, StoppedInOrder, Serving
<1>2. QED
    BY <1>1, ApplicationInvariant, PTL

(* A Connection has at most one client that is not closed, for any number  *)
(* of threads in GetClient.                                                *)
THEOREM OneClientOpen == Spec => []OneOpenSession
<1>1. IInv => OneOpenSession
    BY DEF IInv, ClientInv, OneOpenSession
<1>2. QED
    BY <1>1, ApplicationInvariant, PTL

(* A log that Run opened has the level of the command line, whatever the   *)
(* configuration says and in which format.                                 *)
THEOREM CommandLineWins == Spec => []OptionsWin
<1>1. IInv => OptionsWin
    BY DEF IInv, LevelInv, OptionsWin
<1>2. QED
    BY <1>1, ApplicationInvariant, PTL

-----------------------------------------------------------------------------
(* The framed stream.  Concatenation of a sequence of sequences.           *)

(* A non-empty set of numbers has an element that no other precedes: < on  *)
(* Nat is well founded.                                                    *)
LEMMA NatMinRel ==
  ASSUME NEW T, T \subseteq Nat, T # {}
  PROVE  \E x \in T : \A y \in T : ~ (<<y, x>> \in OpToRel(<, Nat))
BY NatLessThanWellFounded, WFMin

(* A non-empty set of numbers has a least element.                         *)
LEMMA NatMin ==
  ASSUME NEW T, T \subseteq Nat, T # {}
  PROVE  \E x \in T : \A y \in T : x <= y
<1>1. PICK x \in T : \A y \in T : ~ (<<y, x>> \in OpToRel(<, Nat))
  BY NatMinRel
<1>2. ASSUME NEW y \in T PROVE ~(y < x)
  BY <1>1 DEF OpToRel
<1>3. QED BY <1>2

(* Induction over a set in the place of a predicate: a set that holds 0 and,*)
(* below n, with a number the next one, holds all numbers up to n.         *)
LEMMA SetInduction ==
  ASSUME NEW G, NEW n \in Nat, 0 \in G, \A k \in 0..(n-1) : k \in G => k+1 \in G
  PROVE  \A k \in 0..n : k \in G
<1>1. SUFFICES ASSUME NEW b \in 0..n, b \notin G PROVE FALSE
  OBVIOUS
<1>2. DEFINE T == {k \in 0..n : k \notin G}
<1>3. T \subseteq Nat /\ T # {}
  BY <1>1
<1>4. PICK x \in T : \A y \in T : x <= y
  BY <1>3, NatMin
<1>5. x # 0 /\ x \in 0..n /\ x \notin G
  BY <1>4
<1>6. x - 1 \in 0..(n-1) /\ x - 1 \notin T
  BY <1>4, <1>5
<1>7. x - 1 \in G
  BY <1>6
<1>8. QED BY <1>5, <1>6, <1>7

(* g is the table of the concatenations of the first sequences of s. *)
Joins(g, s, n, S) ==
  /\ g \in [1..n -> Seq(S)]
  /\ \A i \in 1..n : g[i] = IF i = 1 THEN s[i] ELSE g[i-1] \o s[i]

(* A table of concatenations can be made longer by one.                    *)
LEMMA JoinsMore ==
  ASSUME NEW S, NEW s \in Seq(Seq(S)), NEW n \in Nat, n + 1 <= Len(s), NEW g, Joins(g, s, n, S)
  PROVE \E h : Joins(h, s, n + 1, S)
<1> DEFINE e == IF n = 0 THEN s[1] ELSE g[n] \o s[n + 1]
           h == [i \in 1..(n+1) |-> IF i <= n THEN g[i] ELSE e]
<1>0. g \in [1..n -> Seq(S)]
  BY DEF Joins
<1>1. s[n + 1] \in Seq(S)
  BY ElementOfSeq
<1>2. e \in Seq(S)
  <2>1. CASE n = 0
    BY <1>1, <2>1
  <2>2. CASE n # 0
    <3>1. g[n] \in Seq(S)
      BY <1>0, <2>2
    <3>2. QED BY <3>1, <1>1, <2>2, ConcatProperties
  <2>3. QED BY <2>1, <2>2
<1>3. h \in [1..(n+1) -> Seq(S)]
  <2> HIDE DEF e
  <2> QED BY <1>0, <1>2
<1>4. ASSUME NEW i \in 1..(n+1)
      PROVE h[i] = IF i = 1 THEN s[i] ELSE h[i-1] \o s[i]
  <2>1. CASE i <= n
    <3>1. h[i] = g[i] /\ (i # 1 => h[i-1] = g[i-1])
      BY <2>1
    <3>2. g[i] = IF i = 1 THEN s[i] ELSE g[i-1] \o s[i]
      <4>1. i \in 1..n
        BY <2>1
      <4>2. QED BY <4>1 DEF Joins
    <3> HIDE DEF h
    <3>3. QED BY <3>1, <3>2
  <2>2. CASE i = n + 1
    <3>1. h[i] = e
      BY <2>2
    <3>2. n # 0 => h[i - 1] = g[n]
      BY <2>2
    <3>3. QED BY <3>1, <3>2, <2>2
  <2>3. QED BY <2>1, <2>2
<1>5. Joins(h, s, n + 1, S)
  <2> HIDE DEF h
  <2> QED BY <1>3, <1>4 DEF Joins
<1>6. QED BY <1>5

(* Every sequence of sequences has such a table.                           *)
LEMMA JoinsExist ==
  ASSUME NEW S, NEW s \in Seq(Seq(S))
  PROVE \E h : Joins(h, s, Len(s), S)
<1> DEFINE G == {n \in 0..Len(s) : \E h : Joins(h, s, n, S)}
<1>1. 0 \in G
  <2>1. Joins([i \in 1..0 |-> <<>>], s, 0, S)
    BY DEF Joins
  <2>2. QED BY <2>1
<1>2. ASSUME NEW k \in 0..(Len(s)-1), k \in G PROVE k+1 \in G
  <2>1. PICK g : Joins(g, s, k, S)
    BY <1>2
  <2>2. \E h : Joins(h, s, k + 1, S)
    BY <2>1, JoinsMore
  <2>3. QED BY <2>2
<1>3. Len(s) \in Nat
  OBVIOUS
<1>4. Len(s) \in G
  <2> HIDE DEF G
  <2>1. \A k \in 0..(Len(s)-1) : k \in G => k+1 \in G
    BY <1>2
  <2>2. \A k \in 0..Len(s) : k \in G
    BY <1>1, <1>3, <2>1, SetInduction
  <2>3. QED BY <1>3, <2>2
<1>5. QED BY <1>4

(* FlattenSeq is the last entry of the table, though it is defined by CHOOSE.*)
LEMMA FlattenIsJoin ==
  ASSUME NEW S, NEW s \in Seq(Seq(S)), Len(s) # 0
  PROVE \E h : Joins(h, s, Len(s), S) /\ FlattenSeq(s) = h[Len(s)]
<1> DEFINE Eq(f) == f = [i \in 1..Len(s) |-> IF i = 1 THEN s[i] ELSE f[i-1] \o s[i]]
           F == CHOOSE f : Eq(f)
<1>1. FlattenSeq(s) = F[Len(s)]
  BY DEF FlattenSeq
<1>2. PICK h : Joins(h, s, Len(s), S)
  BY JoinsExist
<1>3. Eq(h)
  BY <1>2 DEF Joins
<1>4. Eq(F)
  BY <1>3
<1> HIDE DEF F
<1>n. Len(s) \in Nat
  OBVIOUS
<1> DEFINE G == {k \in 0..Len(s) : k # 0 => F[k] = h[k]}
<1>5. 0 \in G
  BY <1>n
<1>6. ASSUME NEW k \in 0..(Len(s)-1), k \in G PROVE k+1 \in G
  <2>1. PICK i \in 1..Len(s) : i = k + 1 /\ i - 1 = k /\ (i = 1 <=> k = 0)
    BY <1>n
  <2>2. F[i] = IF i = 1 THEN s[i] ELSE F[i - 1] \o s[i]
    BY <1>4
  <2>3. h[i] = IF i = 1 THEN s[i] ELSE h[i - 1] \o s[i]
    BY <1>2 DEF Joins
  <2>4. i # 1 => F[i - 1] = h[i - 1]
    BY <1>6, <2>1
  <2>5. F[i] = h[i]
    BY <2>2, <2>3, <2>4
  <2>6. QED BY <2>1, <2>5
<1>7. Len(s) \in G
  <2> HIDE DEF G
  <2>1. \A k \in 0..(Len(s)-1) : k \in G => k+1 \in G
    BY <1>6
  <2>2. \A k \in 0..Len(s) : k \in G
    BY <1>5, <1>n, <2>1, SetInduction
  <2>3. QED BY <1>n, <2>2
<1>8. QED BY <1>1, <1>2, <1>7

(* Two sequences agree on their first k elements. *)
Agree(s, t, k) == \A i \in 1..k : s[i] = t[i]

(* s is x followed by t. *)
Follows(s, x, t, n) == s[1] = x /\ \A i \in 1..n : t[i] = s[i + 1]

(* The tables of two sequences that agree at the head agree there.         *)
LEMMA JoinsAgree ==
  ASSUME NEW S, NEW s \in Seq(Seq(S)), NEW t \in Seq(Seq(S)),
         NEW n \in Nat, NEW m \in Nat, NEW g, NEW h,
         Joins(g, s, n, S), Joins(h, t, m, S),
         NEW k \in Nat, k <= n, k <= m,
         Agree(s, t, k)
  PROVE  Agree(g, h, k)
<1> DEFINE G == {j \in 0..k : j # 0 => g[j] = h[j]}
<1>1. 0 \in G
  OBVIOUS
<1>2. ASSUME NEW j \in 0..(k-1), j \in G PROVE j + 1 \in G
  <2>1. PICK i \in 1..k : i = j + 1 /\ i - 1 = j /\ (i = 1 <=> j = 0)
    OBVIOUS
  <2>a. i \in 1..n /\ i \in 1..m
    OBVIOUS
  <2>2. g[i] = IF i = 1 THEN s[i] ELSE g[i - 1] \o s[i]
    BY <2>a DEF Joins
  <2>3. h[i] = IF i = 1 THEN t[i] ELSE h[i - 1] \o t[i]
    BY <2>a DEF Joins
  <2>4. i # 1 => g[i - 1] = h[i - 1]
    BY <1>2, <2>1
  <2>5. s[i] = t[i]
    BY DEF Agree
  <2>6. g[i] = h[i]
    BY <2>2, <2>3, <2>4, <2>5
  <2>7. QED BY <2>1, <2>6
<1>3. \A j \in 0..k : j \in G
  <2> HIDE DEF G
  <2>1. \A j \in 0..(k-1) : j \in G => j + 1 \in G
    BY <1>2
  <2>2. QED BY <1>1, <2>1, SetInduction
<1>4. QED BY <1>3 DEF Agree

(* Nothing flattened is nothing.                                           *)
LEMMA FlattenEmpty == FlattenSeq(<<>>) = <<>>
BY DEF FlattenSeq

(* What FlattenSeq returns is a sequence of the elements.                  *)
LEMMA FlattenType ==
  ASSUME NEW S, NEW s \in Seq(Seq(S))
  PROVE  FlattenSeq(s) \in Seq(S)
<1>1. CASE Len(s) = 0
  <2>1. s = <<>>
    BY <1>1
  <2>2. FlattenSeq(s) = <<>>
    BY <2>1, FlattenEmpty
  <2>3. QED BY <2>2
<1>2. CASE Len(s) # 0
  <2>1. PICK h : Joins(h, s, Len(s), S) /\ FlattenSeq(s) = h[Len(s)]
    BY <1>2, FlattenIsJoin
  <2>2. h \in [1..Len(s) -> Seq(S)] /\ Len(s) \in 1..Len(s)
    BY <2>1, <1>2 DEF Joins
  <2>3. QED BY <2>1, <2>2
<1>3. QED BY <1>1, <1>2

(* FlattenSeq of a longer sequence: the last one comes last.               *)
LEMMA FlattenAppend ==
  ASSUME NEW S, NEW s \in Seq(Seq(S)), NEW x \in Seq(S)
  PROVE  FlattenSeq(Append(s, x)) = FlattenSeq(s) \o x
<1> DEFINE t == Append(s, x)
<1>1. t \in Seq(Seq(S)) /\ Len(t) = Len(s) + 1 /\ t[Len(s) + 1] = x
      /\ \A i \in 1..Len(s) : s[i] = t[i]
  OBVIOUS
<1>n. Len(s) \in Nat /\ Len(t) # 0
  BY <1>1
<1> HIDE DEF t
<1>2. PICK g : Joins(g, t, Len(t), S) /\ FlattenSeq(t) = g[Len(t)]
  BY <1>1, <1>n, FlattenIsJoin
<1>3. PICK n \in 1..Len(t) : n = Len(t) /\ n - 1 = Len(s) /\ n = Len(s) + 1
  BY <1>1, <1>n
<1>4. g[n] = IF n = 1 THEN t[n] ELSE g[n-1] \o t[n]
  BY <1>2 DEF Joins
<1>5. t[n] = x
  BY <1>1, <1>3
<1>6. CASE Len(s) = 0
  <2>1. s = <<>>
    BY <1>6
  <2>2. FlattenSeq(s) = <<>>
    BY <2>1, FlattenEmpty
  <2>3. g[n] = x
    BY <1>3, <1>4, <1>5, <1>6
  <2>4. <<>> \o x = x
    BY ConcatEmptySeq
  <2>5. QED BY <2>2, <2>3, <2>4, <1>2, <1>3 DEF t
<1>7. CASE Len(s) # 0
  <2>1. PICK h : Joins(h, s, Len(s), S) /\ FlattenSeq(s) = h[Len(s)]
    BY <1>7, FlattenIsJoin
  <2>2. Agree(h, g, Len(s))
    <3>1. Len(s) <= Len(s) /\ Len(s) <= Len(t) /\ Len(s) \in Nat /\ Len(t) \in Nat
      BY <1>1, <1>n
    <3>2. Agree(s, t, Len(s))
      BY <1>1 DEF Agree
    <3>3. Joins(h, s, Len(s), S) /\ Joins(g, t, Len(t), S) /\ t \in Seq(Seq(S))
      BY <2>1, <1>2, <1>1
    <3>4. QED BY <3>1, <3>2, <3>3, JoinsAgree
  <2>3. h[Len(s)] = g[Len(s)]
    BY <2>2, <1>n, <1>7 DEF Agree
  <2>4. g[n] = g[Len(s)] \o x
    BY <1>3, <1>4, <1>5, <1>7
  <2>5. QED BY <2>1, <2>3, <2>4, <1>2, <1>3 DEF t
<1>8. QED BY <1>6, <1>7

(* Concatenation is associative, stated for three sequences of one set.    *)
LEMMA Assoc ==
  ASSUME NEW S, NEW a \in Seq(S), NEW b \in Seq(S), NEW c \in Seq(S)
  PROVE  (a \o b) \o c = a \o (b \o c)
BY ConcatAssociative

(* The tables of a sequence and of its tail differ by the first element.   *)
LEMMA JoinsShift ==
  ASSUME NEW S, NEW s \in Seq(Seq(S)), NEW t \in Seq(Seq(S)), NEW x \in Seq(S), NEW N \in Nat,
         NEW g, NEW h,
         Joins(g, s, N + 1, S), Joins(h, t, N, S), Len(t) = N,
         Follows(s, x, t, N), N # 0
  PROVE  g[N + 1] = x \o h[N]
<1> DEFINE G == {j \in 0..N : j # 0 => g[j + 1] = x \o h[j]}
<1>g. \A i \in 1..(N + 1) : g[i] = IF i = 1 THEN s[i] ELSE g[i-1] \o s[i]
  BY DEF Joins
<1>j. h \in [1..N -> Seq(S)] /\ \A i \in 1..N : h[i] = IF i = 1 THEN t[i] ELSE h[i-1] \o t[i]
  BY DEF Joins
<1>1. 0 \in G
  OBVIOUS
<1>2. ASSUME NEW j \in 0..(N-1), j \in G PROVE j + 1 \in G
  <2>1. PICK i \in 1..N : i = j + 1 /\ i - 1 = j /\ (i = 1 <=> j = 0)
    OBVIOUS
  <2>2. PICK p \in 1..(N + 1) : p = i + 1 /\ p - 1 = i /\ p # 1
    OBVIOUS
  <2>3. g[p] = g[i] \o s[p]
    BY <1>g, <2>2
  <2>4. s[p] = t[i]
    BY <2>2 DEF Follows
  <2>5. h[i] = IF i = 1 THEN t[i] ELSE h[i-1] \o t[i]
    BY <1>j
  <2>6. g[p] = x \o h[i]
    <3>1. CASE i = 1
      <4>1. i \in 1..(N+1)
        BY <3>1
      <4>2. g[i] = s[i]
        BY <3>1, <4>1, <1>g
      <4>3. s[i] = x
        BY <3>1 DEF Follows
      <4>4. QED BY <4>2, <4>3, <2>3, <2>4, <2>5, <3>1
    <3>2. CASE i # 1
      <4>1. i - 1 = j /\ j # 0 /\ j + 1 = i /\ j \in 1..N
        BY <2>1, <3>2
      <4>2. g[i] = x \o h[j]
        BY <1>2, <4>1
      <4>3. h[i] = h[j] \o t[i]
        BY <2>5, <3>2, <4>1
      <4>4. h[j] \in Seq(S) /\ t[i] \in Seq(S)
        BY <1>j, <4>1, ElementOfSeq
      <4>5. PICK a \in Seq(S), b \in Seq(S) : a = h[j] /\ b = t[i]
        BY <4>4
      <4>6. (x \o a) \o b = x \o (a \o b)
        BY Assoc
      <4>7. QED BY <2>3, <2>4, <4>2, <4>3, <4>5, <4>6
    <3>3. QED BY <3>1, <3>2
  <2>7. QED BY <2>1, <2>2, <2>6
<1>3. \A j \in 0..N : j \in G
  <2> HIDE DEF G
  <2>1. \A j \in 0..(N-1) : j \in G => j + 1 \in G
    BY <1>2
  <2>2. QED BY <1>1, <2>1, SetInduction
<1>4. N \in G
  <2> HIDE DEF G
  <2> QED BY <1>3
<1>5. QED BY <1>4

(* FlattenSeq from the other side: the first one comes first.              *)
LEMMA FlattenHead ==
  ASSUME NEW S, NEW s \in Seq(Seq(S)), s # <<>>
  PROVE  FlattenSeq(s) = Head(s) \o FlattenSeq(Tail(s))
<1>1. PICK t : t = Tail(s)
  OBVIOUS
<1>2. t \in Seq(Seq(S)) /\ Len(t) = Len(s) - 1 /\ \A i \in 1..Len(t) : t[i] = s[i + 1]
  BY <1>1, HeadTailProperties
<1>3. PICK N \in Nat : N = Len(t) /\ N + 1 = Len(s)
  BY <1>2
<1>4. PICK x \in Seq(S) : x = Head(s) /\ x = s[1]
  BY HeadTailProperties
<1>5. PICK g : Joins(g, s, N + 1, S) /\ FlattenSeq(s) = g[N + 1]
  BY <1>3, FlattenIsJoin
<1>6. CASE N = 0
  <2>1. t = <<>>
    <3>1. t \in Seq(Seq(S)) /\ Len(t) = 0
      BY <1>2, <1>3, <1>6
    <3>2. QED BY <3>1, EmptySeq
  <2>2. FlattenSeq(t) = <<>>
    BY <2>1, FlattenEmpty
  <2>3. g[1] = s[1]
    BY <1>5, <1>6 DEF Joins
  <2>4. x \o <<>> = x
    BY ConcatEmptySeq
  <2>5. QED BY <1>1, <1>4, <1>5, <1>6, <2>2, <2>3, <2>4
<1>7. CASE N # 0
  <2>1. PICK h : Joins(h, t, N, S) /\ FlattenSeq(t) = h[N]
    BY <1>2, <1>3, <1>7, FlattenIsJoin
  <2>2. Follows(s, x, t, N)
    BY <1>2, <1>3, <1>4 DEF Follows
  <2>3. t \in Seq(Seq(S)) /\ Len(t) = N
    BY <1>2, <1>3
  <2>4. g[N + 1] = x \o h[N]
    BY <1>5, <1>7, <2>1, <2>2, <2>3, JoinsShift
  <2>5. QED BY <1>1, <1>4, <1>5, <2>1, <2>4
<1>8. QED BY <1>6, <1>7

-----------------------------------------------------------------------------
(* A sequence cut in two. *)
LEMMA Cut ==
  ASSUME NEW S, NEW s \in Seq(S), NEW n \in 0..Len(s)
  PROVE  /\ SubSeq(s, 1, n) \in Seq(S)
         /\ SubSeq(s, n + 1, Len(s)) \in Seq(S)
         /\ Len(SubSeq(s, 1, n)) = n
         /\ Len(SubSeq(s, n + 1, Len(s))) = Len(s) - n
         /\ SubSeq(s, 1, n) \o SubSeq(s, n + 1, Len(s)) = s
<1>1. \A i \in 1..Len(s) : s[i] \in S
  BY ElementOfSeq
<1>2. /\ SubSeq(s, 1, n) \in Seq(S)
      /\ Len(SubSeq(s, 1, n)) = n
      /\ \A i \in 1..n : SubSeq(s, 1, n)[i] = s[i]
  BY <1>1, SubSeqProperties
<1>3. /\ SubSeq(s, n + 1, Len(s)) \in Seq(S)
      /\ Len(SubSeq(s, n + 1, Len(s))) = Len(s) - n
      /\ \A i \in 1..(Len(s) - n) : SubSeq(s, n + 1, Len(s))[i] = s[n + i]
  BY <1>1, SubSeqProperties
<1>4. SubSeq(s, 1, n) \o SubSeq(s, n + 1, Len(s)) = s
  <2>1. 1 \in 1..(Len(s) + 1) /\ n \in (1 - 1)..Len(s) /\ Len(s) \in n..Len(s)
    OBVIOUS
  <2>2. SubSeq(s, 1, n) \o SubSeq(s, n + 1, Len(s)) = SubSeq(s, 1, Len(s))
    BY <2>1, ConcatAdjacentSubSeq
  <2>3. QED BY <2>2, SubSeqFull
<1>5. QED BY <1>2, <1>3, <1>4

(* A sequence in two parts, and what follows it.                           *)
LEMMA Regroup ==
  ASSUME NEW S, NEW c \in Seq(S), NEW r \in Seq(S), NEW b \in Seq(S), NEW a, a = c \o r
  PROVE  a \o b = c \o (r \o b)
BY Assoc

(* If c begins what a begins and is no longer than a, it begins a, and what *)
(* is left of a begins what follows c.                                      *)
LEMMA SamePrefix ==
  ASSUME NEW S, NEW a \in Seq(S), NEW b \in Seq(S), NEW c \in Seq(S), NEW d \in Seq(S),
         a \o b = c \o d,
         NEW i \in Nat \ {0}, NEW j \in Nat, j <= Len(a), j <= Len(c)
  PROVE  SubSeq(a, i, j) = SubSeq(c, i, j)
<1>1. \A k \in 1..j : a[k] = c[k]
  <2>1. TAKE k \in 1..j
  <2>2. (a \o b)[k] = a[k] /\ (c \o d)[k] = c[k]
    BY ConcatProperties
  <2>3. QED BY <2>2
<1>2. \A k \in i..j : a[k] \in S /\ c[k] \in S
  BY ElementOfSeq
<1>3. /\ SubSeq(a, i, j) \in Seq(S)
      /\ Len(SubSeq(a, i, j)) = IF i <= j THEN j - i + 1 ELSE 0
      /\ \A k \in 1..(j - i + 1) : SubSeq(a, i, j)[k] = a[i + k - 1]
  BY <1>2, SubSeqProperties
<1>4. /\ SubSeq(c, i, j) \in Seq(S)
      /\ Len(SubSeq(c, i, j)) = IF i <= j THEN j - i + 1 ELSE 0
      /\ \A k \in 1..(j - i + 1) : SubSeq(c, i, j)[k] = c[i + k - 1]
  BY <1>2, SubSeqProperties
<1>5. PICK p \in Seq(S), q \in Seq(S) : p = SubSeq(a, i, j) /\ q = SubSeq(c, i, j)
  BY <1>3, <1>4
<1>6. Len(p) = Len(q) /\ \A k \in 1..Len(p) : p[k] = q[k]
  BY <1>1, <1>3, <1>4, <1>5
<1>7. QED BY <1>5, <1>6, SeqEqual

(* What is left of a after c, followed by b, is what follows c.            *)
LEMMA DropPrefix ==
  ASSUME NEW S, NEW a \in Seq(S), NEW b \in Seq(S), NEW c \in Seq(S), NEW d \in Seq(S),
         Len(c) <= Len(a)
  PROVE  a \o b = c \o d => SubSeq(a, Len(c) + 1, Len(a)) \o b = d
<1>1. Len(c) \in 0..Len(a)
  OBVIOUS
<1>2. PICK r \in Seq(S) : r = SubSeq(a, Len(c) + 1, Len(a))
  BY <1>1, Cut
<1>3. SubSeq(a, 1, Len(c)) \o r = a
  BY <1>1, <1>2, Cut
<1>4. a = c \o r => a \o b = c \o (r \o b)
  BY Regroup
<1>5. ASSUME a \o b = c \o d PROVE r \o b = d
  <2>1. SubSeq(a, 1, Len(c)) = SubSeq(c, 1, Len(c))
    BY <1>5, SamePrefix
  <2>2. SubSeq(a, 1, Len(c)) = c
    BY <2>1, SubSeqFull
  <2>3. a = c \o r
    BY <2>2, <1>3
  <2>4. c \o (r \o b) = c \o d
    BY <2>3, <1>4, <1>5
  <2>5. r \o b \in Seq(S)
    BY ConcatProperties
  <2>6. QED BY <2>4, <2>5, ConcatSimplifications
<1>6. QED BY <1>2, <1>5

(* The elements of a concatenation.                                        *)
LEMMA RangeConcat ==
  ASSUME NEW S, NEW a \in Seq(S), NEW b \in Seq(S)
  PROVE  Range(a \o b) = Range(a) \cup Range(b)
<1>1. /\ a \o b \in Seq(S)
      /\ Len(a \o b) = Len(a) + Len(b)
      /\ \A i \in 1..(Len(a) + Len(b)) : (a \o b)[i] = IF i <= Len(a) THEN a[i] ELSE b[i - Len(a)]
  BY ConcatProperties
<1>2. /\ DOMAIN (a \o b) = 1..(Len(a) + Len(b))
      /\ DOMAIN a = 1..Len(a)
      /\ DOMAIN b = 1..Len(b)
  BY <1>1, LenProperties
<1>3. ASSUME NEW i \in 1..Len(a) PROVE \E k \in 1..(Len(a) + Len(b)) : a[i] = (a \o b)[k]
  BY <1>1
<1>4. ASSUME NEW i \in 1..Len(b) PROVE \E k \in 1..(Len(a) + Len(b)) : b[i] = (a \o b)[k]
  <2>1. PICK k \in 1..(Len(a) + Len(b)) : k = Len(a) + i /\ k - Len(a) = i /\ ~(k <= Len(a))
    OBVIOUS
  <2>2. QED BY <2>1, <1>1
<1>5. ASSUME NEW k \in 1..(Len(a) + Len(b)) PROVE (a \o b)[k] \in Range(a) \cup Range(b)
  BY <1>1, <1>2 DEF Range
<1>6. Range(a \o b) \subseteq Range(a) \cup Range(b)
  BY <1>5, <1>2 DEF Range
<1>7. Range(a) \cup Range(b) \subseteq Range(a \o b)
  <2>1. Range(a) \subseteq Range(a \o b)
    BY <1>3, <1>2 DEF Range
  <2>2. Range(b) \subseteq Range(a \o b)
    BY <1>4, <1>2 DEF Range
  <2>3. QED BY <2>1, <2>2
<1>8. QED BY <1>6, <1>7

-----------------------------------------------------------------------------
(* What FrameWriter makes of a message: not empty, of the header's and the *)
(* message's size, its bytes numbered from one.                            *)
LEMMA FrameIs ==
  ASSUME NEW m \in Messages
  PROVE  /\ Frame(m) \in Seq(Bytes)
         /\ Len(Frame(m)) = HeaderBytes + Size[m]
         /\ Size[m] \in Nat \ {0}
         /\ Frame(m) # <<>>
         /\ \A k \in 1..(HeaderBytes + Size[m]) : Frame(m)[k] = <<m, k>>
<1>1. Size[m] \in Nat \ {0} /\ HeaderBytes \in Nat \ {0}
  BY FrameLinkAssumption
<1>2. PICK n \in Nat : n = HeaderBytes + Size[m] /\ n # 0
  BY <1>1
<1>3. \A k \in 1..n : <<m, k>> \in Bytes
  BY <1>2 DEF Bytes
<1>4. Frame(m) = [k \in 1..n |-> <<m, k>>]
  BY <1>2 DEF Frame
<1>5. Frame(m) \in Seq(Bytes) /\ Len(Frame(m)) = n /\ \A k \in 1..n : Frame(m)[k] = <<m, k>>
  BY <1>3, <1>4
<1>6. Frame(m) # <<>>
  BY <1>5, <1>2
<1>7. QED BY <1>1, <1>2, <1>5, <1>6

(* The frames of the messages of q, and their bytes. *)
FramesOf(q) == [i \in DOMAIN q |-> Frame(q[i])]
Stream(q)   == FlattenSeq(FramesOf(q))

(* The frames of a sequence of messages.                                   *)
LEMMA FramesOfType ==
  ASSUME NEW q \in Seq(Messages)
  PROVE  /\ FramesOf(q) \in Seq(Seq(Bytes))
         /\ Len(FramesOf(q)) = Len(q)
         /\ \A i \in 1..Len(q) : FramesOf(q)[i] = Frame(q[i])
<1>1. DOMAIN q = 1..Len(q) /\ Len(q) \in Nat
  BY LenProperties
<1>2. \A i \in 1..Len(q) : Frame(q[i]) \in Seq(Bytes)
  BY ElementOfSeq, FrameIs
<1>3. FramesOf(q) = [i \in 1..Len(q) |-> Frame(q[i])]
  BY <1>1 DEF FramesOf
<1>4. QED BY <1>1, <1>2, <1>3

(* Their bytes.                                                            *)
LEMMA StreamType ==
  ASSUME NEW q \in Seq(Messages)
  PROVE  Stream(q) \in Seq(Bytes)
BY FramesOfType, FlattenType DEF Stream

(* No message, no byte.                                                    *)
LEMMA StreamEmpty == Stream(<<>>) = <<>>
<1>1. FramesOf(<<>>) = <<>>
  BY DEF FramesOf
<1>2. QED BY <1>1, FlattenEmpty DEF Stream

(* A message more, its frame at the end of the stream.                     *)
LEMMA StreamAppend ==
  ASSUME NEW q \in Seq(Messages), NEW m \in Messages
  PROVE  Stream(Append(q, m)) = Stream(q) \o Frame(m)
<1>1. PICK p \in Seq(Messages) : p = Append(q, m) /\ Len(p) = Len(q) + 1
         /\ p[Len(q) + 1] = m /\ \A i \in 1..Len(q) : p[i] = q[i]
  <2>1. Append(q, m) \in Seq(Messages) /\ Len(Append(q, m)) = Len(q) + 1
         /\ Append(q, m)[Len(q) + 1] = m /\ \A i \in 1..Len(q) : Append(q, m)[i] = q[i]
    BY AppendProperties
  <2>2. QED BY <2>1
<1>2. PICK f \in Seq(Seq(Bytes)) : f = FramesOf(q) /\ Len(f) = Len(q)
         /\ \A i \in 1..Len(q) : f[i] = Frame(q[i])
  BY FramesOfType
<1>3. PICK g \in Seq(Seq(Bytes)) : g = FramesOf(p) /\ Len(g) = Len(q) + 1
         /\ \A i \in 1..(Len(q) + 1) : g[i] = Frame(p[i])
  BY <1>1, FramesOfType
<1>4. PICK x \in Seq(Bytes) : x = Frame(m)
  BY FrameIs
<1>5. g = Append(f, x)
  <2>1. PICK h \in Seq(Seq(Bytes)) : h = Append(f, x) /\ Len(h) = Len(q) + 1 /\ h[Len(q) + 1] = x
          /\ \A i \in 1..Len(q) : h[i] = f[i]
    <3>1. Append(f, x) \in Seq(Seq(Bytes)) /\ Len(Append(f, x)) = Len(f) + 1
         /\ Append(f, x)[Len(f) + 1] = x /\ \A i \in 1..Len(f) : Append(f, x)[i] = f[i]
      BY AppendProperties
    <3>2. QED BY <3>1, <1>2
  <2>2. ASSUME NEW i \in 1..Len(g) PROVE g[i] = h[i]
    <3>1. CASE i \in 1..Len(q)
      BY <3>1, <1>1, <1>2, <1>3, <2>1
    <3>2. CASE i = Len(q) + 1
      BY <3>2, <1>1, <1>3, <1>4, <2>1
    <3>3. QED BY <3>1, <3>2, <1>3
  <2>3. QED BY <2>1, <2>2, <1>3, SeqEqual
<1>6. FlattenSeq(g) = FlattenSeq(f) \o x
  BY <1>5, FlattenAppend
<1>7. QED BY <1>1, <1>2, <1>3, <1>4, <1>6 DEF Stream

(* The stream begins with the frame of the first message.                  *)
LEMMA StreamHead ==
  ASSUME NEW q \in Seq(Messages), q # <<>>
  PROVE  Stream(q) = Frame(Head(q)) \o Stream(Tail(q))
<1>1. PICK p \in Seq(Messages) : p = Tail(q) /\ Len(p) = Len(q) - 1
         /\ \A i \in 1..Len(p) : p[i] = q[i + 1]
  BY HeadTailProperties
<1>2. PICK f \in Seq(Seq(Bytes)) : f = FramesOf(q) /\ Len(f) = Len(q)
         /\ \A i \in 1..Len(q) : f[i] = Frame(q[i])
  BY FramesOfType
<1>3. PICK g \in Seq(Seq(Bytes)) : g = FramesOf(p) /\ Len(g) = Len(p)
         /\ \A i \in 1..Len(p) : g[i] = Frame(p[i])
  BY FramesOfType
<1>4. Len(q) # 0 /\ Head(q) = q[1] /\ Len(q) \in Nat
  OBVIOUS
<1>5. f # <<>> /\ Head(f) = Frame(Head(q))
  BY <1>2, <1>4
<1>6. PICK h \in Seq(Seq(Bytes)) : h = Tail(f) /\ Len(h) = Len(f) - 1
         /\ \A i \in 1..Len(h) : h[i] = f[i + 1]
  BY <1>5, HeadTailProperties
<1>7. g = h
  <2>1. Len(g) = Len(h) /\ Len(g) = Len(q) - 1
    BY <1>1, <1>2, <1>3, <1>6
  <2>2. ASSUME NEW i \in 1..Len(g) PROVE g[i] = h[i]
    <3>1. i \in 1..Len(p) /\ i \in 1..Len(h) /\ i + 1 \in 1..Len(q)
      BY <1>1, <1>3, <1>4, <2>1
    <3>2. g[i] = Frame(q[i + 1])
      BY <3>1, <1>1, <1>3
    <3>3. h[i] = Frame(q[i + 1])
      BY <3>1, <1>2, <1>6
    <3>4. QED BY <3>2, <3>3
  <2>3. QED BY <2>1, <2>2, SeqEqual
<1>8. FlattenSeq(f) = Head(f) \o FlattenSeq(Tail(f))
  BY <1>5, FlattenHead
<1>9. QED BY <1>1, <1>2, <1>3, <1>5, <1>6, <1>7, <1>8 DEF Stream

-----------------------------------------------------------------------------
(* What the lemmas above say of sequences of bytes. *)
LEMMA BytesJoin ==
  ASSUME NEW a \in Seq(Bytes), NEW b \in Seq(Bytes)
  PROVE  /\ a \o b \in Seq(Bytes)
         /\ Len(a \o b) = Len(a) + Len(b)
         /\ Range(a \o b) = Range(a) \cup Range(b)
BY ConcatProperties, RangeConcat

(* Concatenation is associative.                                           *)
LEMMA BytesAssoc ==
  ASSUME NEW a \in Seq(Bytes), NEW b \in Seq(Bytes), NEW c \in Seq(Bytes)
  PROVE  (a \o b) \o c = a \o (b \o c)
BY Assoc

(* A sequence of bytes cut in two.                                         *)
LEMMA BytesCut ==
  ASSUME NEW s \in Seq(Bytes), NEW n \in 0..Len(s)
  PROVE  /\ SubSeq(s, 1, n) \in Seq(Bytes)
         /\ SubSeq(s, n + 1, Len(s)) \in Seq(Bytes)
         /\ Len(SubSeq(s, 1, n)) = n
         /\ Len(SubSeq(s, n + 1, Len(s))) = Len(s) - n
         /\ SubSeq(s, 1, n) \o SubSeq(s, n + 1, Len(s)) = s
BY Cut

(* One stream cut at two places. *)
OneStream(a, b, c, d) == a \o b = c \o d
SamePart(a, c, i, j)  == SubSeq(a, i, j) = SubSeq(c, i, j)

(* Two ways to cut a stream have the same head, as far as both go.         *)
LEMMA BytesSame ==
  ASSUME NEW a \in Seq(Bytes), NEW b \in Seq(Bytes), NEW c \in Seq(Bytes), NEW d \in Seq(Bytes),
         NEW i \in Nat \ {0}, NEW j \in Nat, j <= Len(a), j <= Len(c),
         OneStream(a, b, c, d)
  PROVE  SamePart(a, c, i, j)
BY SamePrefix DEF OneStream, SamePart

(* The shorter head taken away, the rest is the same.                      *)
LEMMA BytesDrop ==
  ASSUME NEW a \in Seq(Bytes), NEW b \in Seq(Bytes), NEW c \in Seq(Bytes), NEW d \in Seq(Bytes),
         Len(c) <= Len(a), OneStream(a, b, c, d)
  PROVE  SubSeq(a, Len(c) + 1, Len(a)) \o b = d
BY DropPrefix DEF OneStream

(* The same bytes, perhaps in another order. *)
SameBytes(a, b) == Len(a) = Len(b) /\ Range(a) = Range(b)

(* The bytes on the way: in the buffer b, on the wire w, in the writes o. *)
OnTheWay(b, w, o) == b \o w \o FlattenSeq(o)

(* They are bytes.                                                         *)
LEMMA OnTheWayType ==
  ASSUME NEW b \in Seq(Bytes), NEW w \in Seq(Bytes), NEW o \in Seq(Seq(Bytes))
  PROVE  OnTheWay(b, w, o) \in Seq(Bytes)
BY FlattenType, BytesJoin DEF OnTheWay

(* They are the buffer and what follows it.                                *)
LEMMA OnTheWaySplit ==
  ASSUME NEW b \in Seq(Bytes), NEW w \in Seq(Bytes), NEW o \in Seq(Seq(Bytes))
  PROVE  OnTheWay(b, w, o) = b \o (w \o FlattenSeq(o))
<1>1. PICK f \in Seq(Bytes) : f = FlattenSeq(o)
  BY FlattenType
<1>2. (b \o w) \o f = b \o (w \o f)
  BY BytesAssoc
<1>3. QED BY <1>1, <1>2 DEF OnTheWay

(* Publish adds its frame at the end.                                      *)
LEMMA Published ==
  ASSUME NEW b \in Seq(Bytes), NEW w \in Seq(Bytes), NEW o \in Seq(Seq(Bytes)), NEW x \in Seq(Bytes)
  PROVE  OnTheWay(b, w, Append(o, x)) = OnTheWay(b, w, o) \o x
<1>1. PICK f \in Seq(Bytes) : f = FlattenSeq(o)
  BY FlattenType
<1>2. FlattenSeq(Append(o, x)) = f \o x
  BY <1>1, FlattenAppend
<1>3. PICK c \in Seq(Bytes) : c = b \o w
  BY BytesJoin
<1>4. (c \o f) \o x = c \o (f \o x)
  BY BytesAssoc
<1>5. QED BY <1>1, <1>2, <1>3, <1>4 DEF OnTheWay

(* What DoRead moves from the wire to the buffer stays in its place.       *)
LEMMA ReadOn ==
  ASSUME NEW b \in Seq(Bytes), NEW w \in Seq(Bytes), NEW o \in Seq(Seq(Bytes)), NEW n \in 0..Len(w)
  PROVE  OnTheWay(b \o SubSeq(w, 1, n), SubSeq(w, n + 1, Len(w)), o) = OnTheWay(b, w, o)
<1>1. PICK p \in Seq(Bytes), r \in Seq(Bytes) :
        p = SubSeq(w, 1, n) /\ r = SubSeq(w, n + 1, Len(w)) /\ p \o r = w
  <2>1. /\ SubSeq(w, 1, n) \in Seq(Bytes)
        /\ SubSeq(w, n + 1, Len(w)) \in Seq(Bytes)
        /\ SubSeq(w, 1, n) \o SubSeq(w, n + 1, Len(w)) = w
    BY BytesCut
  <2>2. QED BY <2>1
<1>2. (b \o p) \o r = b \o (p \o r)
  BY BytesAssoc
<1>3. QED BY <1>1, <1>2 DEF OnTheWay

(* A write the socket takes whole stays in its place.                      *)
LEMMA WrittenWhole ==
  ASSUME NEW b \in Seq(Bytes), NEW w \in Seq(Bytes), NEW o \in Seq(Seq(Bytes)), o # <<>>
  PROVE  OnTheWay(b, w \o Head(o), Tail(o)) = OnTheWay(b, w, o)
<1>1. PICK x \in Seq(Bytes), t \in Seq(Seq(Bytes)) : x = Head(o) /\ t = Tail(o)
  BY HeadTailProperties
<1>2. PICK f \in Seq(Bytes) : f = FlattenSeq(t)
  BY FlattenType
<1>3. FlattenSeq(o) = x \o f
  BY <1>1, <1>2, FlattenHead
<1>4. PICK c \in Seq(Bytes) : c = b \o w
  BY BytesJoin
<1>5. (b \o w) \o x = b \o (w \o x)
  BY BytesAssoc
<1>6. (c \o x) \o f = c \o (x \o f)
  BY BytesAssoc
<1>7. QED BY <1>1, <1>2, <1>3, <1>4, <1>5, <1>6 DEF OnTheWay

(* The same with the first write, of which p is taken, at the head of the   *)
(* others.                                                                  *)
BeforeWrite(b, w, p, r, t) == b \o w \o ((p \o r) \o FlattenSeq(t))

(* A write taken in part and put in line again keeps the bytes, and their  *)
(* order if no other is outstanding.                                       *)
LEMMA WrittenPart ==
  ASSUME NEW b \in Seq(Bytes), NEW w \in Seq(Bytes), NEW t \in Seq(Seq(Bytes)),
         NEW p \in Seq(Bytes), NEW r \in Seq(Bytes)
  PROVE  /\ SameBytes(OnTheWay(b, w \o p, Append(t, r)), BeforeWrite(b, w, p, r, t))
         /\ t = <<>> => OnTheWay(b, w \o p, Append(t, r)) = BeforeWrite(b, w, p, r, t)
<1>4. (b \o w) \o p = b \o (w \o p)
  BY BytesAssoc
<1>1. PICK f \in Seq(Bytes) : f = FlattenSeq(t)
  BY FlattenType
<1>2. PICK c \in Seq(Bytes) : c = b \o w
  BY BytesJoin
<1>3. FlattenSeq(Append(t, r)) = f \o r
  BY <1>1, FlattenAppend
<1>5. OnTheWay(b, w \o p, Append(t, r)) = (c \o p) \o (f \o r)
  BY <1>2, <1>3, <1>4 DEF OnTheWay
<1>6. (c \o p) \o r = c \o (p \o r)
  BY BytesAssoc
<1>7. PICK cp \in Seq(Bytes), fr \in Seq(Bytes), pr \in Seq(Bytes) :
        cp = c \o p /\ fr = f \o r /\ pr = p \o r
  BY BytesJoin
<1>8. PICK h \in Seq(Bytes) : h = pr \o f
  BY BytesJoin
<1>9. Len(cp \o fr) = Len(c \o h)
  <2>1. Len(cp \o fr) = Len(cp) + Len(fr) /\ Len(c \o h) = Len(c) + Len(h)
    BY BytesJoin
  <2>2. Len(cp) = Len(c) + Len(p) /\ Len(fr) = Len(f) + Len(r) /\ Len(pr) = Len(p) + Len(r)
    BY <1>7, BytesJoin
  <2>3. Len(h) = Len(pr) + Len(f)
    BY <1>8, BytesJoin
  <2>4. Len(c) \in Nat /\ Len(p) \in Nat /\ Len(f) \in Nat /\ Len(r) \in Nat
    BY LenProperties
  <2>5. QED BY <2>1, <2>2, <2>3, <2>4
<1>10. Range(cp \o fr) = Range(c \o h)
  <2>1. Range(cp \o fr) = Range(cp) \cup Range(fr) /\ Range(c \o h) = Range(c) \cup Range(h)
    BY BytesJoin
  <2>2. /\ Range(cp) = Range(c) \cup Range(p)
        /\ Range(fr) = Range(f) \cup Range(r)
        /\ Range(pr) = Range(p) \cup Range(r)
    BY <1>7, BytesJoin
  <2>3. Range(h) = Range(pr) \cup Range(f)
    BY <1>8, BytesJoin
  <2>4. QED BY <2>1, <2>2, <2>3
<1>11. ASSUME t = <<>> PROVE cp \o fr = c \o h
  <2>1. f = <<>>
    BY <1>11, <1>1, FlattenEmpty
  <2>2. fr = r /\ h = pr
    BY <2>1, <1>7, <1>8, ConcatEmptySeq
  <2>3. QED BY <2>2, <1>6, <1>7
<1>12. QED BY <1>1, <1>2, <1>5, <1>7, <1>8, <1>9, <1>10, <1>11 DEF SameBytes, BeforeWrite

(* The same bytes stay the same when both get more.                        *)
LEMMA MoreBytes ==
  ASSUME NEW a \in Seq(Bytes), NEW b \in Seq(Bytes), NEW x \in Seq(Bytes), SameBytes(a, b)
  PROVE  SameBytes(a \o x, b \o x)
<1>1. Len(a \o x) = Len(a) + Len(x) /\ Len(b \o x) = Len(b) + Len(x)
  BY BytesJoin
<1>2. Range(a \o x) = Range(a) \cup Range(x) /\ Range(b \o x) = Range(b) \cup Range(x)
  BY BytesJoin
<1>3. QED BY <1>1, <1>2 DEF SameBytes

-----------------------------------------------------------------------------
(* The head of a frame tells which message it is.                          *)
LEMMA FirstByteTells ==
  ASSUME NEW m \in Messages, NEW k \in Messages,
         SubSeq(Frame(k), 1, HeaderBytes) = SubSeq(Frame(m), 1, HeaderBytes)
  PROVE  k = m
<1>1. HeaderBytes \in Nat \ {0}
  BY FrameLinkAssumption
<1>2. SubSeq(Frame(m), 1, HeaderBytes)[1] = <<m, 1>>
  <2>1. Frame(m) \in Seq(Bytes) /\ HeaderBytes <= Len(Frame(m)) /\ Frame(m)[1] = <<m, 1>>
    BY <1>1, FrameIs
  <2>2. QED BY <1>1, <2>1
<1>3. SubSeq(Frame(k), 1, HeaderBytes)[1] = <<k, 1>>
  <2>1. Frame(k) \in Seq(Bytes) /\ HeaderBytes <= Len(Frame(k)) /\ Frame(k)[1] = <<k, 1>>
    BY <1>1, FrameIs
  <2>2. QED BY <1>1, <2>1
<1>4. <<k, 1>> = <<m, 1>>
  BY <1>2, <1>3
<1>5. QED BY <1>4

(* The length FrameReader finds at the head of a stream of frames is the one*)
(* FrameWriter put there.                                                  *)
LEMMA HeaderRead ==
  ASSUME NEW m \in Messages, NEW buf \in Seq(Bytes), NEW z \in Seq(Bytes), NEW d \in Seq(Bytes),
         OneStream(buf, z, Frame(m), d), Len(buf) >= HeaderBytes
  PROVE  Decoded(buf) = {Size[m]}
<1>1. HeaderBytes \in Nat \ {0}
  BY FrameLinkAssumption
<1>2. PICK x \in Seq(Bytes) : x = Frame(m) /\ HeaderBytes <= Len(x)
  BY <1>1, FrameIs
<1>3. PICK i \in Nat \ {0}, j \in Nat : i = 1 /\ j = HeaderBytes
  BY <1>1
<1>4. j <= Len(buf) /\ j <= Len(x) /\ OneStream(buf, z, x, d)
  BY <1>1, <1>2, <1>3
<1>5. SamePart(buf, x, i, j)
  BY <1>4, BytesSame
<1>6. SubSeq(buf, 1, HeaderBytes) = SubSeq(Frame(m), 1, HeaderBytes)
  BY <1>2, <1>3, <1>5 DEF SamePart
<1>7. {k \in Messages : SubSeq(buf, 1, HeaderBytes) = SubSeq(Frame(k), 1, HeaderBytes)} = {m}
  BY <1>6, FirstByteTells
<1>8. Lengths(buf) = {Size[m]}
  BY <1>7 DEF Lengths
<1>9. QED BY <1>8 DEF Decoded

(* What it takes out then is the message, and the rest of the stream stays.*)
LEMMA FrameTaken ==
  ASSUME NEW m \in Messages, NEW buf \in Seq(Bytes), NEW z \in Seq(Bytes), NEW d \in Seq(Bytes),
         OneStream(buf, z, Frame(m), d), Len(buf) >= Size[m] + HeaderBytes
  PROVE  /\ SubSeq(buf, HeaderBytes + 1, HeaderBytes + Size[m]) = Payload(m)
         /\ SubSeq(buf, HeaderBytes + Size[m] + 1, Len(buf)) \o z = d
<1>1. HeaderBytes \in Nat \ {0} /\ Size[m] \in Nat \ {0}
  BY FrameLinkAssumption
<1>2. PICK x \in Seq(Bytes) : x = Frame(m) /\ Len(x) = HeaderBytes + Size[m]
  BY FrameIs
<1>3. PICK i \in Nat \ {0} : i = HeaderBytes + 1
  BY <1>1
<1>4. PICK j \in Nat : j = HeaderBytes + Size[m]
  BY <1>1
<1>5. j <= Len(buf) /\ j <= Len(x) /\ Len(x) <= Len(buf) /\ OneStream(buf, z, x, d)
  BY <1>1, <1>2, <1>4
<1>6. SamePart(buf, x, i, j)
  BY <1>5, BytesSame
<1>7. SubSeq(buf, Len(x) + 1, Len(buf)) \o z = d
  BY <1>5, BytesDrop
<1>8. QED BY <1>2, <1>3, <1>4, <1>6, <1>7 DEF Payload, SamePart

(* The messages that are still to come are messages.                       *)
LEMMA DueType ==
  ASSUME NEW q \in Seq(Messages), NEW d \in Nat
  PROVE  SubSeq(q, d + 1, Len(q)) \in Seq(Messages)
<1>1. \A i \in (d + 1)..Len(q) : q[i] \in Messages
  BY ElementOfSeq
<1>2. QED BY <1>1, SubSeqProperties

(* A message more is one more to come.                                     *)
LEMMA DueMore ==
  ASSUME NEW q \in Seq(Messages), NEW m \in Messages, NEW d \in Nat, d <= Len(q)
  PROVE  SubSeq(Append(q, m), d + 1, Len(Append(q, m))) = Append(SubSeq(q, d + 1, Len(q)), m)
<1>1. PICK p \in Seq(Messages) : p = Append(q, m)
  BY AppendProperties
<1>2. Len(p) = Len(q) + 1 /\ p[Len(q) + 1] = m /\ \A i \in 1..Len(q) : p[i] = q[i]
  BY <1>1, AppendProperties
<1>3. PICK s \in Seq(Messages) : s = SubSeq(q, d + 1, Len(q))
  BY DueType
<1>4. Len(s) = Len(q) - d /\ \A i \in 1..(Len(q) - d) : s[i] = q[d + i]
  BY <1>3, ElementOfSeq, SubSeqProperties
<1>5. PICK t \in Seq(Messages) : t = SubSeq(p, d + 1, Len(p))
  BY DueType
<1>6. Len(t) = Len(q) + 1 - d /\ \A i \in 1..(Len(q) + 1 - d) : t[i] = p[d + i]
  BY <1>2, <1>5, ElementOfSeq, SubSeqProperties
<1>7. PICK a \in Seq(Messages) : a = Append(s, m)
  BY AppendProperties
<1>8. Len(a) = Len(s) + 1 /\ a[Len(s) + 1] = m /\ \A i \in 1..Len(s) : a[i] = s[i]
  BY <1>7, AppendProperties
<1>9. Len(t) = Len(a)
  BY <1>4, <1>6, <1>8
<1>10. ASSUME NEW i \in 1..Len(t) PROVE t[i] = a[i]
  <2>1. i \in 1..(Len(q) + 1 - d) /\ t[i] = p[d + i]
    BY <1>6
  <2>2. CASE i \in 1..Len(s)
    <3>1. i \in 1..(Len(q) - d) /\ d + i \in 1..Len(q)
      BY <2>2, <1>4
    <3>2. QED BY <3>1, <2>1, <2>2, <1>2, <1>4, <1>8
  <2>3. CASE i = Len(s) + 1
    <3>1. d + i = Len(q) + 1
      BY <2>3, <1>4
    <3>2. QED BY <3>1, <2>1, <2>3, <1>2, <1>8
  <2>4. QED BY <2>2, <2>3, <1>8, <1>9
<1>11. t = a
  BY <1>9, <1>10, SeqEqual
<1>12. QED BY <1>1, <1>3, <1>5, <1>7, <1>11

(* The first one to come, and the others after it.                         *)
LEMMA DueFirst ==
  ASSUME NEW q \in Seq(Messages), NEW d \in Nat, SubSeq(q, d + 1, Len(q)) # <<>>
  PROVE  /\ d + 1 <= Len(q)
         /\ q[d + 1] \in Messages
         /\ Head(SubSeq(q, d + 1, Len(q))) = q[d + 1]
         /\ Tail(SubSeq(q, d + 1, Len(q))) = SubSeq(q, d + 1 + 1, Len(q))
<1>1. d + 1 \in 1..Len(q)
  <2>1. SUFFICES ASSUME Len(q) < d + 1 PROVE FALSE
    OBVIOUS
  <2>2. SubSeq(q, d + 1, Len(q)) = <<>>
    BY <2>1, SubSeqEmpty
  <2>3. QED BY <2>2
<1>2. PICK m \in 1..Len(q) : m = d + 1
  BY <1>1
<1>3. Len(q) \in m..Len(q)
  OBVIOUS
<1>4. Head(SubSeq(q, m, Len(q))) = q[m] /\ Tail(SubSeq(q, m, Len(q))) = SubSeq(q, m + 1, Len(q))
  BY <1>3, HeadTailOfSubSeq
<1>5. q[m] \in Messages
  BY ElementOfSeq
<1>6. QED BY <1>2, <1>4, <1>5

-----------------------------------------------------------------------------
(* The messages still to come and the bytes on the way. *)
Due  == SubSeq(order, Len(delivered) + 1, Len(order))
Held == OnTheWay(buffer, wire, outbox)

(* While no write was mixed, the bytes on the way are the frames due. *)
Ordered == ~mixed => Held = Stream(Due)

(* Until a message is posted, all bytes of all frames are on the way. *)
Complete == delivered = <<>> => SameBytes(Held, Stream(order))

(* The inductive invariant.  Intact alone is not one: that the next message*)
(* is whole follows from what is on the way, and that from the order of the*)
(* bytes in the writes.                                                    *)
LinkInv == TypeOK /\ Intact /\ Ordered /\ Complete

(* The outstanding writes are sequences of bytes. *)
LEMMA OutboxType ==
  ASSUME TypeOK
  PROVE  outbox \in Seq(Seq(Bytes))
BY SeqMonotonic DEF TypeOK

(* The link starts empty.                                                  *)
LEMMA InitInv == LinkInit => LinkInv
<1> SUFFICES ASSUME LinkInit PROVE LinkInv
  OBVIOUS
<1>1. TypeOK
  <2>1. order \in Seq(Messages) /\ outbox \in Seq(Seq(Bytes) \ {<<>>}) /\ wire \in Seq(Bytes)
        /\ buffer \in Seq(Bytes) /\ delivered \in Seq(Seq(Bytes))
    BY EmptySeq DEF LinkInit
  <2>2. mixed \in BOOLEAN
    BY DEF LinkInit
  <2>3. QED BY <2>1, <2>2 DEF TypeOK
<1>2. Intact
  BY DEF LinkInit, Intact
<1>3. order = <<>> /\ delivered = <<>> /\ buffer = <<>> /\ wire = <<>> /\ outbox = <<>>
  BY DEF LinkInit
<1>4. Held = <<>>
  BY <1>3, FlattenEmpty, ConcatEmptySeq DEF Held, OnTheWay
<1>5. Due = <<>>
  BY <1>3, SubSeqEmpty DEF Due
<1>6. Held = Stream(Due) /\ Held = Stream(order)
  BY <1>3, <1>4, <1>5, StreamEmpty
<1>7. QED BY <1>1, <1>2, <1>6 DEF LinkInv, Ordered, Complete, SameBytes

(* Publish: one frame more is due, and its bytes are on the way, last.     *)
LEMMA PublishInv ==
  ASSUME LinkInv, NEW m \in Messages, Publish(m)
  PROVE  LinkInv'
<1>1. TypeOK /\ Intact /\ Ordered /\ Complete
  BY DEF LinkInv
<1>2. /\ order' = Append(order, m)
      /\ outbox' = Append(outbox, Frame(m))
      /\ mixed' = (mixed \/ HalfDone)
      /\ wire' = wire /\ buffer' = buffer /\ delivered' = delivered
  BY DEF Publish
<1>3. /\ order \in Seq(Messages) /\ buffer \in Seq(Bytes) /\ wire \in Seq(Bytes)
      /\ outbox \in Seq(Seq(Bytes)) /\ delivered \in Seq(Seq(Bytes))
  BY <1>1, OutboxType DEF TypeOK
<1>4. PICK x \in Seq(Bytes) : x = Frame(m) /\ x # <<>>
  BY FrameIs
<1>5. TypeOK'
  <2>1. order' \in Seq(Messages)
    BY <1>2, <1>3, AppendProperties
  <2>2. outbox' \in Seq(Seq(Bytes) \ {<<>>})
    BY <1>1, <1>2, <1>4, AppendProperties DEF TypeOK
  <2>3. mixed' \in BOOLEAN
    BY <1>2
  <2>4. QED BY <2>1, <2>2, <2>3, <1>1, <1>2 DEF TypeOK
<1>6. Held' = Held \o x
  BY <1>2, <1>3, <1>4, Published DEF Held
<1>7. Held \in Seq(Bytes)
  BY <1>3, OnTheWayType DEF Held
<1>8. Stream(order') = Stream(order) \o x
  BY <1>2, <1>3, <1>4, StreamAppend
<1>9. Complete'
  <2> SUFFICES ASSUME delivered' = <<>> PROVE SameBytes(Held', Stream(order'))
    BY DEF Complete
  <2>1. SameBytes(Held, Stream(order))
    BY <1>1, <1>2 DEF Complete
  <2>2. Stream(order) \in Seq(Bytes)
    BY <1>3, StreamType
  <2>3. QED BY <2>1, <2>2, <1>4, <1>6, <1>7, <1>8, MoreBytes
<1>10. ASSUME ~mixed'
       PROVE  /\ Held' = Stream(Due')
              /\ Len(delivered') <= Len(order')
              /\ \A i \in DOMAIN delivered' : delivered'[i] = Payload(order'[i])
  <2>1. ~mixed
    BY <1>2, <1>10
  <2>2. Held = Stream(Due) /\ Len(delivered) <= Len(order)
        /\ \A i \in DOMAIN delivered : delivered[i] = Payload(order[i])
    BY <1>1, <2>1 DEF Ordered, Intact
  <2>3. Len(delivered) \in Nat /\ DOMAIN delivered = 1..Len(delivered)
    BY <1>3, LenProperties
  <2>4. Due' = Append(Due, m)
    BY <1>2, <1>3, <2>2, <2>3, DueMore DEF Due
  <2>5. Due \in Seq(Messages)
    BY <1>3, <2>3, DueType DEF Due
  <2>6. Stream(Due') = Stream(Due) \o x
    BY <1>4, <2>4, <2>5, StreamAppend
  <2>7. Len(order') = Len(order) + 1 /\ \A i \in 1..Len(order) : order'[i] = order[i]
    BY <1>2, <1>3, AppendProperties
  <2>8. \A i \in DOMAIN delivered' : delivered'[i] = Payload(order'[i])
    BY <1>2, <1>3, <2>2, <2>3, <2>7
  <2>9. Len(delivered') <= Len(order')
    BY <1>2, <1>3, <2>2, <2>3, <2>7
  <2>10. QED BY <2>2, <2>6, <2>8, <2>9, <1>6
<1>11. QED BY <1>5, <1>9, <1>10 DEF LinkInv, Ordered, Intact

(* async_write: bytes go from the first write to the wire.  Their order is *)
(* kept unless the write goes on after another one.                        *)
LEMMA WriteInv ==
  ASSUME LinkInv, outbox # <<>>, NEW n \in 1..Len(Head(outbox)), WriteSome(n)
  PROVE  LinkInv'
<1>1. TypeOK /\ Intact /\ Ordered /\ Complete
  BY DEF LinkInv
<1>2. /\ order \in Seq(Messages) /\ buffer \in Seq(Bytes) /\ wire \in Seq(Bytes)
      /\ outbox \in Seq(Seq(Bytes)) /\ outbox \in Seq(Seq(Bytes) \ {<<>>})
  BY <1>1, OutboxType DEF TypeOK
<1>3. PICK h \in Seq(Bytes) : h = Head(outbox)
  BY <1>2, HeadTailProperties
<1>4. PICK t \in Seq(Seq(Bytes)) : t = Tail(outbox) /\ Len(t) = Len(outbox) - 1
  BY <1>2, HeadTailProperties
<1>5. n \in 0..Len(h) /\ n \in 1..Len(h)
  BY <1>3
<1>6. PICK p \in Seq(Bytes) : p = SubSeq(h, 1, n)
  BY <1>5, BytesCut
<1>7. PICK r \in Seq(Bytes) : r = SubSeq(h, n + 1, Len(h))
  BY <1>5, BytesCut
<1>8. p \o r = h
  BY <1>5, <1>6, <1>7, BytesCut
<1>9. /\ mixed' = (mixed \/ (r # <<>> /\ Len(outbox) > 1))
      /\ wire' = wire \o p
      /\ outbox' = t \o (IF r = <<>> THEN <<>> ELSE <<r>>)
      /\ order' = order /\ buffer' = buffer /\ delivered' = delivered
  BY <1>3, <1>4, <1>6, <1>7 DEF WriteSome
<1>10. FlattenSeq(outbox) = h \o FlattenSeq(t)
  BY <1>2, <1>3, <1>4, FlattenHead
<1>11. Held = buffer \o wire \o (h \o FlattenSeq(t))
  BY <1>10 DEF Held, OnTheWay
<1>12. /\ SameBytes(Held', Held)
       /\ ~mixed' => Held' = Held
       /\ outbox' \in Seq(Seq(Bytes) \ {<<>>})
  <2>0. t \in Seq(Seq(Bytes) \ {<<>>})
    BY <1>2, <1>4, HeadTailProperties
  <2>1. CASE r = <<>>
    <3>1. outbox' = t
      BY <1>9, <1>4, <2>1, ConcatEmptySeq
    <3>2. p = h
      BY <1>8, <2>1, ConcatEmptySeq
    <3>3. OnTheWay(buffer, wire \o h, t) = OnTheWay(buffer, wire, outbox)
      BY <1>2, <1>3, <1>4, WrittenWhole
    <3>4. Held' = Held
      BY <3>1, <3>2, <3>3, <1>9 DEF Held
    <3>5. QED BY <3>1, <3>4, <2>0 DEF SameBytes
  <2>2. CASE r # <<>>
    <3>1. outbox' = Append(t, r)
      BY <1>9, <2>2, AppendIsConcat
    <3>2. /\ SameBytes(OnTheWay(buffer, wire \o p, Append(t, r)), BeforeWrite(buffer, wire, p, r, t))
          /\ t = <<>> => OnTheWay(buffer, wire \o p, Append(t, r)) = BeforeWrite(buffer, wire, p, r, t)
      BY <1>2, WrittenPart
    <3>3. Held' = OnTheWay(buffer, wire \o p, Append(t, r))
      BY <3>1, <1>9 DEF Held
    <3>4. Held = BeforeWrite(buffer, wire, p, r, t)
      BY <1>8, <1>11 DEF BeforeWrite
    <3>5. ~mixed' => t = <<>>
      <4>1. ~mixed' => ~(Len(outbox) > 1)
        BY <1>9, <2>2
      <4>2. ~(Len(outbox) > 1) => Len(t) = 0
        BY <1>2, <1>4
      <4>3. QED BY <4>1, <4>2, EmptySeq
    <3>6. outbox' \in Seq(Seq(Bytes) \ {<<>>})
      BY <2>0, <2>2, <3>1, AppendProperties
    <3>7. SameBytes(Held', Held)
      BY <3>2, <3>3, <3>4
    <3>8. ~mixed' => Held' = Held
      BY <3>2, <3>3, <3>4, <3>5
    <3>9. QED BY <3>6, <3>7, <3>8
  <2>3. QED BY <2>1, <2>2
<1>13. TypeOK'
  <2>1. wire' \in Seq(Bytes)
    BY <1>2, <1>9, BytesJoin
  <2>2. mixed' \in BOOLEAN
    BY <1>9
  <2>3. QED BY <2>1, <2>2, <1>1, <1>9, <1>12 DEF TypeOK
<1>14. Due' = Due
  BY <1>9 DEF Due
<1>15. ~mixed' => ~mixed
  BY <1>9
<1>16. Ordered'
  BY <1>1, <1>12, <1>14, <1>15 DEF Ordered
<1>17. Complete'
  BY <1>1, <1>9, <1>12 DEF Complete, SameBytes
<1>18. Intact'
  BY <1>1, <1>9, <1>15 DEF Intact
<1>19. QED BY <1>13, <1>16, <1>17, <1>18 DEF LinkInv

(* FrameReader::OnData takes nothing, or a part of the buffer as a message.*)
LEMMA OnDataCases ==
  ASSUME TypeOK, NEW buf \in Seq(Bytes), OnData(buf)
  PROVE  \/ buffer' = buf /\ delivered' = delivered
         \/ \E size \in Decoded(buf) :
              /\ size \in Nat
              /\ Len(buf) >= HeaderBytes
              /\ Len(buf) >= size + HeaderBytes
              /\ delivered' = Append(delivered, SubSeq(buf, HeaderBytes + 1, HeaderBytes + size))
              /\ buffer' = SubSeq(buf, HeaderBytes + size + 1, Len(buf))
<1>1. HeaderBytes \in Nat \ {0} /\ Len(buf) \in Nat
  BY FrameLinkAssumption
<1>2. Decoded(buf) \subseteq Nat
  <2>1. Lengths(buf) \subseteq Nat
    BY FrameLinkAssumption DEF Lengths
  <2>2. QED BY <1>1, <2>1 DEF Decoded
<1>3. CASE Len(buf) < HeaderBytes /\ buffer' = buf /\ UNCHANGED delivered
  BY <1>3
<1>4. CASE /\ Len(buf) >= HeaderBytes
           /\ \E frameBytes \in Decoded(buf) :
                IF Len(buf) < frameBytes + HeaderBytes
                  THEN buffer' = buf /\ UNCHANGED delivered
                  ELSE /\ delivered' = Append(delivered,
                            SubSeq(buf, HeaderBytes + 1, HeaderBytes + frameBytes))
                       /\ buffer' = SubSeq(buf, HeaderBytes + frameBytes + 1, Len(buf))
  <2>1. PICK size \in Decoded(buf) :
          IF Len(buf) < size + HeaderBytes
            THEN buffer' = buf /\ UNCHANGED delivered
            ELSE /\ delivered' = Append(delivered,
                      SubSeq(buf, HeaderBytes + 1, HeaderBytes + size))
                 /\ buffer' = SubSeq(buf, HeaderBytes + size + 1, Len(buf))
    BY <1>4
  <2>2. size \in Nat
    BY <1>2
  <2>3. CASE Len(buf) < size + HeaderBytes
    BY <2>1, <2>3
  <2>4. CASE ~(Len(buf) < size + HeaderBytes)
    <3>1. Len(buf) >= size + HeaderBytes
      BY <1>1, <2>2, <2>4
    <3>2. QED BY <3>1, <2>1, <2>2, <2>4, <1>4
  <2>5. QED BY <2>3, <2>4
<1>5. QED BY <1>3, <1>4 DEF OnData

(* t is s with x after it. *)
Appended(t, s, x) ==
  /\ t \in Seq(Seq(Bytes)) /\ t # <<>>
  /\ Len(t) = Len(s) + 1
  /\ t[Len(s) + 1] = x
  /\ \A i \in 1..Len(s) : t[i] = s[i]

(* That is what Append does.                                               *)
LEMMA MessageAppended ==
  ASSUME NEW s \in Seq(Seq(Bytes)), NEW x \in Seq(Bytes)
  PROVE  Appended(Append(s, x), s, x)
BY AppendProperties DEF Appended

(* DoRead and OnData: a message that is taken out is the one due, and what is*)
(* left is the stream of the others.                                       *)
LEMMA ReadInv ==
  ASSUME LinkInv, NEW n \in 1..Len(wire), DoRead(n)
  PROVE  LinkInv'
<1>1. TypeOK /\ Intact /\ Ordered /\ Complete
  BY DEF LinkInv
<1>2. /\ order \in Seq(Messages) /\ buffer \in Seq(Bytes) /\ wire \in Seq(Bytes)
      /\ outbox \in Seq(Seq(Bytes)) /\ delivered \in Seq(Seq(Bytes))
  BY <1>1, OutboxType DEF TypeOK
<1>3. n \in 0..Len(wire)
  BY <1>2
<1>4. PICK p \in Seq(Bytes) : p = SubSeq(wire, 1, n)
  BY <1>2, <1>3, BytesCut
<1>5. PICK w \in Seq(Bytes) : w = SubSeq(wire, n + 1, Len(wire))
  BY <1>2, <1>3, BytesCut
<1>6. PICK buf \in Seq(Bytes) : buf = buffer \o p
  BY <1>2, BytesJoin
<1>7. /\ wire' = w /\ OnData(buf)
      /\ order' = order /\ outbox' = outbox /\ mixed' = mixed
  BY <1>4, <1>5, <1>6 DEF DoRead
<1>8. OnTheWay(buf, w, outbox) = Held
  BY <1>2, <1>3, <1>4, <1>5, <1>6, ReadOn DEF Held
<1>9. CASE buffer' = buf /\ delivered' = delivered
  <2>1. Held' = Held /\ Due' = Due
    BY <1>7, <1>8, <1>9 DEF Held, Due
  <2>2. TypeOK'
    BY <1>1, <1>7, <1>9 DEF TypeOK
  <2>3. Ordered' /\ Complete' /\ Intact'
    BY <1>1, <1>7, <1>9, <2>1 DEF Ordered, Complete, Intact
  <2>4. QED BY <2>2, <2>3 DEF LinkInv
<1>10. CASE \E size \in Decoded(buf) :
              /\ size \in Nat
              /\ Len(buf) >= HeaderBytes
              /\ Len(buf) >= size + HeaderBytes
              /\ delivered' = Append(delivered, SubSeq(buf, HeaderBytes + 1, HeaderBytes + size))
              /\ buffer' = SubSeq(buf, HeaderBytes + size + 1, Len(buf))
  <2>1. PICK size \in Decoded(buf) :
              /\ size \in Nat
              /\ Len(buf) >= HeaderBytes
              /\ Len(buf) >= size + HeaderBytes
              /\ delivered' = Append(delivered, SubSeq(buf, HeaderBytes + 1, HeaderBytes + size))
              /\ buffer' = SubSeq(buf, HeaderBytes + size + 1, Len(buf))
    BY <1>10
  <2>2. HeaderBytes \in Nat \ {0}
    BY FrameLinkAssumption
  <2>3. PICK x \in Seq(Bytes) : x = SubSeq(buf, HeaderBytes + 1, HeaderBytes + size)
    <3>1. HeaderBytes + size <= Len(buf) /\ HeaderBytes + 1 \in Nat /\ HeaderBytes + size \in Nat
      BY <2>1, <2>2
    <3>2. \A i \in (HeaderBytes + 1)..(HeaderBytes + size) : buf[i] \in Bytes
      BY <3>1, <2>2, ElementOfSeq
    <3>3. SubSeq(buf, HeaderBytes + 1, HeaderBytes + size) \in Seq(Bytes)
      BY <3>1, <3>2, SubSeqProperties
    <3>4. QED BY <3>3
  <2>4. PICK y \in Seq(Bytes) : y = SubSeq(buf, HeaderBytes + size + 1, Len(buf))
    <3>1. HeaderBytes + size \in 0..Len(buf)
      BY <2>1, <2>2
    <3>2. QED BY <3>1, BytesCut
  <2>5. delivered' = Append(delivered, x) /\ buffer' = y
    BY <2>1, <2>3, <2>4
  <2>6. /\ delivered' \in Seq(Seq(Bytes)) /\ delivered' # <<>>
        /\ Len(delivered') = Len(delivered) + 1
        /\ delivered'[Len(delivered) + 1] = x
        /\ \A i \in 1..Len(delivered) : delivered'[i] = delivered[i]
    <3>1. Appended(Append(delivered, x), delivered, x)
      BY <1>2, MessageAppended
    <3>2. QED BY <3>1, <2>5 DEF Appended
  <2>7. TypeOK'
    BY <1>1, <1>7, <2>5, <2>6 DEF TypeOK
  <2>8. Complete'
    BY <2>6 DEF Complete
  <2>9. ASSUME ~mixed
        PROVE  /\ Held' = Stream(Due')
               /\ Len(delivered') <= Len(order)
               /\ \A i \in DOMAIN delivered' : delivered'[i] = Payload(order[i])
    <3>1. Held = Stream(Due) /\ Len(delivered) <= Len(order)
          /\ \A i \in DOMAIN delivered : delivered[i] = Payload(order[i])
      BY <1>1, <2>9 DEF Ordered, Intact
    <3>2. PICK d \in Nat : d = Len(delivered)
      BY <1>2
    <3>3. Due = SubSeq(order, d + 1, Len(order)) /\ Due \in Seq(Messages)
      BY <1>2, <3>2, DueType DEF Due
    <3>4. PICK f \in Seq(Bytes) : f = FlattenSeq(outbox)
      BY <1>2, FlattenType
    <3>5. PICK z \in Seq(Bytes) : z = w \o f
      BY BytesJoin
    <3>6. buf \o z = Stream(Due)
      <4>1. OnTheWay(buf, w, outbox) = buf \o (w \o f)
        BY <1>2, <3>4, OnTheWaySplit
      <4>2. QED BY <4>1, <3>1, <3>5, <1>8
    <3>7. Due # <<>>
      <4>1. SUFFICES ASSUME Due = <<>> PROVE FALSE
        OBVIOUS
      <4>2. buf \o z = <<>>
        BY <3>6, <4>1, StreamEmpty
      <4>3. Len(buf \o z) = Len(buf) + Len(z) /\ Len(buf) \in Nat /\ Len(z) \in Nat
        BY BytesJoin, LenProperties
      <4>4. QED BY <4>2, <4>3, <2>1, <2>2
    <3>8. PICK m \in Messages : m = Head(Due) /\ m = order[d + 1]
      BY <1>2, <3>3, <3>7, DueFirst
    <3>9. d + 1 <= Len(order) /\ Tail(Due) = SubSeq(order, d + 1 + 1, Len(order))
      BY <1>2, <3>3, <3>7, DueFirst
    <3>10. PICK e \in Seq(Bytes) : e = Stream(Tail(Due))
      BY <3>3, <3>7, HeadTailProperties, StreamType
    <3>11. OneStream(buf, z, Frame(m), e)
      BY <3>3, <3>6, <3>7, <3>8, <3>10, StreamHead DEF OneStream
    <3>12. Decoded(buf) = {Size[m]}
      BY <3>11, <2>1, HeaderRead
    <3>13. size = Size[m]
      BY <3>12
    <3>14. x = Payload(m) /\ y \o z = e
      <4>1. Len(buf) >= Size[m] + HeaderBytes
        BY <2>1, <3>13
      <4>2. QED BY <4>1, <3>11, <3>13, <2>3, <2>4, FrameTaken
    <3>15. Due' = Tail(Due)
      BY <1>7, <2>6, <3>2, <3>9 DEF Due
    <3>16. Held' = y \o z
      <4>1. OnTheWay(y, w, outbox) = y \o (w \o f)
        BY <1>2, <3>4, OnTheWaySplit
      <4>2. QED BY <4>1, <3>5, <1>7, <2>5 DEF Held
    <3>17. Held' = Stream(Due')
      BY <3>10, <3>14, <3>15, <3>16
    <3>18. Len(delivered') <= Len(order)
      BY <2>6, <3>2, <3>9
    <3>19. ASSUME NEW i \in DOMAIN delivered' PROVE delivered'[i] = Payload(order[i])
      <4>1. i \in 1..(d + 1)
        BY <2>6, <3>2, LenProperties
      <4>2. CASE i \in 1..d
        <5>1. i \in DOMAIN delivered
          BY <4>2, <1>2, <3>2, LenProperties
        <5>2. QED BY <5>1, <4>2, <3>1, <3>2, <2>6
      <4>3. CASE i = d + 1
        BY <4>3, <2>6, <3>2, <3>8, <3>14
      <4>4. QED BY <4>1, <4>2, <4>3
    <3>20. QED BY <3>17, <3>18, <3>19
  <2>10. QED BY <1>7, <2>7, <2>8, <2>9 DEF LinkInv, Ordered, Intact
<1>11. QED BY <1>1, <1>7, <1>9, <1>10, OnDataCases

(* Session::Publish, async_write and DoRead, with FrameWriter at one end and*)
(* FrameReader::OnData at the other, keep the inductive invariant: for any *)
(* messages, sizes, length of the header and of a read, and however many writes*)
(* are outstanding.                                                        *)
THEOREM LinkCorrect == LinkSpec => []LinkInv
<1>1. LinkInit => LinkInv
  BY InitInv
<1>2. LinkInv /\ [LinkNext]_linkVars => LinkInv'
  <2> SUFFICES ASSUME LinkInv, [LinkNext]_linkVars PROVE LinkInv'
    OBVIOUS
  <2>1. CASE \E m \in Messages : Publish(m)
    BY <2>1, PublishInv
  <2>2. CASE WriteStep
    BY <2>2, WriteInv DEF WriteStep
  <2>3. CASE ReadStep
    BY <2>3, ReadInv DEF ReadStep
  <2>4. CASE UNCHANGED linkVars
    BY <2>4 DEF linkVars, LinkInv, TypeOK, Intact, Ordered, Complete, Held, Due, OnTheWay
  <2>5. QED BY <2>1, <2>2, <2>3, <2>4 DEF LinkNext
<1>3. QED BY <1>1, <1>2, PTL DEF LinkSpec

(* FrameReader posts what FrameWriter was given, each message whole, none twice*)
(* and in the order of the writes, however the reads cut the stream, unless a*)
(* write was taken in part while another one was outstanding.              *)
THEOREM MessagesIntact == LinkSpec => []Intact
<1>1. LinkInv => Intact
  BY DEF LinkInv
<1>2. QED BY <1>1, LinkCorrect, PTL

(* buffer, wire and outstanding writes hold exactly the frames that        *)
(* FrameReader::OnData has not yet taken out; after mixed writes still all of*)
(* their bytes, until one of them is taken for a length.                   *)
THEOREM NothingLost == LinkSpec => []StreamKept
<1>1. LinkInv => StreamKept
  <2> SUFFICES ASSUME LinkInv PROVE StreamKept
    OBVIOUS
  <2>1. order \in Seq(Messages) /\ TypeOK /\ delivered \in Seq(Seq(Bytes))
    BY DEF LinkInv, TypeOK
  <2>2. Stream(Due) = FlattenSeq([i \in DOMAIN Due |-> Frame(Due[i])])
    BY DEF Stream, FramesOf
  <2>3. ~mixed => Held = Stream(Due)
    BY DEF LinkInv, Ordered
  <2>4. ASSUME delivered = <<>>
        PROVE  Len(Held) = Len(Stream(Due)) /\ Range(Held) = Range(Stream(Due))
    <3>1. Due = order
      BY <2>1, <2>4, SubSeqFull DEF Due
    <3>2. QED BY <2>4, <3>1 DEF LinkInv, Complete, SameBytes
  <2>5. QED BY <2>1, <2>2, <2>3, <2>4 DEF StreamKept, Held, Due, OnTheWay
<1>2. QED BY <1>1, LinkCorrect, PTL

-----------------------------------------------------------------------------
(* The chains of clients.                                                  *)

(* f is the table of a chain after 0 to n calls of OnClose. *)
ClosingTable(f, chain, n) ==
  f = [k \in 0..n |-> IF k = 0 THEN chain ELSE ChainOnClose(f[k - 1])]

(* The table can be made longer by one.                                     *)
LEMMA ClosingMore ==
  ASSUME NEW chain, NEW n \in Nat, NEW f, ClosingTable(f, chain, n)
  PROVE  \E g : ClosingTable(g, chain, n + 1)
<1> DEFINE e == ChainOnClose(f[n])
           g == [k \in 0..(n + 1) |-> IF k <= n THEN f[k] ELSE e]
<1>1. \A k \in 0..n : f[k] = IF k = 0 THEN chain ELSE ChainOnClose(f[k - 1])
  BY DEF ClosingTable
<1>2. ASSUME NEW k \in 0..(n + 1)
      PROVE  g[k] = IF k = 0 THEN chain ELSE ChainOnClose(g[k - 1])
  <2> HIDE DEF e
  <2>1. CASE k <= n
    <3>1. g[k] = f[k] /\ (k # 0 => g[k - 1] = f[k - 1])
      BY <2>1
    <3>2. k \in 0..n
      BY <2>1
    <3> HIDE DEF g
    <3>3. QED BY <3>1, <3>2, <1>1
  <2>2. CASE k = n + 1
    <3>1. g[k] = e /\ g[k - 1] = f[n] /\ k # 0
      BY <2>2
    <3> HIDE DEF g
    <3>2. QED BY <3>1 DEF e
  <2>3. QED BY <2>1, <2>2
<1>3. g = [k \in 0..(n + 1) |-> g[k]]
  OBVIOUS
<1>4. ClosingTable(g, chain, n + 1)
  <2> HIDE DEF g
  <2> QED BY <1>2, <1>3 DEF ClosingTable
<1>5. QED BY <1>4

(* Closing is the last entry of such a table.                               *)
LEMMA ClosingIs ==
  ASSUME NEW chain, NEW n \in Nat
  PROVE  \E f : ClosingTable(f, chain, n) /\ Closing(chain, n) = f[n]
<1> DEFINE G == {k \in 0..n : \E f : ClosingTable(f, chain, k)}
<1>1. 0 \in G
  <2>1. ClosingTable([k \in 0..0 |-> chain], chain, 0)
    BY DEF ClosingTable
  <2>2. QED BY <2>1
<1>2. ASSUME NEW k \in 0..(n - 1), k \in G PROVE k + 1 \in G
  <2>1. PICK f : ClosingTable(f, chain, k)
    BY <1>2
  <2>2. \E g : ClosingTable(g, chain, k + 1)
    BY <2>1, ClosingMore
  <2>3. QED BY <2>2
<1>3. n \in G
  <2> HIDE DEF G
  <2>1. \A k \in 0..(n - 1) : k \in G => k + 1 \in G
    BY <1>2
  <2>2. \A k \in 0..n : k \in G
    BY <1>1, <2>1, SetInduction
  <2>3. QED BY <2>2
<1>4. PICK f : ClosingTable(f, chain, n)
  BY <1>3
<1> DEFINE F == CHOOSE x : x = [k \in 0..n |-> IF k = 0 THEN chain ELSE ChainOnClose(x[k - 1])]
<1>5. ClosingTable(F, chain, n)
  BY <1>4 DEF ClosingTable
<1>6. Closing(chain, n) = F[n]
  BY DEF Closing
<1>7. QED BY <1>5, <1>6

-----------------------------------------------------------------------------
(* f is the table of what comes to the holders from i on. *)
PassedTable(f, chain, i, b, n) ==
  f = [k \in 0..n |-> IF k = 0 THEN b ELSE Filter(chain.clients[i + k - 1].type, f[k - 1])]

(* The table can be made longer by one.                                     *)
LEMMA PassedMore ==
  ASSUME NEW chain, NEW i \in Nat, NEW b, NEW n \in Nat, NEW f, PassedTable(f, chain, i, b, n)
  PROVE  \E g : PassedTable(g, chain, i, b, n + 1)
<1> DEFINE e == Filter(chain.clients[i + (n + 1) - 1].type, f[n])
           g == [k \in 0..(n + 1) |-> IF k <= n THEN f[k] ELSE e]
<1>1. \A k \in 0..n : f[k] = IF k = 0 THEN b ELSE Filter(chain.clients[i + k - 1].type, f[k - 1])
  BY DEF PassedTable
<1>2. ASSUME NEW k \in 0..(n + 1)
      PROVE  g[k] = IF k = 0 THEN b ELSE Filter(chain.clients[i + k - 1].type, g[k - 1])
  <2> HIDE DEF e
  <2>1. CASE k <= n
    <3>1. g[k] = f[k] /\ (k # 0 => g[k - 1] = f[k - 1])
      BY <2>1
    <3>2. k \in 0..n
      BY <2>1
    <3> HIDE DEF g
    <3>3. QED BY <3>1, <3>2, <1>1
  <2>2. CASE k = n + 1
    <3>1. g[k] = e /\ g[k - 1] = f[n] /\ k # 0
      BY <2>2
    <3> HIDE DEF g
    <3>2. QED BY <2>2, <3>1 DEF e
  <2>3. QED BY <2>1, <2>2
<1>3. g = [k \in 0..(n + 1) |-> g[k]]
  OBVIOUS
<1>4. PassedTable(g, chain, i, b, n + 1)
  <2> HIDE DEF g
  <2> QED BY <1>2, <1>3 DEF PassedTable
<1>5. QED BY <1>4

(* Passed is such a table, as long as the chain.                            *)
LEMMA PassedIs ==
  ASSUME NEW chain, NEW i \in Nat, NEW b, NEW n \in Nat, Len(chain.clients) + 1 - i = n
  PROVE  PassedTable(Passed(chain, i, b), chain, i, b, n)
<1> DEFINE G == {k \in 0..n : \E f : PassedTable(f, chain, i, b, k)}
<1>1. 0 \in G
  <2>1. PassedTable([k \in 0..0 |-> b], chain, i, b, 0)
    BY DEF PassedTable
  <2>2. QED BY <2>1
<1>2. ASSUME NEW k \in 0..(n - 1), k \in G PROVE k + 1 \in G
  <2>1. PICK f : PassedTable(f, chain, i, b, k)
    BY <1>2
  <2>2. \E g : PassedTable(g, chain, i, b, k + 1)
    BY <2>1, PassedMore
  <2>3. QED BY <2>2
<1>3. n \in G
  <2> HIDE DEF G
  <2>1. \A k \in 0..(n - 1) : k \in G => k + 1 \in G
    BY <1>2
  <2>2. \A k \in 0..n : k \in G
    BY <1>1, <2>1, SetInduction
  <2>3. QED BY <2>2
<1>4. PICK f : PassedTable(f, chain, i, b, n)
  BY <1>3
<1> DEFINE F == CHOOSE x : x = [k \in 0..n |->
                  IF k = 0 THEN b ELSE Filter(chain.clients[i + k - 1].type, x[k - 1])]
<1>5. PassedTable(F, chain, i, b, n)
  BY <1>4 DEF PassedTable
<1>6. Passed(chain, i, b) = F
  BY DEF Passed
<1>7. QED BY <1>5, <1>6

-----------------------------------------------------------------------------
(* The least element of a set of integers.                                  *)
LEMMA MinIs ==
  ASSUME NEW T, T \subseteq Int, NEW x \in T, \A y \in T : x <= y
  PROVE  Min(T) = x
<1>1. Min(T) \in T /\ \A y \in T : Min(T) <= y
  BY DEF Min
<1>2. PICK z \in Int : z = Min(T)
  BY <1>1
<1>3. z <= x /\ x <= z
  BY <1>1, <1>2
<1>4. QED BY <1>2, <1>3

(* The greatest element of a set of one.                                    *)
LEMMA MaxIs ==
  ASSUME NEW x \in Int
  PROVE  Max({x}) = x
BY DEF Max

(* The protocols of remote/predefined.                                      *)
Protocols == {SimpleFrame, ArchivedFrame}

(* A client of a type in a chain that was closed k times. *)
MadeClient(c, type, k) ==
  /\ {"type", "args", "marked", "closed"} \subseteq DOMAIN c
  /\ c.type = type
  /\ c.args = NewClient(type, ClientCreators).args
  /\ c.marked <=> k > 1
  /\ c.closed = IF k < 3 THEN 0 ELSE k - 2

(* A chain for a protocol that was closed k times. *)
Made(chain, types, k) ==
  /\ {"marked", "clients"} \subseteq DOMAIN chain
  /\ chain.marked <=> k > 0
  /\ DOMAIN chain.clients = 1..Len(types)
  /\ chain.clients = [i \in 1..Len(types) |-> chain.clients[i]]
  /\ \A i \in 1..Len(types) : MadeClient(chain.clients[i], types[i], k)

(* Holder::CreateClient.                                                    *)
LEMMA NewMade ==
  ASSUME NEW type
  PROVE  MadeClient(NewClient(type, ClientCreators), type, 0)
BY DEF MadeClient, NewClient

(* Client::OnClose of a client in a chain that is marked: the first call marks *)
(* the client, the next ones reach its Close().                             *)
LEMMA ClientClosed ==
  ASSUME NEW c, NEW type, NEW k \in Nat, k # 0, MadeClient(c, type, k)
  PROVE  MadeClient(ClientOnClose(c), type, k + 1)
<1>1. CASE c.marked
  <2>1. k > 1
    BY <1>1 DEF MadeClient
  <2>2. ClientOnClose(c) = [c EXCEPT !.closed = c.closed + 1]
    BY <1>1 DEF ClientOnClose
  <2>3. c.closed = k + 1 - 3
    BY <2>1 DEF MadeClient
  <2>4. QED BY <1>1, <2>1, <2>2, <2>3 DEF MadeClient
<1>2. CASE ~c.marked
  <2>1. k = 1
    BY <1>2 DEF MadeClient
  <2>2. ClientOnClose(c) = [c EXCEPT !.marked = TRUE]
    BY <1>2 DEF ClientOnClose
  <2>3. QED BY <1>2, <2>1, <2>2 DEF MadeClient
<1>3. QED BY <1>1, <1>2

(* ClientsChain::CreateChain.                                               *)
LEMMA ChainMade ==
  ASSUME NEW types \in Protocols
  PROVE  Made(CreateChain(types, ClientCreators), types, 0)
<1>1. DOMAIN types = 1..Len(types)
  BY DEF Protocols, SimpleFrame, ArchivedFrame
<1>2. PICK chain : chain = CreateChain(types, ClientCreators)
  OBVIOUS
<1>3. chain = [marked |-> FALSE,
               clients |-> [i \in 1..Len(types) |-> NewClient(types[i], ClientCreators)]]
  BY <1>1, <1>2 DEF CreateChain
<1>4. \A i \in 1..Len(types) : MadeClient(chain.clients[i], types[i], 0)
  BY <1>3, NewMade
<1>5. QED BY <1>2, <1>3, <1>4 DEF Made

(* OnClose of the chain: the first call marks the chain and does not reach the *)
(* clients.                                                                 *)
LEMMA ChainClosed ==
  ASSUME NEW types \in Protocols, NEW chain, NEW k \in Nat, Made(chain, types, k)
  PROVE  Made(ChainOnClose(chain), types, k + 1)
<1>1. CASE chain.marked
  <2>1. k # 0
    BY <1>1 DEF Made
  <2>2. PICK cs : cs = [i \in 1..Len(types) |-> ClientOnClose(chain.clients[i])]
    OBVIOUS
  <2>3. ChainOnClose(chain) = [chain EXCEPT !.clients = cs]
    BY <1>1, <2>2 DEF ChainOnClose, Made
  <2>4. \A i \in 1..Len(types) : MadeClient(cs[i], types[i], k + 1)
    BY <2>1, <2>2, ClientClosed DEF Made
  <2>5. QED BY <1>1, <2>1, <2>2, <2>3, <2>4 DEF Made
<1>2. CASE ~chain.marked
  <2>1. k = 0
    BY <1>2 DEF Made
  <2>2. ChainOnClose(chain) = [chain EXCEPT !.marked = TRUE]
    BY <1>2 DEF ChainOnClose
  <2>3. \A i \in 1..Len(types) : MadeClient(chain.clients[i], types[i], k + 1)
    BY <2>1 DEF Made, MadeClient
  <2>4. QED BY <1>2, <2>1, <2>2, <2>3 DEF Made
<1>3. QED BY <1>1, <1>2

(* A chain for which OnClose was called n times.                            *)
LEMMA ClosedTimes ==
  ASSUME NEW types \in Protocols, NEW n \in Nat
  PROVE  Made(Closing(CreateChain(types, ClientCreators), n), types, n)
<1>1. PICK chain : chain = CreateChain(types, ClientCreators)
  OBVIOUS
<1>2. PICK f : ClosingTable(f, chain, n) /\ Closing(chain, n) = f[n]
  BY ClosingIs
<1>3. \A k \in 0..n : f[k] = IF k = 0 THEN chain ELSE ChainOnClose(f[k - 1])
  BY <1>2 DEF ClosingTable
<1> DEFINE G == {k \in 0..n : Made(f[k], types, k)}
<1>4. 0 \in G
  BY <1>1, <1>3, ChainMade
<1>5. ASSUME NEW k \in 0..(n - 1), k \in G PROVE k + 1 \in G
  <2>1. f[k + 1] = ChainOnClose(f[k])
    BY <1>3
  <2>2. Made(f[k + 1], types, k + 1)
    BY <1>5, <2>1, ChainClosed
  <2>3. QED BY <2>2
<1>6. n \in G
  <2> HIDE DEF G
  <2>1. \A k \in 0..(n - 1) : k \in G => k + 1 \in G
    BY <1>5
  <2>2. \A k \in 0..n : k \in G
    BY <1>4, <2>1, SetInduction
  <2>3. QED BY <2>2
<1>7. QED BY <1>1, <1>2, <1>6

-----------------------------------------------------------------------------
(* The types of a protocol, one by one. *)
LEMMA ProtocolTypes ==
  /\ Len(SimpleFrame) = 4 /\ Len(ArchivedFrame) = 6
  /\ SimpleFrame[1] = "FrameReader" /\ SimpleFrame[2] = "ParallelHandler"
  /\ SimpleFrame[3] = "PSClient" /\ SimpleFrame[4] = "FrameWriter"
  /\ ArchivedFrame[1] = "FrameReader" /\ ArchivedFrame[2] = "ParallelHandler"
  /\ ArchivedFrame[3] = "GZipDecompressor" /\ ArchivedFrame[4] = "PSClient"
  /\ ArchivedFrame[5] = "GZipCompressor" /\ ArchivedFrame[6] = "FrameWriter"
BY DEF SimpleFrame, ArchivedFrame

(* What follows for its clients, without the records.                       *)
LEMMA ClientsOf ==
  ASSUME NEW types \in Protocols, NEW chain, NEW k \in Nat, Made(chain, types, k)
  PROVE  /\ Len(chain.clients) = Len(types)
         /\ Len(types) \in Nat
         /\ \A i \in 1..Len(types) : chain.clients[i].type = types[i]
         /\ \A i \in 1..Len(types) : chain.clients[i].marked <=> k > 1
         /\ chain.marked <=> k > 0
<1>1. Len(types) \in Nat
  BY ProtocolTypes DEF Protocols
<1>2. chain.clients = [i \in 1..Len(types) |-> chain.clients[i]]
  BY DEF Made
<1>3. Len(chain.clients) = Len(types)
  BY <1>1, <1>2
<1>4. QED BY <1>1, <1>3 DEF Made, MadeClient

(* The way of b: what comes to the holder at j, for a chain whose clients are *)
(* not marked.                                                                *)
Way(p, types, i, b) ==
  /\ p[0] = b
  /\ \A j \in i..Len(types) : p[j + 1 - i] = Filter(types[j], p[j - i])

(* What Passed returns is the way of b.                                     *)
LEMMA WayIs ==
  ASSUME NEW types \in Protocols, NEW chain, NEW k \in Nat, Made(chain, types, k),
         NEW i \in 1..Len(types), NEW b
  PROVE  Way(Passed(chain, i, b), types, i, b)
<1>1. PICK p : p = Passed(chain, i, b)
  OBVIOUS
<1>2. PICK n \in Nat : n = Len(types) + 1 - i /\ n = Len(chain.clients) + 1 - i
  <2>1. Len(chain.clients) = Len(types) /\ Len(types) \in Nat
    BY ClientsOf
  <2>2. Len(types) + 1 - i \in Nat
    BY <2>1
  <2>3. QED BY <2>1, <2>2
<1>3. i \in Nat
  OBVIOUS
<1>4. PassedTable(p, chain, i, b, n)
  BY <1>1, <1>2, <1>3, PassedIs
<1>5. \A j \in 0..n : p[j] = IF j = 0 THEN b ELSE Filter(chain.clients[i + j - 1].type, p[j - 1])
  BY <1>4 DEF PassedTable
<1>6. p[0] = b
  BY <1>5
<1>7. ASSUME NEW j \in i..Len(types)
      PROVE  p[j + 1 - i] = Filter(types[j], p[j - i])
  <2>1. PICK d \in 0..n : d = j + 1 - i /\ d # 0 /\ d - 1 = j - i /\ i + d - 1 = j
    BY <1>2, ClientsOf
  <2>2. p[d] = Filter(chain.clients[j].type, p[d - 1])
    BY <1>5, <2>1
  <2>3. chain.clients[j].type = types[j]
    BY ClientsOf
  <2>4. QED BY <2>1, <2>2, <2>3
<1>8. QED BY <1>1, <1>6, <1>7 DEF Way

(* The first client that keeps what comes is at s, or there is none before   *)
(* the end.                                                                  *)
StopsAt(p, types, i, s) ==
  /\ \A j \in i..(s - 1) : p[j - i] # Empty /\ types[j] # "PSClient"
  /\ s = Len(types) + 1 \/ p[s - i] = Empty \/ types[s] = "PSClient"

(* What becomes of x there, and the workers that it has passed.              *)
Outcome(chain, types, s, x) ==
  IF s = Len(types) + 1 THEN ChainPost(chain, x)
  ELSE IF x = Empty THEN <<"throws">> ELSE <<"delivered", x>>

WorkersBefore(types, i, s) == {j \in i..(s - 1) : types[j] = "ParallelHandler"}

(* OnData of a holder, once it is known where the buffer stops.             *)
LEMMA OutcomeIs ==
  ASSUME NEW types \in Protocols, NEW chain, NEW k \in Nat, k < 2, Made(chain, types, k),
         NEW i \in 1..Len(types), NEW b,
         NEW s \in i..(Len(types) + 1), StopsAt(Passed(chain, i, b), types, i, s)
  PROVE  HolderOnData(chain, i, b) =
           IF Outcome(chain, types, s, Passed(chain, i, b)[s - i]) = <<"throws">>
                /\ WorkersBefore(types, i, s) # {}
             THEN ClientCloseMe(chain, Max(WorkersBefore(types, i, s)))
             ELSE Outcome(chain, types, s, Passed(chain, i, b)[s - i])
<1>1. PICK p : p = Passed(chain, i, b)
  OBVIOUS
<1>2. PICK end \in Nat : end = Len(chain.clients) + 1 /\ end = Len(types) + 1 /\ end - 1 = Len(types)
  <2>1. Len(chain.clients) = Len(types) /\ Len(types) \in Nat
    BY ClientsOf
  <2>2. QED BY <2>1
<1>3. \A j \in 1..Len(types) : chain.clients[j].type = types[j] /\ ~chain.clients[j].marked
  BY ClientsOf
<1>4. \A j \in i..(end - 1) :
        Keeps(chain.clients[j], p[j - i]) <=> p[j - i] = Empty \/ types[j] = "PSClient"
  BY <1>2, <1>3 DEF Keeps
<1> DEFINE T == {j \in i..(end - 1) : Keeps(chain.clients[j], p[j - i])} \cup {end}
<1>5. s \in Nat /\ i <= s /\ s <= end
  BY <1>2
<1>6. s \in T
  <2>1. CASE s = end
    BY <2>1
  <2>2. CASE s # end
    <3>1. s \in i..(end - 1)
      BY <1>5, <1>2, <2>2
    <3>2. p[s - i] = Empty \/ types[s] = "PSClient"
      BY <2>2, <1>1, <1>2 DEF StopsAt
    <3>3. QED BY <3>1, <3>2, <1>4
  <2>3. QED BY <2>1, <2>2
<1>7. ASSUME NEW j \in T PROVE s <= j
  <2>1. CASE j = end
    BY <2>1, <1>5
  <2>2. CASE j # end
    <3>1. j \in i..(end - 1) /\ (p[j - i] = Empty \/ types[j] = "PSClient")
      BY <2>2, <1>4
    <3>2. ~(j \in i..(s - 1))
      BY <3>1, <1>1 DEF StopsAt
    <3>3. QED BY <3>1, <3>2, <1>5, <1>2
  <2>3. QED BY <2>1, <2>2
<1>8. T \subseteq Int
  BY <1>2
<1>9. Min(T) = s
  <2> HIDE DEF T
  <2> QED BY <1>6, <1>7, <1>8, MinIs
<1>10. Kept(chain.clients[s], p[s - i]) =
         (IF p[s - i] = Empty THEN <<"throws">> ELSE <<"delivered", p[s - i]>>)
       \/ s = end
  BY <1>2, <1>3, <1>5 DEF Kept
<1>11. {j \in i..(s - 1) : chain.clients[j].type = "ParallelHandler"} = WorkersBefore(types, i, s)
  BY <1>2, <1>3, <1>5 DEF WorkersBefore
<1> DEFINE o == IF s = end THEN ChainPost(chain, p[end - i]) ELSE Kept(chain.clients[s], p[s - i])
           W == {j \in i..(s - 1) : chain.clients[j].type = "ParallelHandler"}
<1>12. HolderOnData(chain, i, b) =
         IF o = <<"throws">> /\ W # {} THEN ClientCloseMe(chain, Max(W)) ELSE o
  BY <1>1, <1>2, <1>9 DEF HolderOnData
<1>13. o = Outcome(chain, types, s, p[s - i])
  BY <1>2, <1>10 DEF Outcome
<1> HIDE DEF o, W
<1>14. QED BY <1>1, <1>11, <1>12, <1>13 DEF W

-----------------------------------------------------------------------------
(* What PSClient posts, as long as it is not marked: FrameWriter frames it. *)
LEMMA SimpleOut ==
  ASSUME NEW chain, NEW k \in Nat, k < 2, Made(chain, SimpleFrame, k), NEW b, b # Empty
  PROVE  HolderOnData(chain, 4, b) = ChainPost(chain, <<"frame", b>>)
<1>1. SimpleFrame \in Protocols /\ 4 \in 1..Len(SimpleFrame) /\ 5 \in 4..(Len(SimpleFrame) + 1)
  BY ProtocolTypes DEF Protocols
<1>2. PICK p : p = Passed(chain, 4, b)
  OBVIOUS
<1>3. Way(p, SimpleFrame, 4, b)
  BY <1>1, <1>2, WayIs
<1>4. p[0] = b /\ p[1] = Filter(SimpleFrame[4], b)
  BY <1>3, ProtocolTypes DEF Way
<1>5. p[1] = <<"frame", b>>
  BY <1>4, ProtocolTypes DEF Filter
<1>6. StopsAt(p, SimpleFrame, 4, 5)
  BY <1>4, ProtocolTypes DEF StopsAt
<1>7. Outcome(chain, SimpleFrame, 5, p[1]) = ChainPost(chain, <<"frame", b>>)
  BY <1>5, ProtocolTypes DEF Outcome
<1>8. ChainPost(chain, <<"frame", b>>) # <<"throws">>
  BY DEF ChainPost
<1>9. QED BY <1>1, <1>2, <1>6, <1>7, <1>8, OutcomeIs

(* With compression: GZipCompressor comes first.                            *)
LEMMA ArchivedOut ==
  ASSUME NEW chain, NEW k \in Nat, k < 2, Made(chain, ArchivedFrame, k), NEW b, b # Empty
  PROVE  HolderOnData(chain, 5, b) = ChainPost(chain, <<"frame", <<"zip", b>>>>)
<1>1. ArchivedFrame \in Protocols /\ 5 \in 1..Len(ArchivedFrame) /\ 7 \in 5..(Len(ArchivedFrame) + 1)
  BY ProtocolTypes DEF Protocols
<1>2. PICK p : p = Passed(chain, 5, b)
  OBVIOUS
<1>3. Way(p, ArchivedFrame, 5, b)
  BY <1>1, <1>2, WayIs
<1>4. p[0] = b /\ p[1] = Filter(ArchivedFrame[5], p[0]) /\ p[2] = Filter(ArchivedFrame[6], p[1])
  BY <1>3, ProtocolTypes DEF Way
<1>5. p[1] = <<"zip", b>> /\ p[1] # Empty
  BY <1>4, ProtocolTypes DEF Filter, Compress, Empty
<1>6. p[2] = <<"frame", <<"zip", b>>>>
  BY <1>4, <1>5, ProtocolTypes DEF Filter
<1>7. StopsAt(p, ArchivedFrame, 5, 7)
  BY <1>4, <1>5, ProtocolTypes DEF StopsAt
<1>8. Outcome(chain, ArchivedFrame, 7, p[2]) = ChainPost(chain, <<"frame", <<"zip", b>>>>)
  BY <1>6, ProtocolTypes DEF Outcome
<1>9. ChainPost(chain, <<"frame", <<"zip", b>>>>) # <<"throws">>
  BY DEF ChainPost
<1>10. QED BY <1>1, <1>2, <1>7, <1>8, <1>9, OutcomeIs

(* What comes in on a chain that was not closed: FrameReader takes the frame *)
(* off, a worker passes it on, and PSClient gets the content.               *)
LEMMA SimpleIn ==
  ASSUME NEW chain, Made(chain, SimpleFrame, 0), NEW x, x # Empty
  PROVE  HolderOnData(chain, 1, <<"frame", x>>) = <<"delivered", x>>
<1>1. SimpleFrame \in Protocols /\ 1 \in 1..Len(SimpleFrame) /\ 3 \in 1..(Len(SimpleFrame) + 1)
  BY ProtocolTypes DEF Protocols
<1>2. PICK b : b = <<"frame", x>> /\ b # Empty /\ b[2] = x
  <2>1. <<"frame", x>> # Empty /\ <<"frame", x>>[2] = x
    BY DEF Empty
  <2>2. QED BY <2>1
<1>3. PICK p : p = Passed(chain, 1, b)
  OBVIOUS
<1>4. Way(p, SimpleFrame, 1, b)
  BY <1>1, <1>3, WayIs
<1>5. p[0] = b /\ p[1] = Filter(SimpleFrame[1], p[0]) /\ p[2] = Filter(SimpleFrame[2], p[1])
  BY <1>4, ProtocolTypes DEF Way
<1>6. p[1] = x
  BY <1>2, <1>5, ProtocolTypes DEF Filter
<1>7. p[2] = x
  BY <1>5, <1>6, ProtocolTypes DEF Filter
<1>8. StopsAt(p, SimpleFrame, 1, 3)
  BY <1>2, <1>5, <1>6, ProtocolTypes DEF StopsAt
<1>9. Outcome(chain, SimpleFrame, 3, p[2]) = <<"delivered", x>>
  BY <1>7, ProtocolTypes DEF Outcome
<1>10. QED BY <1>1, <1>2, <1>3, <1>8, <1>9, OutcomeIs

(* With compression: GZipDecompressor, which may refuse it; the worker of   *)
(* ParallelHandler then closes the session.                                 *)
LEMMA ArchivedIn ==
  ASSUME NEW chain, Made(chain, ArchivedFrame, 0), NEW x, x # Empty
  PROVE  HolderOnData(chain, 1, <<"frame", x>>) =
           IF Decompress(x) = Empty THEN <<"closes">> ELSE <<"delivered", Decompress(x)>>
<1>1. ArchivedFrame \in Protocols /\ 1 \in 1..Len(ArchivedFrame) /\ 4 \in 1..(Len(ArchivedFrame) + 1)
  BY ProtocolTypes DEF Protocols
<1>2. PICK b : b = <<"frame", x>> /\ b # Empty /\ b[2] = x
  <2>1. <<"frame", x>> # Empty /\ <<"frame", x>>[2] = x
    BY DEF Empty
  <2>2. QED BY <2>1
<1>3. PICK p : p = Passed(chain, 1, b)
  OBVIOUS
<1>4. Way(p, ArchivedFrame, 1, b)
  BY <1>1, <1>3, WayIs
<1>5. /\ p[0] = b
      /\ p[1] = Filter(ArchivedFrame[1], p[0])
      /\ p[2] = Filter(ArchivedFrame[2], p[1])
      /\ p[3] = Filter(ArchivedFrame[3], p[2])
  BY <1>4, ProtocolTypes DEF Way
<1>6. p[1] = x
  BY <1>2, <1>5, ProtocolTypes DEF Filter
<1>7. p[2] = x
  BY <1>5, <1>6, ProtocolTypes DEF Filter
<1>8. p[3] = Decompress(x)
  BY <1>5, <1>7, ProtocolTypes DEF Filter
<1>9. StopsAt(p, ArchivedFrame, 1, 4)
  BY <1>2, <1>5, <1>6, <1>7, ProtocolTypes DEF StopsAt
<1>10. Outcome(chain, ArchivedFrame, 4, p[3]) =
         IF Decompress(x) = Empty THEN <<"throws">> ELSE <<"delivered", Decompress(x)>>
  BY <1>8, ProtocolTypes DEF Outcome
<1>11. WorkersBefore(ArchivedFrame, 1, 4) = {2}
  BY ProtocolTypes DEF WorkersBefore
<1>12. Max({2}) = 2
  BY MaxIs
<1>13. ClientCloseMe(chain, 2) = <<"closes">>
  <2>1. ~chain.clients[2].marked /\ ~chain.marked
    BY <1>1, ProtocolTypes, ClientsOf
  <2>2. QED BY <2>1 DEF ClientCloseMe
<1>14. PICK o : o = Outcome(chain, ArchivedFrame, 4, p[3])
  OBVIOUS
<1>15. HolderOnData(chain, 1, b) = IF o = <<"throws">> /\ WorkersBefore(ArchivedFrame, 1, 4) # {}
                                   THEN ClientCloseMe(chain, Max(WorkersBefore(ArchivedFrame, 1, 4)))
                                   ELSE o
  BY <1>1, <1>3, <1>9, <1>14, OutcomeIs
<1>16. HolderOnData(chain, 1, b) = IF o = <<"throws">> THEN <<"closes">> ELSE o
  BY <1>11, <1>12, <1>13, <1>15
<1>17. CASE Decompress(x) = Empty
  BY <1>2, <1>10, <1>14, <1>16, <1>17
<1>18. CASE Decompress(x) # Empty
  <2>1. o = <<"delivered", Decompress(x)>>
    BY <1>10, <1>14, <1>18
  <2>2. o # <<"throws">>
    BY <2>1
  <2>3. QED BY <2>1, <2>2, <1>2, <1>16, <1>18
<1>19. QED BY <1>17, <1>18

(* An empty buffer is refused by the next client.                           *)
LEMMA EmptyOut ==
  ASSUME NEW types \in Protocols, NEW chain, NEW k \in Nat, k < 2, Made(chain, types, k),
         NEW i \in 1..Len(types)
  PROVE  HolderOnData(chain, i, Empty) = <<"throws">>
<1>1. i \in i..(Len(types) + 1) /\ i # Len(types) + 1 /\ i - i = 0
  BY ClientsOf
<1>2. PICK p : p = Passed(chain, i, Empty)
  OBVIOUS
<1>3. p[0] = Empty
  BY <1>2, WayIs DEF Way
<1>4. StopsAt(p, types, i, i)
  BY <1>1, <1>3 DEF StopsAt
<1>5. Outcome(chain, types, i, p[0]) = <<"throws">>
  BY <1>1, <1>3 DEF Outcome
<1>6. WorkersBefore(types, i, i) = {}
  BY DEF WorkersBefore
<1>7. QED BY <1>1, <1>2, <1>4, <1>5, <1>6, OutcomeIs

(* Where PSClient is in a protocol. *)
ItemOf(types) == IF types = SimpleFrame THEN 3 ELSE 4

(* GetClientItem finds PSClient there.                                      *)
LEMMA ItemIs ==
  ASSUME NEW types \in Protocols, NEW chain, NEW k \in Nat, Made(chain, types, k)
  PROVE  /\ GetClientItem(chain, "PSClient") = ItemOf(types)
         /\ ItemOf(types) \in 1..Len(types) /\ ItemOf(types) + 1 \in 1..Len(types)
         /\ types[ItemOf(types)] = "PSClient"
<1>1. SimpleFrame # ArchivedFrame
  BY ProtocolTypes
<1>2. PICK x \in Nat : x = ItemOf(types)
  BY DEF ItemOf
<1>3. /\ x \in 1..Len(types) /\ x + 1 \in 1..Len(types) /\ types[x] = "PSClient"
      /\ \A j \in 1..Len(types) : types[j] = "PSClient" => j = x
  <2>1. CASE types = SimpleFrame
    BY <2>1, <1>2, ProtocolTypes DEF ItemOf
  <2>2. CASE types = ArchivedFrame
    BY <2>2, <1>1, <1>2, ProtocolTypes DEF ItemOf
  <2>3. QED BY <2>1, <2>2 DEF Protocols
<1>4. {j \in DOMAIN chain.clients : chain.clients[j].type = "PSClient"} = {x}
  BY <1>3, ClientsOf DEF Made
<1>5. Min({x}) = x
  BY MinIs
<1>6. QED BY <1>2, <1>3, <1>4, <1>5 DEF GetClientItem

(* What a protocol makes of a message. *)
Packed(types, b) == IF types = SimpleFrame THEN <<"frame", b>> ELSE <<"frame", <<"zip", b>>>>

(* Client::Post: what leaves the chain of the sender.                       *)
LEMMA PostIs ==
  ASSUME NEW types \in Protocols, NEW chain, NEW k \in Nat, Made(chain, types, k), NEW b
  PROVE  /\ k > 0 \/ b = Empty => ClientPost(chain, ItemOf(types), b) \in {<<"dropped">>, <<"throws">>}
         /\ k = 0 /\ b # Empty => ClientPost(chain, ItemOf(types), b) = <<"posted", Packed(types, b)>>
<1>1. PICK x \in 1..Len(types) : x = ItemOf(types) /\ x + 1 \in 1..Len(types)
  BY ItemIs
<1>2. (chain.clients[x].marked <=> k > 1) /\ (chain.marked <=> k > 0)
  BY ClientsOf
<1>3. CASE k > 1
  BY <1>1, <1>2, <1>3 DEF ClientPost
<1>4. CASE ~(k > 1)
  <2>1. k < 2
    BY <1>4
  <2>2. ClientPost(chain, x, b) = HolderOnData(chain, x + 1, b)
    BY <1>2, <1>4 DEF ClientPost
  <2>3. CASE b = Empty
    <3>1. HolderOnData(chain, x + 1, Empty) = <<"throws">>
      BY <1>1, <2>1, EmptyOut
    <3>2. QED BY <1>1, <2>2, <2>3, <3>1
  <2>4. CASE b # Empty
    <3>1. HolderOnData(chain, x + 1, b) = ChainPost(chain, Packed(types, b))
      <4>1. CASE types = SimpleFrame
        BY <4>1, <1>1, <2>1, <2>4, SimpleOut DEF ItemOf, Packed
      <4>2. CASE types = ArchivedFrame
        <5>1. SimpleFrame # ArchivedFrame
          BY ProtocolTypes
        <5>2. QED BY <4>2, <5>1, <1>1, <2>1, <2>4, ArchivedOut DEF ItemOf, Packed
      <4>3. QED BY <4>1, <4>2 DEF Protocols
    <3>2. QED BY <1>1, <1>2, <2>2, <2>4, <3>1 DEF ChainPost
  <2>5. QED BY <2>3, <2>4
<1>5. QED BY <1>3, <1>4

(* Client::OnData: what the chain of the receiver makes of it.              *)
LEMMA ReceiveIs ==
  ASSUME NEW from \in Protocols, NEW to \in Protocols, NEW chain, NEW k \in Nat, Made(chain, to, k),
         NEW x, NEW b, b = <<"message", x>>
  PROVE  /\ k > 0 => ChainOnData(chain, Packed(from, b)) = <<"dropped">>
         /\ k = 0 /\ from = to => ChainOnData(chain, Packed(from, b)) = <<"delivered", b>>
         /\ k = 0 /\ from = SimpleFrame /\ to = ArchivedFrame =>
              ChainOnData(chain, Packed(from, b)) = <<"closes">>
         /\ k = 0 /\ from = ArchivedFrame /\ to = SimpleFrame =>
              ChainOnData(chain, Packed(from, b)) = <<"delivered", Compress(b)>>
<1>1. chain.marked <=> k > 0
  BY ClientsOf
<1>2. CASE k > 0
  BY <1>1, <1>2 DEF ChainOnData
<1>3. CASE k = 0
  <2>1. \A y : ChainOnData(chain, y) = HolderOnData(chain, 1, y)
    BY <1>1, <1>3 DEF ChainOnData
  <2>2. b # Empty /\ <<"zip", b>> # Empty /\ SimpleFrame # ArchivedFrame
    BY ProtocolTypes DEF Empty
  <2>3. Decompress(b) = Empty /\ Decompress(<<"zip", b>>) = b
    BY DEF Decompress
  <2>4. CASE from = SimpleFrame /\ to = SimpleFrame
    <3>1. HolderOnData(chain, 1, <<"frame", b>>) = <<"delivered", b>>
      BY <1>3, <2>2, <2>4, SimpleIn
    <3>2. QED BY <3>1, <1>3, <2>1, <2>2, <2>4 DEF Packed
  <2>5. CASE from = SimpleFrame /\ to = ArchivedFrame
    <3>1. HolderOnData(chain, 1, <<"frame", b>>) = <<"closes">>
      BY <1>3, <2>2, <2>3, <2>5, ArchivedIn
    <3>2. QED BY <3>1, <1>3, <2>1, <2>2, <2>5 DEF Packed
  <2>6. CASE from = ArchivedFrame /\ to = ArchivedFrame
    <3>1. HolderOnData(chain, 1, <<"frame", <<"zip", b>>>>) = <<"delivered", b>>
      BY <1>3, <2>2, <2>3, <2>6, ArchivedIn
    <3>2. QED BY <3>1, <1>3, <2>1, <2>2, <2>6 DEF Packed
  <2>7. CASE from = ArchivedFrame /\ to = SimpleFrame
    <3>1. HolderOnData(chain, 1, <<"frame", <<"zip", b>>>>) = <<"delivered", <<"zip", b>>>>
      BY <1>3, <2>2, <2>7, SimpleIn
    <3>2. QED BY <3>1, <1>3, <2>1, <2>2, <2>7 DEF Packed, Compress
  <2>8. QED BY <2>4, <2>5, <2>6, <2>7 DEF Protocols
<1>4. QED BY <1>2, <1>3

(* PSClient with its arguments, in a chain that was closed k times. *)
IsPSClient(c, k) ==
  /\ c.closed = (IF k < 3 THEN 0 ELSE k - 2)
  /\ c.args = "timeout and factory"

(* NewClient gave PSClient the arguments of its creator.                    *)
LEMMA ClientIs ==
  ASSUME NEW types \in Protocols, NEW chain, NEW k \in Nat, Made(chain, types, k)
  PROVE  IsPSClient(chain.clients[ItemOf(types)], k)
<1>1. PICK x \in 1..Len(types) : x = ItemOf(types) /\ types[x] = "PSClient"
  BY ItemIs
<1>2. MadeClient(chain.clients[x], "PSClient", k)
  BY <1>1 DEF Made
<1>3. NewClient("PSClient", ClientCreators).args = "timeout and factory"
  <2>1. DOMAIN ClientCreators = 1..2
    BY DEF ClientCreators
  <2>2. PICK p : p = [type |-> "ParallelHandler", args |-> "workers"]
    OBVIOUS
  <2>3. PICK q : q = [type |-> "PSClient", args |-> "timeout and factory"]
    OBVIOUS
  <2>4. p.type = "ParallelHandler" /\ q.type = "PSClient" /\ q.args = "timeout and factory"
    BY <2>2, <2>3
  <2>5. ClientCreators[1] = p /\ ClientCreators[2] = q
    BY <2>2, <2>3 DEF ClientCreators
  <2>6. 2 \in 1..2 /\ \A i \in 1..2 : i = 1 \/ i = 2
    OBVIOUS
  <2>7. "ParallelHandler" # "PSClient"
    OBVIOUS
  <2>8. \A i \in 1..2 : ClientCreators[i].type = "PSClient" <=> i = 2
    BY <2>4, <2>5, <2>6, <2>7, Zenon
  <2>9. {i \in DOMAIN ClientCreators : ClientCreators[i].type = "PSClient"} = {2}
    BY <2>1, <2>6, <2>8, Zenon
  <2>10. Min({2}) = 2
    BY MinIs
  <2>11. QED BY <2>4, <2>5, <2>9, <2>10 DEF NewClient
<1>4. QED BY <1>1, <1>2, <1>3 DEF MadeClient, IsPSClient

(* What ChainCarries says of a transfer: PSClient c of the sender, what it    *)
(* posted and what came of it.                                               *)
Carries(c, out, in, from, to, m, n, b) ==
  LET open == m = 0 /\ n = 0 /\ b # Empty
  IN  /\ open /\ from = to => in = <<"delivered", b>>
      /\ open /\ from = SimpleFrame /\ to = ArchivedFrame => in = <<"closes">>
      /\ open /\ from = ArchivedFrame /\ to = SimpleFrame => in = <<"delivered", Compress(b)>>
      /\ ~open => in[1] # "delivered"
      /\ m > 0 \/ b = Empty => out[1] # "posted"
      /\ IsPSClient(c, m)

(* A transfer between chains that were closed any number of times.          *)
LEMMA Carried ==
  ASSUME NEW from \in Protocols, NEW to \in Protocols, NEW m \in Nat, NEW n \in Nat,
         NEW b \in {Empty} \cup {<<"message", x>> : x \in Contents},
         NEW s, Made(s, from, m), NEW r, Made(r, to, n)
  PROVE  \E c, out, in : /\ Transfer(s, r, b) = [client |-> c, out |-> out, in |-> in]
                         /\ Carries(c, out, in, from, to, m, n, b)
<1>1. PICK x : x = ItemOf(from)
  OBVIOUS
<1>2. GetClientItem(s, "PSClient") = x
  BY <1>1, ItemIs
<1>3. PICK out : out = ClientPost(s, x, b)
  OBVIOUS
<1>4. PICK in : in = IF out[1] = "posted" THEN ChainOnData(r, out[2]) ELSE out
  OBVIOUS
<1>5. PICK c : c = s.clients[x] /\ IsPSClient(c, m)
  BY <1>1, ClientIs
<1>6. Transfer(s, r, b) = [client |-> c, out |-> out, in |-> in]
  BY <1>2, <1>3, <1>4, <1>5 DEF Transfer
<1>9. CASE m > 0 \/ b = Empty
  <2>1. out = <<"dropped">> \/ out = <<"throws">>
    BY <1>1, <1>3, <1>9, PostIs
  <2>2. out[1] # "posted" /\ out[1] # "delivered"
    BY <2>1
  <2>3. in = out
    BY <1>4, <2>2
  <2>4. Carries(c, out, in, from, to, m, n, b)
    BY <1>5, <1>9, <2>2, <2>3 DEF Carries
  <2>5. QED BY <1>6, <2>4
<1>10. CASE m = 0 /\ b # Empty
  <2>1. out = <<"posted", Packed(from, b)>>
    BY <1>1, <1>3, <1>10, PostIs
  <2>2. in = ChainOnData(r, Packed(from, b))
    BY <1>4, <2>1
  <2>3. PICK y \in Contents : b = <<"message", y>>
    BY <1>10
  <2>4. /\ n > 0 => in = <<"dropped">>
        /\ n = 0 /\ from = to => in = <<"delivered", b>>
        /\ n = 0 /\ from = SimpleFrame /\ to = ArchivedFrame => in = <<"closes">>
        /\ n = 0 /\ from = ArchivedFrame /\ to = SimpleFrame => in = <<"delivered", Compress(b)>>
    BY <2>2, <2>3, ReceiveIs
  <2>5. n > 0 => in[1] # "delivered"
    BY <2>4
  <2>6. Carries(c, out, in, from, to, m, n, b)
    BY <1>5, <1>10, <2>4, <2>5 DEF Carries
  <2>7. QED BY <1>6, <2>6
<1>11. QED BY <1>9, <1>10

(* ClientsChain, Client::OnClose and the filters, for any messages and any number *)
(* of calls of OnClose at both ends: PSClient of one end gets what PSClient of the *)
(* other posted, a chain that was closed once lets nothing through, and PSClient *)
(* is told with the third OnClose and not before.  ChainSpec leaves the other *)
(* conversions of the library open.                                         *)
THEOREM ChainCarriesMessages == ChainSpec => []ChainCarries
<1>1. ASSUME job = Idle PROVE ChainCarries
  <2>1. job.kind = "idle"
    BY <1>1 DEF Idle
  <2>2. QED BY <2>1 DEF ChainCarries
<1>2. ASSUME SendThroughChain PROVE ChainCarries'
  <2>1. PICK from \in Protocols, to \in Protocols, m \in 0..MaxCloses, n \in 0..MaxCloses,
             b \in {Empty} \cup {<<"message", x>> : x \in Contents} :
          Convert([kind |-> "chain", from |-> from, to |-> to, closes |-> <<m, n>>, buffer |-> b],
                  Transfer(Closing(CreateChain(from, ClientCreators), m),
                           Closing(CreateChain(to, ClientCreators), n), b))
    BY <1>2 DEF SendThroughChain, Protocols
  <2>2. PICK s : s = Closing(CreateChain(from, ClientCreators), m)
    OBVIOUS
  <2>3. PICK r : r = Closing(CreateChain(to, ClientCreators), n)
    OBVIOUS
  <2>4. m \in Nat /\ n \in Nat
    BY ChainTransferAssumption
  <2>5. Made(s, from, m) /\ Made(r, to, n)
    BY <2>2, <2>3, <2>4, ClosedTimes
  <2>6. PICK c, out, in : /\ Transfer(s, r, b) = [client |-> c, out |-> out, in |-> in]
                          /\ Carries(c, out, in, from, to, m, n, b)
    BY <2>4, <2>5, Carried
  <2>7. /\ job' = [kind |-> "chain", from |-> from, to |-> to, closes |-> <<m, n>>, buffer |-> b]
        /\ result' = [client |-> c, out |-> out, in |-> in]
    BY <2>1, <2>2, <2>3, <2>6 DEF Convert
  <2>8. /\ job'.from = from /\ job'.to = to /\ job'.buffer = b
        /\ job'.closes = <<m, n>> /\ job'.closes[1] = m
    BY <2>7
  <2>9. job'.closes = <<0, 0>> <=> m = 0 /\ n = 0
    BY <2>8
  <2>10. result'.client = c /\ result'.out = out /\ result'.in = in
    BY <2>7
  <2>11. QED BY <2>6, <2>8, <2>9, <2>10 DEF ChainCarries, Carries, IsPSClient
<1>3. ASSUME OtherJob PROVE ChainCarries'
  BY <1>3 DEF OtherJob, ChainCarries
<1>4. ASSUME ChainCarries, UNCHANGED <<job, result>> PROVE ChainCarries'
  BY <1>4 DEF ChainCarries
<1>5. QED BY <1>1, <1>2, <1>3, <1>4, PTL DEF ChainSpec
=============================================================================
