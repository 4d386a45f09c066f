----------------------------- MODULE Application ----------------------------
(***************************************************************************)
(* The life of a network application: Application::Run reads the command   *)
(* line and the configuration, opens the log and runs OnStart, the wait    *)
(* for a signal and OnStop, in this process (on a thread that Run joins)   *)
(* or as a daemon.  One thread at a time is active, so one program counter *)
(* is enough; signals come at any time.                                    *)
(*                                                                         *)
(* The steps of the user's Init and Done, and of the server that OnInit    *)
(* makes, may throw.  What the server does is for the modules above.       *)
(***************************************************************************)
EXTENDS Config

CONSTANTS
    \* A command line: is it well formed, does it ask for help or the version, the
    \* options given (as sequences of at most one value), the configuration file
    \* <<[format, file]>> with file <<>> if there is none, whether something was
    \* logged before Run, and the class of the application.
    CommandLines,  \* what the program may be started with
    MaxLevel,      \* Log::Level::Trace
    MaxSignals     \* bound: signals sent to the process

ASSUME ApplicationAssumption == MaxLevel \in Nat /\ MaxSignals \in Nat

VARIABLES
    at,         \* where the program is
    opts,       \* the command line; the rest of the program never changes it
    settings,   \* m_runAsDaemon, m_logDirName, m_logPattern, m_logLevel, m_config
    log,        \* the logger: none, console or file, with what it was opened with
    installed,  \* the handler of SIGINT is set
    wake,       \* the waiting thread has been notified
    signals,    \* signals sent
    served,     \* the server object: none, up or stopped
    services    \* the root locator holds services

appVars == <<at, opts, settings, log, installed, wake, signals, served, services>>

NoLog == [sink |-> "none", dir |-> "", pattern |-> "", level |-> 0]
Console(level) == [NoLog EXCEPT !.sink = "console", !.level = level]
FileLog(dir, pattern, level) == [sink |-> "file", dir |-> dir, pattern |-> pattern, level |-> level]

AppInit ==
    /\ opts \in CommandLines
    /\ at = "run"
    /\ settings = [daemon |-> FALSE, dir |-> "", pattern |-> "", level |-> MaxLevel, data |-> Null,
                   path |-> FALSE, levelGiven |-> FALSE]
    /\ log = IF opts.logged THEN Console(MaxLevel) ELSE NoLog
    /\ installed = FALSE
    /\ wake = FALSE
    /\ signals = 0
    /\ served = "none"
    /\ services = FALSE

\* MIF_LOG opens a console log if there is no log yet.
Logged(l) == IF l.sink = "none" THEN Console(MaxLevel) ELSE l

Given(option) == option # <<>>

-----------------------------------------------------------------------------
(* The configuration, in either format. *)

Exists(c, name) ==
    IF c.format = "json" THEN JsonExists(c.tree, <<name>>) ELSE XmlExists(c.tree, <<name>>)

GetValue(c, path) ==
    IF c.format = "json" THEN JsonGetValue(c.tree, path) ELSE XmlGetValue(c.tree, path)

\* A pointer to the group at a path, or Fails.
GetConfig(c, path) ==
    LET group == IF c.format = "json" THEN JsonGetConfig(c.tree, path) ELSE XmlGetConfig(c.tree, path)
    IN  IF group \in {Fails, <<Null>>} THEN group
        ELSE <<(<<[c EXCEPT !.tree = group[1][1]]>>)>>

LoadConfig(option) ==
    CASE option.file = <<>> -> Fails
      [] option.format = "json" -> <<[format |-> "json", tree |-> option.file[1]]>>
      [] option.format = "xml" -> <<[format |-> "xml", tree |-> XmlRoot(option.file[1])]>>
      [] OTHER -> Fails

\* Mutant of FromConfig: the option is not looked at.
FromConfigAlways(c, option, name) ==
    IF ~Exists(c, name) THEN Null ELSE GetValue(c, <<name>>)

\* The value of name in a group if it is there and the option is not given.
FromConfig(c, option, name) ==
    IF Given(option) \/ ~Exists(c, name) THEN Null ELSE GetValue(c, <<name>>)

\* What Run takes from the groups "data" and "common" of the configuration
\* ("common" and "log", where they are given, are groups).
Configured(s, o, c) ==
    LET withData == IF Exists(c, "data") THEN [s EXCEPT !.data = GetConfig(c, <<"data">>)[1]] ELSE s
        common == GetConfig(c, <<"common">>)[1][1]
        daemon == FromConfig(common, IF o.daemon THEN <<TRUE>> ELSE <<>>, "daemon")
        withDaemon == IF daemon = Null THEN withData
                      ELSE [withData EXCEPT !.daemon = ReadBool(daemon[1])]
        group == GetConfig(common, <<"log">>)[1][1]
        dir == FromConfig(group, o.dir, "dir")
        pattern == FromConfig(group, o.pattern, "pattern")
        level == FromConfig(group, o.level, "level")
    IN  IF ~Exists(c, "common") THEN withData
        ELSE IF ~Exists(common, "log") THEN withDaemon
        ELSE [withDaemon EXCEPT
                !.dir = IF dir = Null THEN @ ELSE "config",
                !.pattern = IF pattern = Null THEN @ ELSE "config",
                !.path = dir # Null \/ pattern # Null,
                !.level = IF level = Null THEN @ ELSE ReadUnsigned(level[1]),
                !.levelGiven = level # Null]

-----------------------------------------------------------------------------
(* Application::Run. *)

ParseCommandLine ==
    /\ at = "run"
    /\ at' = IF ~opts.valid \/ opts.show THEN "returned" ELSE "config"
    /\ log' = IF ~opts.valid THEN Logged(log) ELSE log
    /\ settings' = [settings EXCEPT !.dir = IF Given(opts.dir) THEN "option" ELSE "",
                                    !.pattern = IF Given(opts.pattern) THEN "option" ELSE "",
                                    !.level = IF Given(opts.level) THEN opts.level[1] ELSE @]
    /\ UNCHANGED <<opts, installed, wake, signals, served, services>>

ReadConfiguration ==
    /\ at = "config"
    /\ IF ~Given(opts.config)
       THEN at' = "log" /\ UNCHANGED <<settings, log>>
       ELSE LET c == LoadConfig(opts.config[1])
            IN  IF c = Fails
                THEN at' = "returned" /\ log' = Logged(log) /\ UNCHANGED settings
                ELSE at' = "log" /\ settings' = Configured(settings, opts, c[1]) /\ UNCHANGED log
    /\ UNCHANGED <<opts, installed, wake, signals, served, services>>

\* InitLog: options and settings decide whether there is a file, and a file
\* log takes directory, pattern and level from the options or the defaults.
InitLog ==
    /\ at = "log"
    /\ LET level == Given(opts.level) \/ settings.levelGiven
           path == Given(opts.dir) \/ Given(opts.pattern) \/ settings.path
           file == FileLog(IF Given(opts.dir) THEN settings.dir ELSE "program",
                           IF Given(opts.pattern) THEN settings.pattern ELSE "program",
                           IF Given(opts.level) THEN settings.level ELSE MaxLevel)
           Fail == at' = "returned" /\ log' = Logged(log)
           Open(l) == IF log.sink = "none" THEN at' = "start" /\ log' = l ELSE Fail
       IN  IF level /\ settings.level > MaxLevel THEN Fail
           ELSE IF path THEN Open(file) \/ Fail
           ELSE IF level THEN Open(Console(settings.level))
           ELSE at' = "start" /\ UNCHANGED log
    /\ UNCHANGED <<opts, settings, installed, wake, signals, served, services>>

-----------------------------------------------------------------------------
(* Start, RunInThisProcess and Daemon. *)

AsDaemon == settings.daemon \/ opts.daemon

\* Where an exception out of OnStart leads: Start clears the locator and Run
\* returns; a daemon leaves the process at once.
OnStartFailed == at' = (IF AsDaemon THEN "exited" ELSE "failed") /\ log' = Logged(log)

Start ==
    /\ at = "start"
    /\ \/ at' = "onstart" /\ UNCHANGED log
       \/ AsDaemon /\ at' = "failed" /\ log' = Logged(log)   \* daemon(0, 0)
    /\ UNCHANGED <<opts, settings, installed, wake, signals, served, services>>

NetworkNames == {"host", "port", "workers", "timeout"}

\* NetBaseApplication::OnStart: the network parameters come from the group
\* "server" of the configuration, which then has to have all of them.
OnStart ==
    /\ at = "onstart"
    /\ LET data == settings.data
           server == GetConfig(data[1], <<"server">>)[1][1]
       IN  IF data # Null /\ Exists(data[1], "server")
                /\ \E name \in NetworkNames : GetValue(server, <<name>>) = Fails
           THEN OnStartFailed
           ELSE at' = "init" /\ log' = Logged(log)
    /\ UNCHANGED <<opts, settings, installed, wake, signals, served, services>>

\* HttpServer::OnInit asks for the group "server.http" whether it is there or
\* not; then the user's Init puts services into the locator, or throws.
OnInit ==
    /\ at = "init"
    /\ IF opts.class = "http" /\ settings.data # Null
            /\ GetConfig(settings.data[1], <<"server", "http">>) = Fails
       THEN OnStartFailed /\ UNCHANGED services
       ELSE \/ at' = "listen" /\ services' = TRUE /\ UNCHANGED log
            \/ OnStartFailed /\ services' \in BOOLEAN
    /\ UNCHANGED <<opts, settings, installed, wake, signals, served>>

\* The server is made, or throws (the port is taken).
Listen ==
    /\ at = "listen"
    /\ at' = "install"
    /\ served' = "up"
    /\ UNCHANGED <<opts, settings, log, installed, wake, signals, services>>

ListenFails ==
    /\ at = "listen"
    /\ OnStartFailed
    /\ UNCHANGED <<opts, settings, installed, wake, signals, served, services>>

\* "Press 'Ctrl+C' for quit.", then the constructor of WaitCtrlC; in a daemon
\* signal comes before the condition variable.
InstallHandler ==
    /\ at = "install"
    /\ installed' = TRUE
    /\ at' = "lock"
    /\ UNCHANGED <<opts, settings, log, wake, signals, served, services>>

Wait ==
    /\ at = "lock"
    /\ at' = "waiting"
    /\ UNCHANGED <<opts, settings, log, installed, wake, signals, served, services>>

\* ShutdownSignal notifies; who is not waiting does not hear it.  Without the
\* handler the signal ends the process.
Signal ==
    /\ signals < MaxSignals
    /\ at \notin {"exited", "killed"}
    /\ signals' = signals + 1
    /\ IF installed
       THEN wake' = (wake \/ at = "waiting") /\ UNCHANGED at
       ELSE at' = "killed" /\ UNCHANGED wake
    /\ UNCHANGED <<opts, settings, log, installed, served, services>>

\* The wait has no predicate: it also returns for no reason.
Wake ==
    /\ at = "waiting" /\ wake
    /\ at' = "stop"
    /\ UNCHANGED <<opts, settings, log, installed, wake, signals, served, services>>

SpuriousWake ==
    /\ at = "waiting" /\ ~wake
    /\ at' = "stop"
    /\ UNCHANGED <<opts, settings, log, installed, wake, signals, served, services>>

\* Mutant of StopServer: OnDone calls Done first.
DoneFirst ==
    /\ at = "stop"
    /\ at' = "done"
    /\ UNCHANGED <<opts, settings, log, installed, wake, signals, served, services>>

\* OnStop, OnDone: m_server.reset() returns when its threads have ended.
StopServer ==
    /\ at = "stop"
    /\ served' = "stopped"
    /\ at' = "done"
    /\ UNCHANGED <<opts, settings, log, installed, wake, signals, services>>

\* The user's Done, whose exceptions are logged; a daemon does not clear the
\* locator here.
Done ==
    /\ at = "done"
    /\ services' = IF AsDaemon THEN services ELSE FALSE
    /\ at' = "returned"
    /\ UNCHANGED <<opts, settings, log, installed, wake, signals, served>>

\* The catch of Start.
Failed ==
    /\ at = "failed"
    /\ services' = FALSE
    /\ at' = "returned"
    /\ UNCHANGED <<opts, settings, log, installed, wake, signals, served>>

\* Mutant of Destroy: the locator is not cleared.
DestroyOnly ==
    /\ at = "returned"
    /\ at' = "exited"
    /\ UNCHANGED <<opts, settings, log, installed, wake, signals, served, services>>

\* Run has returned: the application object is destroyed.
Destroy ==
    /\ at = "returned"
    /\ services' = FALSE
    /\ at' = "exited"
    /\ UNCHANGED <<opts, settings, log, installed, wake, signals, served>>

\* The steps that leave the server alone.
AppStep ==
    \/ ParseCommandLine \/ ReadConfiguration \/ InitLog \/ Start \/ OnStart \/ OnInit
    \/ ListenFails \/ InstallHandler \/ Wait \/ Wake \/ SpuriousWake \/ Done \/ Failed \/ Destroy

\* The steps that a program which has been woken or has failed goes on with.
Ending == Wake \/ Done \/ Failed \/ Destroy
=============================================================================
