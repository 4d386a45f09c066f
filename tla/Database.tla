------------------------------ MODULE Database ------------------------------
(***************************************************************************)
(* Mif::Db: handlers on several threads take a PostgreSQL connection from  *)
(* the connection pool (Service::Detail::PerThreadPool, one connection per *)
(* std::thread::id), open a Transaction on it, run statements, read their  *)
(* recordsets and commit, the way the handlers of examples/http_crud do.   *)
(* Any call may throw; the handler may catch that or let it unwind the     *)
(* stack, which runs ~Transaction.  Of a handler's Transaction objects all *)
(* but one are moved from, beside the temporary of an assignment; it may   *)
(* assign a new one, an empty one or itself to the one it has, which drops *)
(* that one without a rollback, and it may ask the pool for its connection *)
(* again.  The server and libpq are external: what a session answers is    *)
(* modelled from the calls the code makes.                                 *)
(***************************************************************************)
EXTENDS Naturals, Integers, FiniteSets

CONSTANTS
    Threads,    \* thread ids; an id outlives its thread and is reused
    Conns,      \* Connection objects, reused once released
    Writes,     \* the statements' effects, each made at most once
    Plain,      \* threads whose handlers do what http_crud's handlers do: one
                \* connection, one Transaction, no catch
    MaxRows,    \* bound: rows of a recordset
    None        \* a null pointer

ASSUME DatabaseAssumption ==
    None \notin Conns /\ MaxRows \in Nat /\ Plain \subseteq Threads

VARIABLES
    services,   \* PerThreadPool::m_services
    conn,       \* the session behind each Connection
    pc,         \* where the thread is
    hold,       \* the thread's IConnectionPtr
    tr,         \* tr[t][i]: the thread's Transaction objects
    mine,       \* history: writes made inside the thread's transaction
    caught,     \* history: the handler, or IsGood for it, caught an error
    rs,         \* the thread's open Recordset
    spent,      \* history: writes made
    durable,    \* writes the server has committed
    loose       \* history: writes made under a Transaction that was assigned to
                \* while it was open, or after that in its server transaction
                \* and outside of any Transaction

vars == <<services, conn, pc, hold, tr, mine, caught, rs, spent, durable, loose>>

Slots == 1..2

-----------------------------------------------------------------------------
(* The server's session, as libpq reports it (external). *)

\* left is history: the Transaction that began the server's transaction was
\* assigned to, and nothing has ended that transaction since.
NoSession == [link |-> "none", txn |-> "idle", writes |-> {}, left |-> FALSE]

NewSession == [NoSession EXCEPT !.link = "up"]

Reply(status, k, saved) == [status |-> status, conn |-> k, saved |-> saved]

Ended(k) == [k EXCEPT !.txn = "idle", !.writes = {}, !.left = FALSE]

Broken(k) == [Ended(k) EXCEPT !.link = "lost"]

Refused(k) == Reply("FATAL_ERROR", k, {})

\* PQexec.  BEGIN inside a transaction is only a warning; COMMIT may be refused
\* by a deferred constraint, may be done although the answer is lost, and in an
\* aborted transaction is a successful command that rolls back.
CommandReplies(k, query) ==
    IF k.link # "up" THEN {Refused(k)}
    ELSE CASE query = "BEGIN" ->
                {IF k.txn = "aborted" THEN Refused(k)
                 ELSE Reply("COMMAND_OK", [k EXCEPT !.txn = "open"], {})}
           [] query = "ROLLBACK" -> {Reply("COMMAND_OK", Ended(k), {})}
           [] query = "COMMIT" ->
                IF k.txn = "open"
                THEN {Reply("COMMAND_OK", Ended(k), k.writes), Refused(Ended(k)),
                      Reply("FATAL_ERROR", Broken(k), k.writes)}
                ELSE {Reply("COMMAND_OK", Ended(k), {})}

\* PQprepare and PQexecPrepared of a statement with the effect w: an error
\* aborts an open transaction; outside of one the effect is durable at once.
StatementReplies(k, status, w) ==
    IF k.link # "up" \/ k.txn = "aborted" THEN {Refused(k)}
    ELSE IF k.txn = "open"
         THEN {Reply(status, [k EXCEPT !.writes = @ \cup w], {}),
               Refused([k EXCEPT !.txn = "aborted", !.writes = {}])}
         ELSE {Reply(status, k, w), Refused(k)}

-----------------------------------------------------------------------------
(* The calls of Connection, Statement and Recordset: they return or throw. *)

Result(ok, r) == [ok |-> ok, conn |-> r.conn, saved |-> r.saved]

ExecuteDirect(k, query) ==
    {Result(r.status = "COMMAND_OK", r) : r \in CommandReplies(k, query)}

CreateStatement(k) ==
    {Result(r.status = "COMMAND_OK", r) : r \in StatementReplies(k, "COMMAND_OK", {})}

\* Mutant of OpenRecordset: the status is not looked at.
OpenRecordsetUnchecked(k, w) ==
    {Result(TRUE, r) : r \in StatementReplies(k, "TUPLES_OK", w)}

OpenRecordset(k, w) ==
    {Result(r.status \in {"COMMAND_OK", "TUPLES_OK"}, r) :
        r \in StatementReplies(k, "TUPLES_OK", w)}

\* connection->CreateStatement(query)->Execute(parameters)
RunStatement(k, w) ==
    UNION {IF r.ok THEN OpenRecordset(r.conn, w) ELSE {r} : r \in CreateStatement(k)}

-----------------------------------------------------------------------------
(* Recordset. *)

NoRecordset == [rows |-> 0, currentRow |-> -1, hasNext |-> FALSE]

Opened(n) == [rows |-> n, currentRow |-> -1, hasNext |-> TRUE]

\* Mutant of Read: the test skips the last row.
ReadSkipsLast(r) ==
    IF ~r.hasNext THEN r
    ELSE IF r.rows <= r.currentRow + 2 THEN [r EXCEPT !.hasNext = FALSE]
    ELSE [r EXCEPT !.currentRow = @ + 1]

\* Recordset::Read; it returned true iff currentRow moved.
Read(r) ==
    IF ~r.hasNext THEN r
    ELSE IF r.rows <= r.currentRow + 1 THEN [r EXCEPT !.hasNext = FALSE]
    ELSE [r EXCEPT !.currentRow = @ + 1]

\* What a column of the current row holds: a number that fits 32 bits or only
\* 64, a number followed by other text, text, or NULL.
Cells == {"int32", "int64", "prefix", "text", "null"}

\* PQgetisnull answers true for a row outside the result.
IsNull(r, cell) == r.currentRow \notin 0..(r.rows - 1) \/ cell = "null"

\* GetAsString, GetAsInt32, GetAsInt64 and GetAsDouble: does the call return a
\* value?  std::stoi and its kin stop at the first character they cannot use.
Gets(r, cell, type) ==
    /\ ~IsNull(r, cell)
    /\ \/ type = "string"
       \/ type = "int32" /\ cell \in {"int32", "prefix"}
       \/ type \in {"int64", "double"} /\ cell \in {"int32", "int64", "prefix"}

-----------------------------------------------------------------------------
(* Connection objects live while something points at them. *)

Held(s, h, x) ==
    {s[t] : t \in Threads} \cup {h[t] : t \in Threads}
        \cup {x[t][i].conn : t \in Threads, i \in Slots}

\* The last pointer to a Connection runs PQfinish; the server drops the rest.
Released(k, s, h, x) ==
    [c \in Conns |-> IF c \in Held(s, h, x) THEN k[c] ELSE NoSession]

NoTr == [conn |-> None, state |-> "Unknown"]

NoTrs == [i \in Slots |-> NoTr]

Init ==
    /\ services = [t \in Threads |-> None]
    /\ conn = [c \in Conns |-> NoSession]
    /\ pc = [t \in Threads |-> "idle"]
    /\ hold = [t \in Threads |-> None]
    /\ tr = [t \in Threads |-> NoTrs]
    /\ mine = [t \in Threads |-> {}]
    /\ caught = [t \in Threads |-> FALSE]
    /\ rs = [t \in Threads |-> NoRecordset]
    /\ spent = {}
    /\ durable = {}
    /\ loose = {}

Goto(t, where) == pc' = [pc EXCEPT ![t] = where]

HasTransaction(t) == tr[t] # NoTrs

\* An exception: the stack unwinds, or a handler's catch lets it go on.
Throw(t) ==
    \/ Goto(t, "unwind") /\ UNCHANGED caught
    \/ t \notin Plain /\ Goto(t, "work") /\ caught' = [caught EXCEPT ![t] = @ \/ HasTransaction(t)]

-----------------------------------------------------------------------------
(* PerThreadPool::GetService, through ConnectionPool::GetConnection. *)

\* A handler starts, or asks for its connection again.
GetConnection(t) ==
    /\ pc[t] = "idle" \/ (pc[t] = "work" /\ t \notin Plain)
    /\ Goto(t, "find")
    /\ UNCHANGED <<services, conn, hold, tr, mine, caught, rs, spent, durable, loose>>

\* Mutant of Find: the table is not keyed by the thread.
FindAny(t) ==
    /\ pc[t] = "find"
    /\ \E u \in Threads :
        /\ services[u] # None \/ services = [v \in Threads |-> None]
        /\ hold' = [hold EXCEPT ![t] = services[u]]
        /\ Goto(t, IF services[u] = None THEN "create" ELSE "check")
    /\ UNCHANGED <<services, conn, tr, mine, caught, rs, spent, durable, loose>>

\* m_services.find under the lock.
Find(t) ==
    /\ pc[t] = "find"
    /\ hold' = [hold EXCEPT ![t] = services[t]]
    /\ Goto(t, IF services[t] = None THEN "create" ELSE "check")
    /\ UNCHANGED <<services, conn, tr, mine, caught, rs, spent, durable, loose>>

\* Connection::IsGood runs "select 1;" outside the lock; its catch hides a
\* failure that aborts a transaction the handler has open on the connection.
IsGood(t) ==
    /\ pc[t] = "check"
    /\ \E r \in RunStatement(conn[hold[t]], {}) :
        /\ conn' = [conn EXCEPT ![hold[t]] = r.conn]
        /\ caught' = [caught EXCEPT ![t] = @ \/ (~r.ok /\ HasTransaction(t))]
        /\ Goto(t, IF r.ok THEN "work" ELSE "erase")
    /\ UNCHANGED <<services, hold, tr, mine, rs, spent, durable, loose>>

\* A bad connection leaves the table; a Transaction may still hold it.
Erase(t) ==
    /\ pc[t] = "erase"
    /\ services' = [services EXCEPT ![t] = None]
    /\ hold' = [hold EXCEPT ![t] = None]
    /\ conn' = Released(conn, services', hold', tr)
    /\ Goto(t, "create")
    /\ UNCHANGED <<tr, mine, caught, rs, spent, durable, loose>>

\* m_factory->Create opens a connection or throws out of GetService.
Create(t) ==
    /\ pc[t] = "create"
    /\ \/ \E c \in {d \in Conns : conn[d].link = "none"} :
            /\ conn' = [conn EXCEPT ![c] = NewSession]
            /\ hold' = [hold EXCEPT ![t] = c]
            /\ Goto(t, "emplace")
       \/ Goto(t, "unwind") /\ UNCHANGED <<conn, hold>>
    /\ UNCHANGED <<services, tr, mine, caught, rs, spent, durable, loose>>

\* m_services.emplace keeps an entry that is already there.
Emplace(t) ==
    /\ pc[t] = "emplace"
    /\ services' = [services EXCEPT ![t] = IF @ = None THEN hold[t] ELSE @]
    /\ Goto(t, "work")
    /\ UNCHANGED <<conn, hold, tr, mine, caught, rs, spent, durable, loose>>

-----------------------------------------------------------------------------
(* Transaction. *)

\* Mutant of After: a command that failed still ends the transaction.
AfterAlways(state, ok, next) == next

\* The state a Transaction has after a command that moves it to next.
After(state, ok, next) == IF ok THEN next ELSE state

NextState == [BEGIN |-> "Begin", COMMIT |-> "Commit", ROLLBACK |-> "Rollback"]

\* Begin, Commit and Rollback of the Transaction object i: a wrong state or a
\* command that fails throws.
Direct(t, i, query) ==
    /\ pc[t] = "work" /\ tr[t][i].conn # None
    /\ IF tr[t][i].state = (IF query = "BEGIN" THEN "Init" ELSE "Begin")
       THEN LET c == tr[t][i].conn
            IN \E r \in ExecuteDirect(conn[c], query) :
                /\ conn' = [conn EXCEPT ![c] = r.conn]
                /\ durable' = durable \cup r.saved
                /\ tr' = [tr EXCEPT ![t][i].state = After(@, r.ok, NextState[query])]
                /\ IF r.ok THEN UNCHANGED <<pc, caught>> ELSE Throw(t)
       ELSE Throw(t) /\ UNCHANGED <<conn, durable, tr>>
    /\ UNCHANGED <<services, hold, mine, rs, spent, loose>>

Begin(t, i) == Direct(t, i, "BEGIN")

Commit(t, i) == Direct(t, i, "COMMIT")

Rollback(t, i) == Direct(t, i, "ROLLBACK")

\* What a thread has written under its Transaction and the server still keeps.
Uncommitted(t) ==
    IF \E i \in Slots : tr[t][i].state = "Begin" /\ conn[tr[t][i].conn].txn = "open"
    THEN mine[t] \ durable ELSE {}

\* The sessions after an assignment to the Transaction x: nothing is sent.
Overwritten(k, x) ==
    IF x.state = "Begin" /\ conn[x.conn].txn # "idle"
    THEN [k EXCEPT ![x.conn].left = TRUE] ELSE k

\* History: the thread has no Transaction object any more.
Forget(t, gone) ==
    /\ mine' = IF gone THEN [mine EXCEPT ![t] = {}] ELSE mine
    /\ caught' = IF gone THEN [caught EXCEPT ![t] = FALSE] ELSE caught

\* Mutant of Constructing: no BEGIN is sent.
ConstructingWithoutBegin(k, open) == {Result(TRUE, Reply("COMMAND_OK", k, {}))}

\* The constructor, which begins at once when open is true.
Constructing(k, open) ==
    IF open THEN ExecuteDirect(k, "BEGIN") ELSE {Result(TRUE, Reply("COMMAND_OK", k, {}))}

\* Transaction object i is made, or, when it is there already, assigned a new
\* one: the temporary is made first, and a throw leaves everything as it was.
Construct(t, i, open) ==
    /\ pc[t] = "work" /\ hold[t] # None
    /\ \A j \in Slots \ {i} : tr[t][j] = NoTr
    /\ i = 1 \/ tr[t][i] # NoTr
    /\ t \in Plain => open /\ tr[t][i] = NoTr
    /\ \E r \in Constructing(conn[hold[t]], open) :
        IF r.ok
        THEN /\ tr' = [tr EXCEPT ![t][i] = [conn |-> hold[t], state |-> IF open THEN "Begin" ELSE "Init"]]
             /\ conn' = Released(Overwritten([conn EXCEPT ![hold[t]] = r.conn], tr[t][i]), services, hold, tr')
             /\ loose' = loose \cup Uncommitted(t)
             /\ Forget(t, TRUE)
             /\ UNCHANGED pc
        ELSE /\ conn' = [conn EXCEPT ![hold[t]] = r.conn]
             /\ Throw(t)
             /\ UNCHANGED <<tr, mine, loose>>
    /\ UNCHANGED <<services, hold, rs, spent, durable>>

\* The move constructor and the move assignment take over connection and state
\* and reset the source; what the target had is dropped as it is.
Moved(trs, i, j) == [trs EXCEPT ![j] = trs[i], ![i] = NoTr]

\* Move of object i to object j, which may hold a Transaction and may be i.
Move(t, i, j) ==
    /\ pc[t] = "work" /\ t \notin Plain
    /\ tr[t][i] # NoTr \/ tr[t][j] # NoTr
    /\ tr' = [tr EXCEPT ![t] = Moved(@, i, j)]
    /\ conn' = Released(Overwritten(conn, tr[t][j]), services, hold, tr')
    /\ loose' = IF tr[t][j] # NoTr THEN loose \cup Uncommitted(t) ELSE loose
    /\ Forget(t, tr'[t] = NoTrs)
    /\ UNCHANGED <<services, pc, hold, rs, spent, durable>>

\* Mutant of Destroy: no rollback.
DestroyQuietly(t, i) ==
    /\ pc[t] \in {"work", "unwind"} /\ tr[t][i] # NoTr
    /\ tr' = [tr EXCEPT ![t][i] = NoTr]
    /\ conn' = Released(conn, services, hold, tr')
    /\ Forget(t, tr'[t] = NoTrs)
    /\ UNCHANGED <<services, pc, hold, rs, spent, durable, loose>>

\* ~Transaction at the end of a scope or while the stack unwinds: an open one
\* is rolled back and an error of that is only logged.
Destroy(t, i) ==
    /\ pc[t] \in {"work", "unwind"} /\ tr[t][i] # NoTr
    /\ tr' = [tr EXCEPT ![t][i] = NoTr]
    /\ IF tr[t][i].state = "Begin"
       THEN LET c == tr[t][i].conn
            IN \E r \in ExecuteDirect(conn[c], "ROLLBACK") :
                conn' = Released([conn EXCEPT ![c] = r.conn], services, hold, tr')
       ELSE conn' = Released(conn, services, hold, tr')
    /\ Forget(t, tr'[t] = NoTrs)
    /\ UNCHANGED <<services, pc, hold, rs, spent, durable, loose>>

-----------------------------------------------------------------------------
(* Statements. *)

InTransaction(t) ==
    \E i \in Slots : tr[t][i].state = "Begin" /\ tr[t][i].conn = hold[t]

\* CreateStatement and Execute: PQprepare and PQexecPrepared succeed, or throw.
Execute(t, w) ==
    /\ pc[t] = "work" /\ hold[t] # None
    /\ w \notin spent
    /\ \E r \in RunStatement(conn[hold[t]], {w}) :
        /\ conn' = [conn EXCEPT ![hold[t]] = r.conn]
        /\ durable' = durable \cup r.saved
        /\ spent' = IF r.ok THEN spent \cup {w} ELSE spent
        /\ mine' = IF r.ok /\ InTransaction(t)
                   THEN [mine EXCEPT ![t] = @ \cup {w}] ELSE mine
        /\ loose' = IF r.ok /\ ~InTransaction(t) THEN loose \cup (r.conn.writes \cap {w}) ELSE loose
        /\ IF r.ok
           THEN /\ \E n \in 0..MaxRows :
                    rs' = [rs EXCEPT ![t] = IF t \in Plain THEN NoRecordset ELSE Opened(n)]
                /\ Goto(t, IF t \in Plain THEN "work" ELSE "read")
                /\ UNCHANGED caught
           ELSE Throw(t) /\ UNCHANGED rs
    /\ UNCHANGED <<services, hold, tr>>

\* A Recordset is a complete result in the client: nothing the handler does
\* meanwhile changes it, so it does nothing else while it reads one.

\* Recordset::Read, in the handler's loop.
ReadRow(t) ==
    /\ pc[t] = "read" /\ rs[t].hasNext
    /\ rs' = [rs EXCEPT ![t] = Read(@)]
    /\ UNCHANGED <<services, conn, pc, hold, tr, mine, caught, spent, durable, loose>>

\* A getter throws before the first row, for a NULL and for text that is no
\* number.
GetValue(t) ==
    /\ pc[t] = "read"
    /\ \E cell \in Cells, type \in {"string", "int32", "int64", "double"} :
        ~Gets(rs[t], cell, type)
    /\ rs' = [rs EXCEPT ![t] = NoRecordset]
    /\ Throw(t)
    /\ UNCHANGED <<services, conn, hold, tr, mine, spent, durable, loose>>

\* The handler is done with the Recordset.
CloseRecordset(t) ==
    /\ pc[t] = "read"
    /\ rs' = [rs EXCEPT ![t] = NoRecordset]
    /\ Goto(t, "work")
    /\ UNCHANGED <<services, conn, hold, tr, mine, caught, spent, durable, loose>>

\* The handler returns or has unwound: its locals are gone, then its pointer.
Leave(t) ==
    /\ pc[t] \in {"work", "unwind"} /\ tr[t] = NoTrs
    /\ hold' = [hold EXCEPT ![t] = None]
    /\ conn' = Released(conn, services, hold', tr)
    /\ Goto(t, "idle")
    /\ UNCHANGED <<services, tr, mine, caught, rs, spent, durable, loose>>

\* The link to the server breaks; the server rolls the transaction back.
Break(c) ==
    /\ conn[c].link = "up"
    /\ conn' = [conn EXCEPT ![c] = Broken(@)]
    /\ UNCHANGED <<services, pc, hold, tr, mine, caught, rs, spent, durable, loose>>

Next ==
    \/ \E t \in Threads :
        \/ GetConnection(t) \/ Find(t) \/ IsGood(t) \/ Erase(t) \/ Create(t) \/ Emplace(t)
        \/ \E i \in Slots, open \in BOOLEAN : Construct(t, i, open)
        \/ \E i \in Slots : Begin(t, i) \/ Commit(t, i) \/ Rollback(t, i) \/ Destroy(t, i)
        \/ \E i, j \in Slots : Move(t, i, j)
        \/ \E w \in Writes : Execute(t, w)
        \/ ReadRow(t) \/ GetValue(t) \/ CloseRecordset(t) \/ Leave(t)
    \/ \E c \in Conns : Break(c)

Spec == Init /\ [][Next]_vars

-----------------------------------------------------------------------------
(* Properties. *)

\* Every variable holds a value of its type.
TypeOK ==
    /\ services \in [Threads -> Conns \cup {None}]
    /\ conn \in [Conns -> [link : {"none", "up", "lost"},
                           txn : {"idle", "open", "aborted"}, writes : SUBSET Writes,
                           left : BOOLEAN]]
    /\ pc \in [Threads -> {"idle", "find", "check", "erase", "create", "emplace",
                           "work", "read", "unwind"}]
    /\ hold \in [Threads -> Conns \cup {None}]
    /\ tr \in [Threads -> [Slots -> [conn : Conns \cup {None},
                    state : {"Unknown", "Init", "Begin", "Commit", "Rollback"}]]]
    /\ mine \in [Threads -> SUBSET Writes]
    /\ caught \in [Threads -> BOOLEAN]
    /\ rs \in [Threads -> [rows : 0..MaxRows, currentRow : -1..(MaxRows - 1),
                           hasNext : BOOLEAN]]
    /\ spent \subseteq Writes
    /\ durable \subseteq Writes
    /\ loose \subseteq Writes

Uses(t) ==
    ({services[t], hold[t]} \cup {tr[t][i].conn : i \in Slots}) \ {None}

\* Two threads never use one connection, whatever was erased, recreated or is
\* still held by a Transaction (PerThreadPool is keyed by the thread; libpq
\* forbids concurrent use of a connection), and the state has its types.
OwnConnection ==
    TypeOK /\ \A t, u \in Threads : t # u => Uses(t) \cap Uses(u) = {}

Settled(t, state) ==
    ~caught[t] /\ \E i \in Slots : tr[t][i].state = state

\* Once Transaction::Commit has returned, every write made inside the
\* transaction is durable, and once Rollback has returned none is, provided no
\* error was caught on the way.
OutcomeMeans ==
    \A t \in Threads :
        /\ Settled(t, "Commit") => mine[t] \subseteq durable
        /\ Settled(t, "Rollback") => mine[t] \cap durable = {}

\* A pooled connection that is inside a server transaction belongs to a thread
\* that has an open Transaction object on it: no handler inherits the open
\* transaction of an earlier one, however that one ended, unless a handler
\* assigned to its open Transaction, whose operator = does not roll back.
NothingLeftOpen ==
    \A t \in Threads :
        services[t] # None /\ conn[services[t]].txn # "idle"
            => \/ \E i \in Slots : tr[t][i] = [conn |-> services[t], state |-> "Begin"]
               \/ conn[services[t]].left

\* When Read has answered that there is no further row, the handler has been
\* given every row of the result, and it never stands on a row outside it.
RowsComplete ==
    \A t \in Threads :
        /\ rs[t].currentRow < rs[t].rows
        /\ ~rs[t].hasNext => rs[t].currentRow + 1 = rs[t].rows

Pending == [t \in Threads |-> Uncommitted(t)]

Kept == durable \ loose

Lost == spent \ (Kept \cup loose \cup UNION {Pending[t] : t \in Threads})

Store == INSTANCE TxStore WITH pending <- Pending, durable <- Kept, lost <- Lost

\* The pool, the connections and the Transaction objects implement a store of
\* atomic transactions: writes made under one Transaction become durable in one
\* step or never, and what was rolled back or lost never becomes durable.  The
\* loose writes, of a Transaction that was assigned to while it was open, are
\* the exception: the server commits them with the next COMMIT on the connection.
ImplementsTxStore == Store!Spec
=============================================================================
