--------------------------- MODULE DatabaseProofs ---------------------------
(***************************************************************************)
(* Proofs about Database for every set of threads, connections and writes: *)
(* a connection is used by one thread only, Commit and Rollback mean what  *)
(* they say, no transaction is left open on a pooled connection, a         *)
(* recordset is read to its end, and Database implements TxStore.          *)
(***************************************************************************)
EXTENDS Database, TLAPS

Sessions == [link : {"none", "up", "lost"}, txn : {"idle", "open", "aborted"},
             writes : SUBSET Writes, left : BOOLEAN]

Transactions == [conn : Conns \cup {None},
                 state : {"Unknown", "Init", "Begin", "Commit", "Rollback"}]

Labels == {"idle", "find", "check", "erase", "create", "emplace", "work", "read", "unwind"}

Recordsets == [rows : 0..MaxRows, currentRow : -1..(MaxRows - 1), hasNext : BOOLEAN]

(* A session that is not up has no transaction, and without an open one    *)
(* there is nothing to commit.                                             *)
Sane(k) ==
    /\ k.link # "up" => k.txn = "idle"
    /\ k.txn # "open" => k.writes = {}
    /\ k.txn = "idle" => ~k.left

(* GetService leaves a thread with the connection that is in the table.    *)
Control(t) ==
    /\ pc[t] = "idle" => hold[t] = None /\ tr[t] = NoTrs
    /\ pc[t] \in {"check", "erase", "work", "read"} => hold[t] = services[t] /\ hold[t] # None
    /\ pc[t] = "create" => hold[t] = None /\ services[t] = None
    /\ pc[t] = "emplace" => hold[t] # None /\ services[t] = None

(* A Transaction object has a connection and a state, or was moved from;   *)
(* a thread has one that was not.                                          *)
OneTransaction(t) ==
    /\ \A i \in Slots : tr[t][i] # NoTr => tr[t][i].conn # None /\ tr[t][i].state # "Unknown"
    /\ \A i, j \in Slots : tr[t][i] # NoTr /\ tr[t][j] # NoTr => i = j

(* Whoever points at a Connection points at one that was opened.           *)
Opening(t) == \A c \in Uses(t) : conn[c].link # "none"

(* What the server keeps for an open Transaction is what its thread wrote  *)
(* under it, beside loose writes, and none of that is durable; it stays    *)
(* open until an error is thrown or the link is lost.                      *)
Faithful(t) ==
    \A i \in Slots :
        LET k == conn[tr[t][i].conn]
        IN  /\ tr[t][i].state = "Init" => mine[t] = {}
            /\ tr[t][i].state = "Begin" /\ k.txn = "open"
                    => /\ mine[t] \subseteq k.writes /\ k.writes \subseteq mine[t] \cup loose
                       /\ mine[t] \cap durable = {}
            /\ tr[t][i].state = "Begin" /\ ~caught[t] /\ pc[t] # "unwind" /\ k.link = "up"
                    => k.txn = "open"

Outcome(t) ==
    /\ Settled(t, "Commit") => mine[t] \subseteq durable
    /\ Settled(t, "Rollback") => mine[t] \cap durable = {}

(* What holds of one thread, whatever the others do.                       *)
Local(t) ==
    /\ Control(t)
    /\ OneTransaction(t)
    /\ Opening(t)
    /\ Faithful(t)
    /\ Outcome(t)

Apart == \A t, u \in Threads : t # u => Uses(t) \cap Uses(u) = {}

(* A server transaction, aborted or not, belongs to a Transaction object,  *)
(* or was left by one that was assigned to and keeps loose writes only.    *)
Owned == \A c \in Conns : conn[c].txn # "idle" =>
            \/ \E t \in Threads, i \in Slots : tr[t][i] = [conn |-> c, state |-> "Begin"]
            \/ conn[c].left /\ conn[c].writes \subseteq loose

(* A write is made once, by one thread, and is loose or under its          *)
(* Transaction.                                                            *)
WrittenOnce ==
    /\ \A t \in Threads : mine[t] \subseteq spent
    /\ \A t, u \in Threads : t # u => mine[t] \cap mine[u] = {}
    /\ durable \subseteq spent
    /\ loose \subseteq spent
    /\ \A t \in Threads : mine[t] \cap loose = {}

(* The inductive invariant.  Outcomes depend on what the server keeps for  *)
(* a Transaction, that on no other thread using its connection, and that   *)
(* on GetService making a Connection only of one nobody points at.         *)
IInv ==
    /\ TypeOK
    /\ \A c \in Conns : Sane(conn[c])
    /\ \A t \in Threads : Local(t)
    /\ Apart
    /\ Owned
    /\ WrittenOnce
    /\ RowsComplete

-----------------------------------------------------------------------------
(* What the calls of Connection, Statement and Recordset may answer.       *)

StatementAnswer(k, status, w, r) ==
    \/ /\ r.status = status
       /\ \/ k.txn = "open" /\ r.saved = {} /\ r.conn = [k EXCEPT !.writes = k.writes \cup w]
          \/ k.txn = "idle" /\ r.saved = w /\ r.conn = k
    \/ /\ r.status = "FATAL_ERROR" /\ r.saved = {}
       /\ \/ r.conn = k
          \/ k.txn = "open" /\ r.conn = [k EXCEPT !.txn = "aborted", !.writes = {}]

(* One command to the server about a statement (PQprepare, PQexecPrepared). *)
LEMMA StatementReplyFacts ==
    ASSUME NEW k \in Sessions, Sane(k), NEW w \in SUBSET Writes, NEW status,
           NEW r \in StatementReplies(k, status, w)
    PROVE  StatementAnswer(k, status, w, r)
<1> USE DEF StatementAnswer
<1>1. CASE k.link # "up" \/ k.txn = "aborted"
    BY <1>1 DEF StatementReplies, Refused, Reply
<1>2. CASE ~(k.link # "up" \/ k.txn = "aborted") /\ k.txn = "open"
    BY <1>2 DEF StatementReplies, Refused, Reply, Sessions
<1>3. CASE ~(k.link # "up" \/ k.txn = "aborted") /\ k.txn # "open"
    <2>1. k.txn = "idle"
        BY <1>3 DEF Sessions
    <2>2. QED
        BY <1>3, <2>1 DEF StatementReplies, Refused, Reply
<1>4. QED
    BY <1>1, <1>2, <1>3

(* The result of a call is made of the server's answer.                    *)
LEMMA ResultFacts ==
    ASSUME NEW ok \in BOOLEAN, NEW r
    PROVE  /\ Result(ok, r).ok \in BOOLEAN /\ (Result(ok, r).ok <=> ok)
           /\ Result(ok, r).conn = r.conn
           /\ Result(ok, r).saved = r.saved
BY DEF Result

(* What a statement does to the session: it adds its effect to the open    *)
(* transaction, or makes it durable at once, or fails and may abort the    *)
(* transaction.                                                            *)
LEMMA StatementFacts ==
    ASSUME NEW k \in Sessions, Sane(k), NEW w \in SUBSET Writes, NEW r \in RunStatement(k, w)
    PROVE  /\ r.ok \in BOOLEAN
           /\ r.ok => \/ k.txn = "open" /\ r.saved = {} /\ r.conn = [k EXCEPT !.writes = k.writes \cup w]
                      \/ k.txn = "idle" /\ r.saved = w /\ r.conn = k
           /\ ~r.ok => /\ r.saved = {}
                       /\ \/ r.conn = k
                          \/ k.txn = "open" /\ r.conn = [k EXCEPT !.txn = "aborted", !.writes = {}]
<1>1. PICK p \in CreateStatement(k) : r \in (IF p.ok THEN OpenRecordset(p.conn, w) ELSE {p})
    BY DEF RunStatement
<1>2. PICK q \in StatementReplies(k, "COMMAND_OK", {}) : p = Result(q.status = "COMMAND_OK", q)
    BY <1>1 DEF CreateStatement
<1>3. \/ q.status = "COMMAND_OK" /\ q.conn = k
      \/ /\ q.status = "FATAL_ERROR" /\ q.saved = {}
         /\ \/ q.conn = k
            \/ k.txn = "open" /\ q.conn = [k EXCEPT !.txn = "aborted", !.writes = {}]
    <2>1. k.writes \cup {} = k.writes /\ [k EXCEPT !.writes = k.writes] = k
        BY DEF Sessions
    <2>2. {} \in SUBSET Writes
        OBVIOUS
    <2>3. StatementAnswer(k, "COMMAND_OK", {}, q)
        BY <1>2, <2>2, StatementReplyFacts
    <2>4. QED
        BY <2>1, <2>3 DEF StatementAnswer
<1>4. CASE ~p.ok
    <2>1. p.ok \in BOOLEAN /\ (p.ok <=> q.status = "COMMAND_OK") /\ p.conn = q.conn /\ p.saved = q.saved
        BY <1>2, ResultFacts
    <2>2. r = p
        BY <1>1, <1>4
    <2>3. QED
        BY <1>3, <1>4, <2>1, <2>2
<1>5. CASE p.ok
    <2>1. p.conn = k
        BY <1>2, <1>3, <1>5, ResultFacts
    <2>2. PICK x \in StatementReplies(k, "TUPLES_OK", w) :
              r = Result(x.status \in {"COMMAND_OK", "TUPLES_OK"}, x)
        BY <1>1, <1>5, <2>1 DEF OpenRecordset
    <2>3. /\ r.ok \in BOOLEAN /\ (r.ok <=> x.status \in {"COMMAND_OK", "TUPLES_OK"})
          /\ r.conn = x.conn /\ r.saved = x.saved
        <3>1. (x.status \in {"COMMAND_OK", "TUPLES_OK"}) \in BOOLEAN
            OBVIOUS
        <3>2. QED
            BY <2>2, <3>1, ResultFacts
    <2>4. StatementAnswer(k, "TUPLES_OK", w, x)
        BY <2>2, StatementReplyFacts
    <2>5. QED
        BY <2>3, <2>4 DEF StatementAnswer
<1>6. p.ok \in BOOLEAN
    BY <1>2, ResultFacts
<1>7. QED
    BY <1>4, <1>5, <1>6

(* A session stays sane, and is not made or lost, whatever the statement.  *)
LEMMA StatementSane ==
    ASSUME NEW k \in Sessions, Sane(k), NEW w \in SUBSET Writes, NEW r \in RunStatement(k, w)
    PROVE  r.conn \in Sessions /\ Sane(r.conn) /\ r.conn.link = k.link
<1>1. \/ r.conn = k
      \/ k.txn = "open" /\ r.conn = [k EXCEPT !.writes = k.writes \cup w]
      \/ k.txn = "open" /\ r.conn = [k EXCEPT !.txn = "aborted", !.writes = {}]
    BY StatementFacts
<1>2. QED
    BY <1>1 DEF Sessions, Sane

(* BEGIN, COMMIT and ROLLBACK: what is saved is what was written, and only *)
(* by a COMMIT of an open transaction.                                     *)
LEMMA DirectFacts ==
    ASSUME NEW k \in Sessions, Sane(k), NEW query \in {"BEGIN", "COMMIT", "ROLLBACK"},
           NEW r \in ExecuteDirect(k, query)
    PROVE  /\ r.ok \in BOOLEAN
           /\ r.ok => k.link = "up"
           /\ query = "BEGIN" => /\ r.saved = {}
                                 /\ r.ok => r.conn = [k EXCEPT !.txn = "open"]
                                 /\ ~r.ok => r.conn = k
           /\ query = "ROLLBACK" => r.saved = {} /\ r.conn = Ended(k)
           /\ query = "COMMIT" =>
                /\ r.conn \in {Ended(k), Broken(k)}
                /\ r.saved \in {{}, k.writes}
                /\ r.saved # {} => k.txn = "open"
                /\ r.ok /\ k.txn = "open" => r.saved = k.writes
<1>1. PICK q \in CommandReplies(k, query) : r = Result(q.status = "COMMAND_OK", q)
    BY DEF ExecuteDirect
<1>2. /\ r.ok \in BOOLEAN /\ (r.ok <=> q.status = "COMMAND_OK")
      /\ r.conn = q.conn /\ r.saved = q.saved
    BY <1>1, ResultFacts
<1>3. CASE k.link # "up"
    <2>1. k.txn = "idle" /\ k.writes = {} /\ k.left = FALSE
        BY <1>3 DEF Sane, Sessions
    <2>2. k = Ended(k)
        BY <2>1 DEF Ended, Sessions
    <2>3. q = Refused(k)
        BY <1>1, <1>3 DEF CommandReplies
    <2>4. q.status = "FATAL_ERROR" /\ q.conn = k /\ q.saved = {}
        BY <2>3 DEF Refused, Reply
    <2>5. QED
        BY <1>2, <2>2, <2>4
<1>4. CASE k.link = "up"
    <2>1. CASE query = "BEGIN"
        BY <1>2, <1>4, <2>1 DEF CommandReplies, Refused, Reply
    <2>2. CASE query = "ROLLBACK"
        BY <1>2, <1>4, <2>2 DEF CommandReplies, Reply
    <2>3. CASE query = "COMMIT"
        BY <1>2, <1>4, <2>3 DEF CommandReplies, Refused, Reply
    <2>4. QED
        BY <2>1, <2>2, <2>3
<1>5. QED
    BY <1>3, <1>4

(* The sessions that the calls leave behind.                               *)
LEMMA SaneSessions ==
    ASSUME NEW k \in Sessions, Sane(k)
    PROVE  /\ NoSession \in Sessions /\ Sane(NoSession) /\ NoSession.txn = "idle"
           /\ NewSession \in Sessions /\ Sane(NewSession)
           /\ NewSession.txn = "idle" /\ NewSession.link = "up"
           /\ Ended(k) \in Sessions /\ Sane(Ended(k))
           /\ Ended(k).txn = "idle" /\ Ended(k).link = k.link
           /\ Broken(k) \in Sessions /\ Sane(Broken(k))
           /\ Broken(k).txn = "idle" /\ Broken(k).link = "lost"
           /\ k.link = "up" => /\ [k EXCEPT !.txn = "open"] \in Sessions
                               /\ Sane([k EXCEPT !.txn = "open"])
BY DEF NoSession, NewSession, Ended, Broken, Sessions, Sane

-----------------------------------------------------------------------------
(* What it takes for a step of one thread to keep the invariant.           *)

(* The state of the thread u is not touched.                               *)
Same(u) ==
    /\ services'[u] = services[u] /\ hold'[u] = hold[u] /\ tr'[u] = tr[u]
    /\ pc'[u] = pc[u] /\ mine'[u] = mine[u] /\ caught'[u] = caught[u]

(* A step of the thread t leaves the other threads and their connections   *)
(* alone.                                                                  *)
Others(t) == \A u \in Threads \ {t} : Same(u) /\ \A c \in Uses(u) : conn'[c] = conn[c]

(* Local depends on the thread, its connections and what of its writes is  *)
(* durable.                                                                *)
LEMMA LocalKept ==
    ASSUME TypeOK, NEW u \in Threads, Local(u), Same(u),
           \A c \in Uses(u) : conn'[c] = conn[c],
           durable \subseteq durable', mine[u] \cap durable' \subseteq durable, loose \subseteq loose'
    PROVE  Local(u)' /\ Uses(u)' = Uses(u)
<1> USE DEF Same
<1>1. Uses(u)' = Uses(u)
    BY DEF Uses
<1>2. \A i \in Slots : tr[u][i] # NoTr => tr[u][i].conn \in Uses(u)
    BY DEF Local, OneTransaction, Uses
<1>3. \A i \in Slots : tr[u][i].state \in {"Init", "Begin"} => tr[u][i] # NoTr
    BY DEF NoTr
<1>4. \A i \in Slots : tr[u][i].state \in {"Init", "Begin"}
                        => conn'[tr'[u][i].conn] = conn[tr[u][i].conn]
    BY <1>2, <1>3
<1>5. Control(u)' /\ OneTransaction(u)'
    BY DEF Local, Control, OneTransaction
<1>6. Opening(u)'
    BY <1>1 DEF Local, Opening
<1>7. Faithful(u)'
    BY <1>4 DEF Local, Faithful
<1>8. Outcome(u)'
    <2>1. \A state : Settled(u, state)' <=> Settled(u, state)
        BY DEF Settled
    <2>2. QED
        BY <2>1 DEF Local, Outcome
<1>9. QED
    BY <1>1, <1>5, <1>6, <1>7, <1>8 DEF Local

(* A step of the thread t keeps the invariant if it keeps what is said of  *)
(* t, leaves the other threads, their connections and their writes alone,  *)
(* and accounts for the server transactions it leaves.                     *)
LEMMA ThreadStep ==
    ASSUME IInv, NEW t \in Threads, TypeOK', RowsComplete',
           \A c \in Conns : Sane(conn'[c]),
           Local(t)',
           \A u \in Threads \ {t} : Same(u) /\ \A c \in Uses(u) : conn'[c] = conn[c],
           \A u \in Threads \ {t} : Uses(t)' \cap Uses(u) = {},
           \A c \in Conns : conn'[c].txn # "idle" =>
                \/ \E i \in Slots : tr'[t][i] = [conn |-> c, state |-> "Begin"]
                \/ \E u \in Threads \ {t}, i \in Slots : tr[u][i] = [conn |-> c, state |-> "Begin"]
                \/ conn'[c].left /\ conn'[c].writes \subseteq loose',
           durable \subseteq durable', durable' \subseteq spent', spent \subseteq spent',
           mine'[t] \subseteq spent',
           \A u \in Threads \ {t} : mine'[t] \cap mine[u] = {},
           \A u \in Threads \ {t} : mine[u] \cap durable' \subseteq durable,
           loose \subseteq loose', loose' \subseteq spent',
           \A u \in Threads : mine'[u] \cap loose' = {}
    PROVE  IInv' /\ Others(t)
<1>1. \A u \in Threads \ {t} : Local(u)' /\ Uses(u)' = Uses(u)
    BY LocalKept DEF IInv
<1>2. \A u \in Threads : Local(u)'
    BY <1>1
<1>3. Apart'
    BY <1>1 DEF IInv, Apart
<1>4. Owned'
    <2> SUFFICES ASSUME NEW c \in Conns, conn'[c].txn # "idle"
                 PROVE  \/ \E u \in Threads, i \in Slots : tr'[u][i] = [conn |-> c, state |-> "Begin"]
                        \/ conn'[c].left /\ conn'[c].writes \subseteq loose'
        BY DEF Owned
    <2>1. CASE \E i \in Slots : tr'[t][i] = [conn |-> c, state |-> "Begin"]
        BY <2>1
    <2>2. CASE \E u \in Threads \ {t}, i \in Slots : tr[u][i] = [conn |-> c, state |-> "Begin"]
        <3>1. PICK u \in Threads \ {t}, i \in Slots : tr[u][i] = [conn |-> c, state |-> "Begin"]
            BY <2>2
        <3>2. tr'[u] = tr[u]
            BY DEF Same
        <3>3. QED
            BY <3>1, <3>2
    <2>3. QED
        BY <2>1, <2>2
<1>5. WrittenOnce'
    BY DEF IInv, WrittenOnce, Same
<1>6. (\A c \in Conns : Sane(conn[c]))'
    BY DEF Sane
<1>7. IInv'
    BY <1>2, <1>3, <1>4, <1>5, <1>6 DEF IInv
<1>8. QED
    BY <1>7 DEF Others

-----------------------------------------------------------------------------
(* Types, and the rows of a recordset.                                     *)

(* Releasing connections keeps the sessions of the ones that are held.     *)
LEMMA ReleasedType ==
    ASSUME NEW k \in [Conns -> Sessions], NEW s, NEW h, NEW x
    PROVE  /\ Released(k, s, h, x) \in [Conns -> Sessions]
           /\ \A c \in Conns : Released(k, s, h, x)[c] =
                    IF c \in Held(s, h, x) THEN k[c] ELSE NoSession
BY DEF Released, NoSession, Sessions

(* Reading keeps the row inside the result and ends after its last row.    *)
LEMMA ReadFacts ==
    ASSUME NEW n \in Nat,
           NEW r \in [rows : 0..n, currentRow : -1..(n - 1), hasNext : BOOLEAN],
           r.currentRow < r.rows, ~r.hasNext => r.currentRow + 1 = r.rows
    PROVE  /\ Read(r) \in [rows : 0..n, currentRow : -1..(n - 1), hasNext : BOOLEAN]
           /\ Read(r).currentRow < Read(r).rows
           /\ ~Read(r).hasNext => Read(r).currentRow + 1 = Read(r).rows
<1>1. CASE ~r.hasNext
    BY <1>1 DEF Read
<1>2. CASE r.hasNext /\ r.rows <= r.currentRow + 1
    <2>1. Read(r) = [r EXCEPT !.hasNext = FALSE]
        BY <1>2 DEF Read
    <2>2. /\ Read(r) \in [rows : 0..n, currentRow : -1..(n - 1), hasNext : BOOLEAN]
          /\ Read(r).currentRow = r.currentRow /\ Read(r).rows = r.rows
        BY <2>1
    <2>3. r.currentRow + 1 = r.rows
        BY <1>2
    <2>4. QED
        BY <2>2, <2>3
<1>3. CASE r.hasNext /\ ~(r.rows <= r.currentRow + 1)
    <2>1. Read(r) = [r EXCEPT !.currentRow = r.currentRow + 1]
        BY <1>3 DEF Read
    <2>2. r.currentRow + 1 \in -1..(n - 1)
        BY <1>3
    <2>3. QED
        BY <1>3, <2>1, <2>2
<1>4. QED
    BY <1>1, <1>2, <1>3

(* A recordset that is opened, closed or read is as RowsComplete says.     *)
LEMMA RowsStep ==
    ASSUME TypeOK, RowsComplete, [Next]_vars
    PROVE  /\ rs' \in [Threads -> Recordsets]
           /\ RowsComplete'
<1> USE DatabaseAssumption
<1> DEFINE R == [rows : 0..MaxRows, currentRow : -1..(MaxRows - 1), hasNext : BOOLEAN]
           Good(r) == r.currentRow < r.rows /\ (~r.hasNext => r.currentRow + 1 = r.rows)
<1>1. rs \in [Threads -> R] /\ \A t \in Threads : Good(rs[t])
    BY DEF TypeOK, RowsComplete
<1>2. NoRecordset \in R /\ Good(NoRecordset)
    BY DEF NoRecordset
<1>3. \A n \in 0..MaxRows : Opened(n) \in R /\ Good(Opened(n))
    BY DEF Opened
<1>4. \/ rs' = rs
      \/ \E t \in Threads, r \in R : Good(r) /\ rs' = [rs EXCEPT ![t] = r]
    <2>1. ASSUME NEW t \in Threads, NEW w \in Writes, Execute(t, w)
          PROVE  rs' = rs \/ \E r \in R : Good(r) /\ rs' = [rs EXCEPT ![t] = r]
        <3>1. \/ \E n \in 0..MaxRows :
                    rs' = [rs EXCEPT ![t] = IF t \in Plain THEN NoRecordset ELSE Opened(n)]
              \/ rs' = rs
            BY <2>1 DEF Execute
        <3> HIDE DEF R, Good
        <3>2. QED
            BY <1>2, <1>3, <3>1
    <2>2. ASSUME NEW t \in Threads, ReadRow(t)
          PROVE  \E r \in R : Good(r) /\ rs' = [rs EXCEPT ![t] = r]
        <3>1. Read(rs[t]) \in R /\ Good(Read(rs[t]))
            BY <1>1, ReadFacts
        <3>2. rs' = [rs EXCEPT ![t] = Read(rs[t])]
            BY <2>2 DEF ReadRow
        <3> HIDE DEF R, Good
        <3>3. QED
            BY <3>1, <3>2
    <2>3. ASSUME NEW t \in Threads, GetValue(t) \/ CloseRecordset(t)
          PROVE  \E r \in R : Good(r) /\ rs' = [rs EXCEPT ![t] = r]
        <3> HIDE DEF R, Good
        <3>1. QED
            BY <2>3, <1>2 DEF GetValue, CloseRecordset
    <2> HIDE DEF R, Good
    <2>4. ASSUME NEW t \in Threads,
                 \/ GetConnection(t) \/ Find(t) \/ IsGood(t) \/ Erase(t) \/ Create(t) \/ Emplace(t)
                 \/ Leave(t)
          PROVE  rs' = rs
        BY <2>4 DEF GetConnection, Find, IsGood, Erase, Create, Emplace, Leave
    <2>5. ASSUME NEW t \in Threads, NEW i \in Slots,
                 Begin(t, i) \/ Commit(t, i) \/ Rollback(t, i) \/ Destroy(t, i)
          PROVE  rs' = rs
        BY <2>5 DEF Begin, Commit, Rollback, Direct, Destroy
    <2>6. ASSUME NEW t \in Threads, NEW i \in Slots, NEW open \in BOOLEAN, Construct(t, i, open)
          PROVE  rs' = rs
        BY <2>6 DEF Construct
    <2>7. ASSUME NEW t \in Threads, NEW i \in Slots, NEW j \in Slots, Move(t, i, j)
          PROVE  rs' = rs
        BY <2>7 DEF Move
    <2>8. ASSUME NEW c \in Conns, Break(c)
          PROVE  rs' = rs
        BY <2>8 DEF Break
    <2>9. CASE UNCHANGED vars
        BY <2>9 DEF vars
    <2>10. QED
        BY <2>1, <2>2, <2>3, <2>4, <2>5, <2>6, <2>7, <2>8, <2>9 DEF Next
<1> HIDE DEF R, Good
<1>5. rs' \in [Threads -> R] /\ \A t \in Threads : Good(rs'[t])
    BY <1>1, <1>4
<1>6. QED
    BY <1>5 DEF R, Good, RowsComplete, Recordsets

(* The parts of the type invariant by their names.                         *)
LEMMA TypeParts ==
    TypeOK <=>
        /\ services \in [Threads -> Conns \cup {None}]
        /\ conn \in [Conns -> Sessions]
        /\ pc \in [Threads -> Labels]
        /\ hold \in [Threads -> Conns \cup {None}]
        /\ tr \in [Threads -> [Slots -> Transactions]]
        /\ mine \in [Threads -> SUBSET Writes]
        /\ caught \in [Threads -> BOOLEAN]
        /\ rs \in [Threads -> Recordsets]
        /\ spent \subseteq Writes
        /\ durable \subseteq Writes
        /\ loose \subseteq Writes
BY DEF TypeOK, Sessions, Labels, Transactions, Recordsets

-----------------------------------------------------------------------------
(* Steps that leave connections, transactions and writes alone.            *)

(* Such a step of the thread t keeps the invariant if GetService's part of *)
(* it holds and errors stay noted.                                         *)
LEMMA QuietStep ==
    ASSUME IInv, NEW t \in Threads, TypeOK', RowsComplete',
           UNCHANGED <<conn, tr, mine, spent, durable, loose>>,
           \A u \in Threads \ {t} : Same(u),
           Uses(t)' \subseteq Uses(t), Control(t)',
           caught[t] => caught'[t], pc[t] = "unwind" => pc'[t] = "unwind"
    PROVE  IInv' /\ Others(t)
<1>1. Local(t) /\ TypeOK
    BY DEF IInv
<1>2. OneTransaction(t)' /\ Opening(t)'
    BY <1>1 DEF Local, OneTransaction, Opening
<1>3. Faithful(t)'
    BY <1>1 DEF Local, Faithful
<1>4. Outcome(t)'
    BY <1>1 DEF Local, Outcome, Settled
<1>5. Local(t)'
    BY <1>2, <1>3, <1>4 DEF Local
<1>6. \A c \in Conns : Sane(conn'[c])
    BY DEF IInv
<1>7. \A u \in Threads \ {t} : Uses(t)' \cap Uses(u) = {}
    BY DEF IInv, Apart
<1>8. \A c \in Conns : conn'[c].txn # "idle" =>
        \/ \E i \in Slots : tr'[t][i] = [conn |-> c, state |-> "Begin"]
        \/ \E u \in Threads \ {t}, i \in Slots : tr[u][i] = [conn |-> c, state |-> "Begin"]
        \/ conn'[c].left /\ conn'[c].writes \subseteq loose'
    BY DEF IInv, Owned
<1>9. /\ mine'[t] \subseteq spent' /\ durable' \subseteq spent' /\ loose' \subseteq spent'
      /\ \A u \in Threads \ {t} : mine'[t] \cap mine[u] = {}
      /\ \A u \in Threads : mine'[u] \cap loose' = {}
      /\ durable \subseteq durable' /\ spent \subseteq spent' /\ loose \subseteq loose'
      /\ \A u \in Threads \ {t} : mine[u] \cap durable' \subseteq durable
    BY DEF IInv, WrittenOnce
<1>10. \A u \in Threads \ {t} : Same(u) /\ \A c \in Uses(u) : conn'[c] = conn[c]
    OBVIOUS
<1>11. QED
    BY <1>5, <1>6, <1>7, <1>8, <1>9, <1>10, ThreadStep

(* An exception leads to the unwinding of the stack or to a catch.         *)
LEMMA ThrowFacts ==
    ASSUME TypeOK, NEW t \in Threads, Throw(t)
    PROVE  /\ pc' \in [Threads -> Labels] /\ caught' \in [Threads -> BOOLEAN]
           /\ \A u \in Threads \ {t} : pc'[u] = pc[u] /\ caught'[u] = caught[u]
           /\ caught[t] => caught'[t]
           /\ \/ pc'[t] = "unwind"
              \/ pc'[t] = "work" /\ (caught'[t] \/ tr[t] = NoTrs)
BY DEF Throw, HasTransaction, Goto, TypeOK, Labels

(* GetConnection starts GetService.                                        *)
LEMMA GetConnectionIInv ==
    ASSUME IInv, NEW t \in Threads, GetConnection(t), RowsComplete'
    PROVE  IInv' /\ Others(t)
<1> USE DEF GetConnection, Goto
<1>1. TypeOK'
    BY TypeParts DEF IInv, TypeOK
<1>2. /\ \A u \in Threads \ {t} : Same(u)
      /\ Uses(t)' = Uses(t)
      /\ pc'[t] = "find" /\ pc[t] # "unwind"
    BY DEF IInv, TypeOK, Same, Uses
<1>3. QED
    BY <1>1, <1>2, QuietStep DEF Control

(* m_services.find.                                                        *)
LEMMA FindIInv ==
    ASSUME IInv, NEW t \in Threads, Find(t), RowsComplete'
    PROVE  IInv' /\ Others(t)
<1> USE DEF Find, Goto
<1>1. TypeOK'
    BY DEF IInv, TypeOK
<1>2. /\ \A u \in Threads \ {t} : Same(u)
      /\ Uses(t)' \subseteq Uses(t)
      /\ hold'[t] = services[t] /\ services'[t] = services[t]
      /\ pc'[t] = IF services[t] = None THEN "create" ELSE "check"
      /\ pc[t] # "unwind"
    BY DEF IInv, TypeOK, Same, Uses
<1>3. Control(t)'
    BY <1>2 DEF Control
<1>4. QED
    BY <1>1, <1>2, <1>3, QuietStep

(* m_services.emplace.                                                     *)
LEMMA EmplaceIInv ==
    ASSUME IInv, NEW t \in Threads, Emplace(t), RowsComplete'
    PROVE  IInv' /\ Others(t)
<1> USE DEF Emplace, Goto
<1>1. TypeOK'
    BY DEF IInv, TypeOK
<1>2. services[t] = None /\ hold[t] # None
    BY DEF IInv, Local, Control
<1>3. /\ \A u \in Threads \ {t} : Same(u)
      /\ Uses(t)' \subseteq Uses(t)
      /\ hold'[t] = hold[t] /\ services'[t] = hold[t]
      /\ pc'[t] = "work" /\ pc[t] # "unwind"
    BY <1>2 DEF IInv, TypeOK, Same, Uses
<1>4. Control(t)'
    BY <1>2, <1>3 DEF Control
<1>5. QED
    BY <1>1, <1>3, <1>4, QuietStep

(* A row is read.                                                          *)
LEMMA ReadRowIInv ==
    ASSUME IInv, NEW t \in Threads, ReadRow(t), RowsComplete', rs' \in [Threads -> Recordsets]
    PROVE  IInv' /\ Others(t)
<1> USE DEF ReadRow
<1>1. TypeOK'
    BY DEF IInv, TypeOK, Recordsets
<1>2. (\A u \in Threads : Same(u)) /\ Uses(t)' = Uses(t)
    BY DEF Same, Uses
<1>3. Control(t)'
    BY DEF IInv, Local, Control
<1>4. QED
    BY <1>1, <1>2, <1>3, QuietStep

(* A getter throws.                                                        *)
LEMMA GetValueIInv ==
    ASSUME IInv, NEW t \in Threads, GetValue(t), RowsComplete', rs' \in [Threads -> Recordsets]
    PROVE  IInv' /\ Others(t)
<1> USE DEF GetValue
<1>1. /\ pc' \in [Threads -> Labels] /\ caught' \in [Threads -> BOOLEAN]
      /\ \A u \in Threads \ {t} : pc'[u] = pc[u] /\ caught'[u] = caught[u]
      /\ caught[t] => caught'[t]
      /\ pc'[t] \in {"unwind", "work"}
    BY ThrowFacts DEF IInv
<1>2. TypeOK'
    BY <1>1 DEF IInv, TypeOK, Labels, Recordsets
<1>3. (\A u \in Threads \ {t} : Same(u)) /\ Uses(t)' = Uses(t)
    BY <1>1 DEF Same, Uses
<1>4. Control(t)'
    BY <1>1 DEF IInv, Local, Control
<1>5. QED
    BY <1>1, <1>2, <1>3, <1>4, QuietStep

(* The recordset is closed.                                                *)
LEMMA CloseRecordsetIInv ==
    ASSUME IInv, NEW t \in Threads, CloseRecordset(t), RowsComplete', rs' \in [Threads -> Recordsets]
    PROVE  IInv' /\ Others(t)
<1> USE DEF CloseRecordset, Goto
<1>1. TypeOK'
    BY DEF IInv, TypeOK, Recordsets
<1>2. /\ \A u \in Threads \ {t} : Same(u)
      /\ Uses(t)' = Uses(t)
      /\ pc'[t] = "work" /\ pc[t] = "read"
    BY DEF IInv, TypeOK, Same, Uses
<1>3. Control(t)'
    BY <1>2 DEF IInv, Local, Control
<1>4. QED
    BY <1>1, <1>2, <1>3, QuietStep

-----------------------------------------------------------------------------
(* Statements.                                                             *)

(* A thread that changes the session of a connection of its own leaves     *)
(* those of the other threads alone.                                       *)
LEMMA Touch ==
    ASSUME IInv, NEW t \in Threads, NEW c \in Conns, NEW k \in Sessions, Sane(k),
           conn' = [conn EXCEPT ![c] = k],
           \A u \in Threads \ {t} : c \notin Uses(u)
    PROVE  /\ conn' \in [Conns -> Sessions]
           /\ \A d \in Conns : Sane(conn'[d])
           /\ conn'[c] = k
           /\ \A d \in Conns \ {c} : conn'[d] = conn[d]
           /\ \A u \in Threads \ {t} : \A d \in Uses(u) : conn'[d] = conn[d]
<1>1. conn \in [Conns -> Sessions] /\ \A d \in Conns : Sane(conn[d])
    BY TypeParts DEF IInv
<1>2. \A u \in Threads : Uses(u) \subseteq Conns
    BY TypeParts DEF IInv, Uses, Transactions
<1>3. QED
    BY <1>1, <1>2

(* The connections a thread uses are its own.                              *)
LEMMA OwnUses ==
    ASSUME IInv, NEW t \in Threads
    PROVE  /\ Uses(t) \subseteq Conns
           /\ \A c \in Uses(t) : \A u \in Threads \ {t} : c \notin Uses(u)
           /\ hold[t] # None => hold[t] \in Uses(t)
           /\ services[t] # None => services[t] \in Uses(t)
           /\ \A i \in Slots : tr[t][i] # NoTr => tr[t][i].conn \in Uses(t)
           /\ \A i \in Slots : tr[t][i].state # "Unknown" => tr[t][i] # NoTr
<1>1. Uses(t) \subseteq Conns
    BY TypeParts DEF IInv, Uses, Transactions
<1>2. \A i \in Slots : tr[t][i] # NoTr => tr[t][i].conn \in Uses(t)
    BY DEF IInv, Local, OneTransaction, Uses
<1>3. \A c \in Uses(t) : \A u \in Threads \ {t} : c \notin Uses(u)
    BY DEF IInv, Apart
<1>4. /\ hold[t] # None => hold[t] \in Uses(t)
      /\ services[t] # None => services[t] \in Uses(t)
    BY DEF Uses
<1>5. \A i \in Slots : tr[t][i].state # "Unknown" => tr[t][i] # NoTr
    BY DEF NoTr
<1>6. QED
    BY <1>1, <1>2, <1>3, <1>4, <1>5

(* A server transaction on a connection of t is one of t's Transaction, or *)
(* was left by one.                                                        *)
LEMMA OwnTransaction ==
    ASSUME IInv, NEW t \in Threads, NEW c \in Uses(t), conn[c].txn # "idle"
    PROVE  \/ \E i \in Slots : tr[t][i] = [conn |-> c, state |-> "Begin"]
           \/ conn[c].left /\ conn[c].writes \subseteq loose
<1>1. c \in Conns
    BY OwnUses
<1>2. CASE conn[c].left /\ conn[c].writes \subseteq loose
    BY <1>2
<1>3. CASE \E u \in Threads, i \in Slots : tr[u][i] = [conn |-> c, state |-> "Begin"]
    <2>1. PICK u \in Threads, i \in Slots : tr[u][i] = [conn |-> c, state |-> "Begin"]
        BY <1>3
    <2>2. tr[u][i].state # "Unknown" /\ tr[u][i].conn = c
        BY <2>1
    <2>3. c \in Uses(u)
        BY <2>2, OwnUses
    <2>4. u = t
        BY <2>3, OwnUses
    <2>5. QED
        BY <2>1, <2>4
<1>4. QED
    BY <1>1, <1>2, <1>3 DEF IInv, Owned

(* Any server transaction belongs to t, to another thread, or was left.    *)
LEMMA OwnedBy ==
    ASSUME IInv, NEW t \in Threads, NEW d \in Conns, conn[d].txn # "idle"
    PROVE  \/ \E i \in Slots : tr[t][i] = [conn |-> d, state |-> "Begin"]
           \/ \E u \in Threads \ {t}, i \in Slots : tr[u][i] = [conn |-> d, state |-> "Begin"]
           \/ conn[d].left /\ conn[d].writes \subseteq loose
<1>1. CASE \E u \in Threads, i \in Slots : tr[u][i] = [conn |-> d, state |-> "Begin"]
    <2>1. PICK u \in Threads, i \in Slots : tr[u][i] = [conn |-> d, state |-> "Begin"]
        BY <1>1
    <2>2. QED
        BY <2>1
<1>2. QED
    BY <1>1 DEF IInv, Owned

(* A thread whose Transaction is in Begin has one.                         *)
LEMMA HasOne ==
    ASSUME NEW t \in Threads, NEW i \in Slots, tr[t][i].state = "Begin"
    PROVE  tr[t] # NoTrs
BY DEF NoTrs, NoTr

(* After a step that touches one connection and no Transaction, server     *)
(* transactions are accounted for.                                         *)
LEMMA OwnedKept ==
    ASSUME IInv, NEW t \in Threads, NEW c \in Uses(t), tr' = tr,
           \A d \in Conns \ {c} : conn'[d] = conn[d], loose \subseteq loose',
           conn'[c].txn # "idle" =>
                \/ \E i \in Slots : tr[t][i] = [conn |-> c, state |-> "Begin"]
                \/ /\ conn[c].txn # "idle" /\ conn'[c].left = conn[c].left
                   /\ conn'[c].writes \subseteq conn[c].writes \cup loose'
    PROVE  \A d \in Conns : conn'[d].txn # "idle" =>
                \/ \E i \in Slots : tr'[t][i] = [conn |-> d, state |-> "Begin"]
                \/ \E u \in Threads \ {t}, i \in Slots : tr[u][i] = [conn |-> d, state |-> "Begin"]
                \/ conn'[d].left /\ conn'[d].writes \subseteq loose'
BY DEF IInv, Owned

(* IsGood: a failure may abort the transaction, but is noted as caught.    *)
LEMMA IsGoodIInv ==
    ASSUME IInv, NEW t \in Threads, IsGood(t), RowsComplete'
    PROVE  IInv' /\ Others(t)
<1> DEFINE c == hold[t]
<1>1. pc[t] = "check" /\ c = services[t] /\ c # None /\ Local(t) /\ TypeOK
    BY DEF IsGood, IInv, Local, Control
<1>2. c \in Uses(t) /\ c \in Conns /\ \A u \in Threads \ {t} : c \notin Uses(u)
    BY <1>1, OwnUses
<1>3. PICK r \in RunStatement(conn[c], {}) :
        /\ conn' = [conn EXCEPT ![c] = r.conn]
        /\ caught' = [caught EXCEPT ![t] = @ \/ (~r.ok /\ HasTransaction(t))]
        /\ Goto(t, IF r.ok THEN "work" ELSE "erase")
    BY DEF IsGood
<1>4. conn[c] \in Sessions /\ Sane(conn[c])
    BY <1>2, TypeParts DEF IInv
<1>5. r.conn \in Sessions /\ Sane(r.conn) /\ r.conn.link = conn[c].link
    BY <1>4, StatementSane
<1>6. /\ r.ok \in BOOLEAN
      /\ r.ok => r.conn = conn[c]
      /\ \/ r.conn = conn[c]
         \/ /\ conn[c].txn = "open" /\ r.conn.txn = "aborted"
            /\ r.conn.left = conn[c].left /\ r.conn.writes = {}
    <2>1. conn[c].writes \cup {} = conn[c].writes /\ [conn[c] EXCEPT !.writes = conn[c].writes] = conn[c]
        BY <1>4 DEF Sessions
    <2>2. /\ [conn[c] EXCEPT !.txn = "aborted", !.writes = {}].txn = "aborted"
          /\ [conn[c] EXCEPT !.txn = "aborted", !.writes = {}].writes = {}
          /\ [conn[c] EXCEPT !.txn = "aborted", !.writes = {}].left = conn[c].left
        BY <1>4 DEF Sessions
    <2>3. /\ r.ok \in BOOLEAN
          /\ r.ok => \/ r.conn = [conn[c] EXCEPT !.writes = conn[c].writes \cup {}]
                     \/ r.conn = conn[c]
          /\ ~r.ok => \/ r.conn = conn[c]
                      \/ conn[c].txn = "open" /\ r.conn = [conn[c] EXCEPT !.txn = "aborted", !.writes = {}]
        BY <1>4, StatementFacts
    <2>4. QED
        BY <2>1, <2>2, <2>3
<1>7. UNCHANGED <<services, hold, tr, mine, rs, spent, durable, loose>>
    BY DEF IsGood
<1> HIDE DEF c
<1>8. /\ conn' \in [Conns -> Sessions]
      /\ \A d \in Conns : Sane(conn'[d])
      /\ conn'[c] = r.conn
      /\ \A d \in Conns \ {c} : conn'[d] = conn[d]
      /\ \A u \in Threads \ {t} : \A d \in Uses(u) : conn'[d] = conn[d]
    BY <1>2, <1>3, <1>5, Touch
<1>9. /\ pc' \in [Threads -> Labels] /\ caught' \in [Threads -> BOOLEAN]
      /\ pc'[t] = IF r.ok THEN "work" ELSE "erase"
      /\ caught'[t] <=> (caught[t] \/ (~r.ok /\ tr[t] # NoTrs))
      /\ \A u \in Threads \ {t} : Same(u)
    BY <1>1, <1>3, <1>6, <1>7, TypeParts DEF Goto, Labels, Same, HasTransaction
<1>10. TypeOK'
    <2>1. services' \in [Threads -> Conns \cup {None}] /\ hold' \in [Threads -> Conns \cup {None}]
          /\ tr' \in [Threads -> [Slots -> Transactions]] /\ mine' \in [Threads -> SUBSET Writes]
          /\ rs' \in [Threads -> Recordsets] /\ spent' \subseteq Writes /\ durable' \subseteq Writes /\ loose' \subseteq Writes
        BY <1>1, <1>7, TypeParts
    <2>2. QED
        BY <1>8, <1>9, <2>1 DEF TypeOK, Sessions, Labels, Transactions, Recordsets
<1>11. Uses(t)' = Uses(t)
    BY <1>7 DEF Uses
<1>12. Local(t)'
    <2>1. Control(t)' /\ OneTransaction(t)'
        BY <1>1, <1>6, <1>7, <1>9 DEF Local, Control, OneTransaction, c
    <2>2. Opening(t)'
        BY <1>1, <1>5, <1>8, <1>11, OwnUses DEF Local, Opening
    <2>3. Faithful(t)'
        <3>1. \A i \in Slots : tr[t][i].state = "Begin" => tr[t][i].conn \in Conns
            BY OwnUses
        <3>2. \A i \in Slots : tr[t][i].state = "Begin" => tr[t] # NoTrs
            BY HasOne
        <3>3. QED
            BY <1>1, <1>6, <1>7, <1>8, <1>9, <3>1, <3>2 DEF Local, Faithful
    <2>4. Outcome(t)'
        BY <1>1, <1>7, <1>9 DEF Local, Outcome, Settled
    <2>5. QED
        BY <2>1, <2>2, <2>3, <2>4 DEF Local
<1>13. \A d \in Conns : conn'[d].txn # "idle" =>
        \/ \E i \in Slots : tr'[t][i] = [conn |-> d, state |-> "Begin"]
        \/ \E u \in Threads \ {t}, i \in Slots : tr[u][i] = [conn |-> d, state |-> "Begin"]
        \/ conn'[d].left /\ conn'[d].writes \subseteq loose'
    <2>1. conn'[c].txn # "idle" =>
            /\ conn[c].txn # "idle" /\ conn'[c].left = conn[c].left
            /\ conn'[c].writes \subseteq conn[c].writes \cup loose'
        BY <1>6, <1>8
    <2>2. tr' = tr /\ loose \subseteq loose'
        BY <1>7
    <2>3. QED
        BY <1>2, <1>8, <2>1, <2>2, OwnedKept
<1>14. /\ \A u \in Threads \ {t} : Uses(t)' \cap Uses(u) = {}
       /\ durable \subseteq durable' /\ durable' \subseteq spent' /\ spent \subseteq spent'
       /\ mine'[t] \subseteq spent'
       /\ \A u \in Threads \ {t} : mine'[t] \cap mine[u] = {}
       /\ \A u \in Threads \ {t} : mine[u] \cap durable' \subseteq durable
       /\ loose \subseteq loose' /\ loose' \subseteq spent'
       /\ \A u \in Threads : mine'[u] \cap loose' = {}
    BY <1>7, <1>11 DEF IInv, Apart, WrittenOnce
<1>15. QED
    BY <1>8, <1>9, <1>10, <1>12, <1>13, <1>14, ThreadStep

(* What Execute does: the effect goes into the transaction that the thread *)
(* has open on the connection, or is durable at once, or the call throws.  *)
Reads(t) ==
    pc' = [pc EXCEPT ![t] = IF t \in Plain THEN "work" ELSE "read"] /\ UNCHANGED caught

LEMMA ExecuteCases ==
    ASSUME IInv, NEW t \in Threads, NEW w \in Writes, Execute(t, w)
    PROVE  \E k \in Sessions :
        /\ hold[t] \in Uses(t) /\ pc[t] = "work"
        /\ Sane(k) /\ k.link = conn[hold[t]].link
        /\ conn' = [conn EXCEPT ![hold[t]] = k]
        /\ \/ /\ conn[hold[t]].txn = "open" /\ k.txn = "open" /\ k.left = conn[hold[t]].left
              /\ k.writes = conn[hold[t]].writes \cup {w}
              /\ durable' = durable /\ spent' = spent \cup {w}
              /\ \/ InTransaction(t) /\ mine' = [mine EXCEPT ![t] = @ \cup {w}] /\ loose' = loose
                 \/ ~InTransaction(t) /\ mine' = mine /\ loose' = loose \cup {w}
              /\ Reads(t)
           \/ /\ conn[hold[t]].txn = "idle" /\ k = conn[hold[t]]
              /\ durable' = durable \cup {w} /\ spent' = spent \cup {w}
              /\ mine' = IF InTransaction(t) THEN [mine EXCEPT ![t] = @ \cup {w}] ELSE mine
              /\ loose' = loose
              /\ Reads(t)
           \/ /\ \/ k = conn[hold[t]]
                 \/ /\ conn[hold[t]].txn = "open" /\ k.txn = "aborted"
                    /\ k.left = conn[hold[t]].left /\ k.writes = {}
              /\ UNCHANGED <<durable, spent, mine, loose>>
              /\ Throw(t)
<1> DEFINE c == hold[t]
<1>1. c # None /\ pc[t] = "work"
    BY DEF Execute
<1>2. c \in Uses(t) /\ c \in Conns
    BY <1>1, OwnUses
<1>3. conn[c] \in Sessions /\ Sane(conn[c])
    BY <1>2, TypeParts DEF IInv
<1>4. PICK r \in RunStatement(conn[c], {w}) :
        /\ conn' = [conn EXCEPT ![c] = r.conn]
        /\ durable' = durable \cup r.saved
        /\ spent' = IF r.ok THEN spent \cup {w} ELSE spent
        /\ mine' = IF r.ok /\ InTransaction(t) THEN [mine EXCEPT ![t] = @ \cup {w}] ELSE mine
        /\ loose' = IF r.ok /\ ~InTransaction(t) THEN loose \cup (r.conn.writes \cap {w}) ELSE loose
        /\ IF r.ok THEN Reads(t) ELSE Throw(t)
    BY DEF Execute, Reads, Goto
<1>5. r.conn \in Sessions /\ Sane(r.conn) /\ r.conn.link = conn[c].link
    BY <1>3, StatementSane
<1>6. /\ r.ok \in BOOLEAN
      /\ r.ok => \/ /\ conn[c].txn = "open" /\ r.saved = {}
                    /\ r.conn = [conn[c] EXCEPT !.writes = conn[c].writes \cup {w}]
                 \/ conn[c].txn = "idle" /\ r.saved = {w} /\ r.conn = conn[c]
      /\ ~r.ok => /\ r.saved = {}
                  /\ \/ r.conn = conn[c]
                     \/ conn[c].txn = "open" /\ r.conn = [conn[c] EXCEPT !.txn = "aborted", !.writes = {}]
    BY <1>3, StatementFacts
<1>7. CASE r.ok /\ conn[c].txn = "open"
    <2>1. r.saved = {} /\ r.conn = [conn[c] EXCEPT !.writes = conn[c].writes \cup {w}]
        BY <1>6, <1>7
    <2>2. /\ r.conn.txn = "open" /\ r.conn.writes = conn[c].writes \cup {w}
          /\ r.conn.left = conn[c].left
        BY <1>3, <1>7, <2>1 DEF Sessions
    <2>3. r.conn.writes \cap {w} = {w}
        BY <2>2
    <2>4. durable' = durable
        BY <1>4, <2>1
    <2>5. \/ InTransaction(t) /\ mine' = [mine EXCEPT ![t] = @ \cup {w}] /\ loose' = loose
          \/ ~InTransaction(t) /\ mine' = mine /\ loose' = loose \cup {w}
        BY <1>4, <1>7, <2>3
    <2>6. QED
        BY <1>1, <1>2, <1>4, <1>5, <1>7, <2>2, <2>4, <2>5
<1>8. CASE r.ok /\ conn[c].txn # "open"
    <2>1. r.conn.writes \cap {w} = {}
        BY <1>3, <1>6, <1>8 DEF Sane
    <2>2. loose' = loose
        BY <1>4, <2>1
    <2>3. QED
        BY <1>1, <1>2, <1>4, <1>5, <1>6, <1>8, <2>2
<1>9. CASE ~r.ok
    <2>1. /\ [conn[c] EXCEPT !.txn = "aborted", !.writes = {}].txn = "aborted"
          /\ [conn[c] EXCEPT !.txn = "aborted", !.writes = {}].writes = {}
          /\ [conn[c] EXCEPT !.txn = "aborted", !.writes = {}].left = conn[c].left
        BY <1>3 DEF Sessions
    <2>2. \/ r.conn = conn[c]
          \/ /\ conn[c].txn = "open" /\ r.conn.txn = "aborted"
             /\ r.conn.left = conn[c].left /\ r.conn.writes = {}
        BY <1>6, <1>9, <2>1
    <2>3. UNCHANGED <<durable, spent, mine, loose>> /\ Throw(t)
        BY <1>4, <1>6, <1>9
    <2>4. QED
        BY <1>1, <1>2, <1>4, <1>5, <2>2, <2>3
<1>10. QED
    BY <1>6, <1>7, <1>8, <1>9

(* A statement keeps the invariant: the write is new, so it is nobody      *)
(* else's.                                                                 *)
LEMMA ExecuteIInv ==
    ASSUME IInv, NEW t \in Threads, NEW w \in Writes, Execute(t, w), RowsComplete',
           rs' \in [Threads -> Recordsets]
    PROVE  IInv' /\ Others(t)
<1> DEFINE c == hold[t]
<1>1. /\ Local(t) /\ TypeOK /\ w \notin spent
      /\ UNCHANGED <<services, hold, tr>>
    BY DEF Execute, IInv
<1>2. PICK k \in Sessions :
        /\ c \in Uses(t) /\ pc[t] = "work"
        /\ Sane(k) /\ k.link = conn[c].link
        /\ conn' = [conn EXCEPT ![c] = k]
        /\ \/ /\ conn[c].txn = "open" /\ k.txn = "open" /\ k.left = conn[c].left
              /\ k.writes = conn[c].writes \cup {w}
              /\ durable' = durable /\ spent' = spent \cup {w}
              /\ \/ InTransaction(t) /\ mine' = [mine EXCEPT ![t] = @ \cup {w}] /\ loose' = loose
                 \/ ~InTransaction(t) /\ mine' = mine /\ loose' = loose \cup {w}
              /\ Reads(t)
           \/ /\ conn[c].txn = "idle" /\ k = conn[c]
              /\ durable' = durable \cup {w} /\ spent' = spent \cup {w}
              /\ mine' = IF InTransaction(t) THEN [mine EXCEPT ![t] = @ \cup {w}] ELSE mine
              /\ loose' = loose
              /\ Reads(t)
           \/ /\ \/ k = conn[c]
                 \/ /\ conn[c].txn = "open" /\ k.txn = "aborted"
                    /\ k.left = conn[c].left /\ k.writes = {}
              /\ UNCHANGED <<durable, spent, mine, loose>>
              /\ Throw(t)
    BY ExecuteCases
<1>3. c \in Conns /\ \A u \in Threads \ {t} : c \notin Uses(u)
    BY <1>2, OwnUses
<1>4. /\ conn' \in [Conns -> Sessions]
      /\ \A d \in Conns : Sane(conn'[d])
      /\ conn'[c] = k
      /\ \A d \in Conns \ {c} : conn'[d] = conn[d]
      /\ \A u \in Threads \ {t} : \A d \in Uses(u) : conn'[d] = conn[d]
    BY <1>2, <1>3, Touch
<1>5. /\ pc' \in [Threads -> Labels] /\ caught' \in [Threads -> BOOLEAN]
      /\ \A u \in Threads \ {t} : pc'[u] = pc[u] /\ caught'[u] = caught[u]
      /\ caught[t] => caught'[t]
      /\ pc'[t] \in {"work", "read", "unwind"}
      /\ Throw(t) => caught'[t] \/ pc'[t] = "unwind" \/ tr[t] = NoTrs
    <2>1. CASE Reads(t)
        <3>1. pc \in [Threads -> Labels] /\ caught \in [Threads -> BOOLEAN]
            BY <1>1, TypeParts
        <3>2. Throw(t) => caught'[t] \/ pc'[t] = "unwind" \/ tr[t] = NoTrs
            BY <1>1, ThrowFacts
        <3>3. QED
            BY <1>1, <2>1, <3>1, <3>2 DEF Reads, Labels, Goto
    <2>2. CASE Throw(t)
        BY <1>1, <2>2, ThrowFacts
    <2>3. QED
        BY <1>2, <2>1, <2>2
<1>6. /\ mine' \in [Threads -> SUBSET Writes]
      /\ \A u \in Threads \ {t} : mine'[u] = mine[u]
      /\ mine'[t] \in {mine[t], mine[t] \cup {w}}
      /\ spent' \in {spent, spent \cup {w}} /\ durable' \in {durable, durable \cup {w}}
      /\ mine'[t] # mine[t] \/ durable' # durable \/ loose' # loose => spent' = spent \cup {w}
      /\ loose' \in {loose, loose \cup {w}}
      /\ loose' # loose => mine'[t] = mine[t]
    <2>1. mine \in [Threads -> SUBSET Writes]
        BY <1>1, TypeParts
    <2>2. mine' = mine \/ mine' = [mine EXCEPT ![t] = @ \cup {w}]
        BY <1>2
    <2>3. QED
        BY <1>2, <2>1, <2>2
<1>7. \A u \in Threads \ {t} : Same(u)
    BY <1>1, <1>5, <1>6 DEF Same
<1>8. TypeOK'
    <2>1. /\ services' \in [Threads -> Conns \cup {None}] /\ hold' \in [Threads -> Conns \cup {None}]
          /\ tr' \in [Threads -> [Slots -> Transactions]]
          /\ spent' \subseteq Writes /\ durable' \subseteq Writes /\ loose' \subseteq Writes
        BY <1>1, <1>6, TypeParts
    <2>2. QED
        BY <1>4, <1>5, <1>6, <2>1 DEF TypeOK, Sessions, Labels, Transactions, Recordsets
<1>9. Uses(t)' = Uses(t)
    BY <1>1 DEF Uses
<1>10. mine[t] \subseteq spent /\ durable \subseteq spent /\ w \notin mine[t] /\ w \notin durable
       /\ loose \subseteq spent /\ w \notin loose /\ mine[t] \cap loose = {}
    BY <1>1 DEF IInv, WrittenOnce
<1>11. \A i \in Slots : tr[t][i].state \in {"Init", "Commit", "Rollback"} => ~InTransaction(t)
    BY <1>1, OwnUses DEF InTransaction, Local, OneTransaction
<1>12. \A i \in Slots : tr[t][i].state = "Begin" /\ InTransaction(t) => tr[t][i].conn = c
    BY <1>1, OwnUses DEF InTransaction, Local, OneTransaction
<1>13. \A i \in Slots : tr[t][i].state = "Begin" => tr[t][i].conn \in Conns
    BY OwnUses
<1>14. Local(t)'
    <2>1. Control(t)' /\ OneTransaction(t)'
        BY <1>1, <1>2, <1>5 DEF Local, Control, OneTransaction
    <2>2. Opening(t)'
        BY <1>1, <1>2, <1>4, <1>9, OwnUses DEF Local, Opening
    <2>3. Faithful(t)'
        <3> SUFFICES ASSUME NEW i \in Slots
                     PROVE  /\ tr[t][i].state = "Init" => mine'[t] = {}
                            /\ tr[t][i].state = "Begin" /\ conn'[tr[t][i].conn].txn = "open"
                                => /\ mine'[t] \subseteq conn'[tr[t][i].conn].writes
                                   /\ conn'[tr[t][i].conn].writes \subseteq mine'[t] \cup loose'
                                   /\ mine'[t] \cap durable' = {}
                            /\ (/\ tr[t][i].state = "Begin" /\ ~caught'[t] /\ pc'[t] # "unwind"
                                /\ conn'[tr[t][i].conn].link = "up")
                                    => conn'[tr[t][i].conn].txn = "open"
            BY <1>1 DEF Faithful
        <3>1. tr[t][i].state = "Init" => mine'[t] = {}
            <4>1. tr[t][i].state = "Init" => mine[t] = {}
                BY <1>1 DEF Local, Faithful
            <4>2. QED
                BY <1>2, <1>11, <4>1
        <3>2. ASSUME tr[t][i].state = "Begin", conn'[tr[t][i].conn].txn = "open"
              PROVE  /\ mine'[t] \subseteq conn'[tr[t][i].conn].writes
                     /\ conn'[tr[t][i].conn].writes \subseteq mine'[t] \cup loose'
                     /\ mine'[t] \cap durable' = {}
            <4>1. conn[tr[t][i].conn].txn = "open"
                BY <1>2, <1>4, <1>13, <3>2
            <4>2. /\ mine[t] \subseteq conn[tr[t][i].conn].writes
                  /\ conn[tr[t][i].conn].writes \subseteq mine[t] \cup loose
                  /\ mine[t] \cap durable = {}
                BY <1>1, <3>2, <4>1 DEF Local, Faithful
            <4>3. CASE InTransaction(t)
                <5>1. tr[t][i].conn = c /\ k.txn = "open"
                    BY <1>4, <1>12, <3>2, <4>3
                <5>2. CASE k = conn[c] /\ UNCHANGED <<durable, mine, loose>>
                    BY <1>4, <4>2, <5>1, <5>2
                <5>3. CASE /\ k.writes = conn[c].writes \cup {w} /\ durable' = durable
                           /\ mine' = [mine EXCEPT ![t] = @ \cup {w}] /\ loose' = loose
                    <6>1. mine'[t] = mine[t] \cup {w}
                        BY <1>1, <5>3, TypeParts
                    <6>2. QED
                        BY <1>4, <1>10, <4>2, <5>1, <5>3, <6>1
                <5>4. conn[c].txn # "idle"
                    BY <4>1, <5>1
                <5>5. \/ k = conn[c] /\ UNCHANGED <<durable, mine, loose>>
                      \/ /\ k.writes = conn[c].writes \cup {w} /\ durable' = durable
                         /\ mine' = [mine EXCEPT ![t] = @ \cup {w}] /\ loose' = loose
                    BY <1>2, <4>3, <5>1, <5>4
                <5>6. QED
                    BY <5>2, <5>3, <5>5
            <4>4. CASE ~InTransaction(t)
                <5>1. tr[t][i].conn # c
                    BY <3>2, <4>4 DEF InTransaction
                <5>2. mine'[t] = mine[t] /\ conn'[tr[t][i].conn] = conn[tr[t][i].conn]
                    BY <1>2, <1>4, <1>13, <3>2, <4>4, <5>1
                <5>3. QED
                    BY <1>6, <1>10, <4>2, <5>2
            <4>5. QED
                BY <4>3, <4>4
        <3>3. ASSUME tr[t][i].state = "Begin", ~caught'[t], pc'[t] # "unwind",
                     conn'[tr[t][i].conn].link = "up"
              PROVE  conn'[tr[t][i].conn].txn = "open"
            <4>1. ~caught[t] /\ pc[t] # "unwind" /\ ~Throw(t)
                BY <1>2, <1>5, <3>3, HasOne
            <4>2. conn[tr[t][i].conn].link = "up"
                BY <1>2, <1>4, <1>13, <3>3
            <4>3. conn[tr[t][i].conn].txn = "open"
                BY <1>1, <3>3, <4>1, <4>2 DEF Local, Faithful
            <4>4. QED
                BY <1>2, <1>4, <1>13, <3>3, <4>1, <4>3
        <3>4. QED
            BY <3>1, <3>2, <3>3
    <2>4. Outcome(t)'
        <3> SUFFICES ASSUME NEW i \in Slots, ~caught'[t], tr[t][i].state \in {"Commit", "Rollback"}
                     PROVE  /\ tr[t][i].state = "Commit" => mine'[t] \subseteq durable'
                            /\ tr[t][i].state = "Rollback" => mine'[t] \cap durable' = {}
            BY <1>1 DEF Outcome, Settled
        <3>1. mine'[t] = mine[t]
            <4>1. ~InTransaction(t)
                BY <1>11
            <4>2. mine' = mine
                BY <1>2, <4>1
            <4>3. QED
                BY <4>2
        <3>2. /\ tr[t][i].state = "Commit" => mine[t] \subseteq durable
              /\ tr[t][i].state = "Rollback" => mine[t] \cap durable = {}
            BY <1>1, <1>5 DEF Local, Outcome, Settled
        <3>3. QED
            BY <1>6, <1>10, <3>1, <3>2
    <2>5. QED
        BY <2>1, <2>2, <2>3, <2>4 DEF Local
<1>15. \A d \in Conns : conn'[d].txn # "idle" =>
        \/ \E i \in Slots : tr'[t][i] = [conn |-> d, state |-> "Begin"]
        \/ \E u \in Threads \ {t}, i \in Slots : tr[u][i] = [conn |-> d, state |-> "Begin"]
        \/ conn'[d].left /\ conn'[d].writes \subseteq loose'
    <2>1. InTransaction(t) => \E i \in Slots : tr[t][i] = [conn |-> c, state |-> "Begin"]
        BY <1>1, TypeParts DEF InTransaction, Transactions
    <2>2. conn'[c].txn # "idle" =>
            \/ \E i \in Slots : tr[t][i] = [conn |-> c, state |-> "Begin"]
            \/ /\ conn[c].txn # "idle" /\ conn'[c].left = conn[c].left
               /\ conn'[c].writes \subseteq conn[c].writes \cup loose'
        BY <1>2, <1>4, <2>1
    <2>3. tr' = tr /\ loose \subseteq loose'
        BY <1>1, <1>6
    <2>4. QED
        BY <1>2, <1>4, <2>2, <2>3, OwnedKept
<1>16. /\ \A u \in Threads \ {t} : Uses(t)' \cap Uses(u) = {}
       /\ durable \subseteq durable' /\ durable' \subseteq spent' /\ spent \subseteq spent'
       /\ mine'[t] \subseteq spent'
       /\ \A u \in Threads \ {t} : mine'[t] \cap mine[u] = {}
       /\ \A u \in Threads \ {t} : mine[u] \cap durable' \subseteq durable
       /\ loose \subseteq loose' /\ loose' \subseteq spent'
       /\ \A u \in Threads : mine'[u] \cap loose' = {}
    <2>1. \A u \in Threads \ {t} : w \notin mine[u] /\ mine[t] \cap mine[u] = {} /\ mine[u] \cap loose = {}
        BY <1>1 DEF IInv, WrittenOnce
    <2>2. \A u \in Threads \ {t} : Uses(t)' \cap Uses(u) = {}
        BY <1>9 DEF IInv, Apart
    <2>3. QED
        BY <1>6, <1>10, <2>1, <2>2
<1>17. QED
    BY <1>4, <1>7, <1>8, <1>14, <1>15, <1>16, ThreadStep

(* The link of a connection breaks: whoever uses it has no transaction on  *)
(* the server any more.                                                    *)
LEMMA BreakIInv ==
    ASSUME IInv, NEW c \in Conns, Break(c), RowsComplete'
    PROVE  IInv'
<1> USE DEF Break
<1>1. conn \in [Conns -> Sessions] /\ Sane(conn[c]) /\ TypeOK
    BY TypeParts DEF IInv
<1>2. /\ Broken(conn[c]) \in Sessions /\ Sane(Broken(conn[c]))
      /\ Broken(conn[c]).txn = "idle" /\ Broken(conn[c]).link = "lost"
    BY <1>1, SaneSessions
<1>3. /\ conn' \in [Conns -> Sessions] /\ conn'[c] = Broken(conn[c])
      /\ \A d \in Conns \ {c} : conn'[d] = conn[d]
    BY <1>1, <1>2
<1>4. TypeOK'
    BY <1>1, <1>3 DEF TypeOK, Sessions
<1>5. (\A d \in Conns : Sane(conn[d]))'
    BY <1>2, <1>3 DEF IInv
<1>6. ASSUME NEW t \in Threads PROVE Local(t)'
    <2>1. Local(t) /\ Uses(t)' = Uses(t) /\ Uses(t) \subseteq Conns
        BY OwnUses DEF IInv, Uses
    <2>2. Control(t)' /\ OneTransaction(t)' /\ Outcome(t)'
        BY <2>1 DEF Local, Control, OneTransaction, Outcome, Settled
    <2>3. Opening(t)'
        BY <1>2, <1>3, <2>1 DEF Local, Opening
    <2>4. \A i \in Slots : tr[t][i].state = "Begin" => tr[t][i].conn \in Conns
        BY OwnUses
    <2>5. Faithful(t)'
        BY <1>2, <1>3, <2>1, <2>4 DEF Local, Faithful
    <2>6. QED
        BY <2>2, <2>3, <2>5 DEF Local
<1>7. Apart' /\ WrittenOnce'
    <2>1. \A t \in Threads : Uses(t)' = Uses(t)
        BY DEF Uses
    <2>2. Apart'
        BY <2>1 DEF IInv, Apart
    <2>3. WrittenOnce'
        BY DEF IInv, WrittenOnce
    <2>4. QED
        BY <2>2, <2>3
<1>8. Owned'
    BY <1>2, <1>3 DEF IInv, Owned
<1>9. QED
    BY <1>4, <1>5, <1>6, <1>7, <1>8 DEF IInv

-----------------------------------------------------------------------------
(* Connections are made and released.                                      *)

(* m_factory->Create opens a Connection nobody points at.                  *)
LEMMA CreateIInv ==
    ASSUME IInv, NEW t \in Threads, Create(t), RowsComplete'
    PROVE  IInv' /\ Others(t)
<1>1. /\ pc[t] = "create" /\ hold[t] = None /\ services[t] = None /\ Local(t) /\ TypeOK
      /\ UNCHANGED <<services, tr, mine, caught, rs, spent, durable, loose>>
    BY DEF Create, IInv, Local, Control
<1>2. CASE Goto(t, "unwind") /\ UNCHANGED <<conn, hold>>
    <2>1. TypeOK'
        BY <1>1, <1>2 DEF TypeOK, Goto
    <2>2. (\A u \in Threads \ {t} : Same(u)) /\ Uses(t)' = Uses(t) /\ pc'[t] = "unwind"
        BY <1>1, <1>2 DEF Same, Uses, Goto, TypeOK
    <2>3. Control(t)'
        BY <2>2 DEF Control
    <2>4. QED
        BY <1>1, <1>2, <2>1, <2>2, <2>3, QuietStep
<1>3. CASE \E c \in {d \in Conns : conn[d].link = "none"} :
            /\ conn' = [conn EXCEPT ![c] = NewSession]
            /\ hold' = [hold EXCEPT ![t] = c]
            /\ Goto(t, "emplace")
    <2>1. PICK c \in Conns :
            /\ conn[c].link = "none"
            /\ conn' = [conn EXCEPT ![c] = NewSession]
            /\ hold' = [hold EXCEPT ![t] = c]
            /\ Goto(t, "emplace")
        BY <1>3
    <2>2. \A u \in Threads : c \notin Uses(u)
        BY <2>1 DEF IInv, Local, Opening
    <2>3. /\ NewSession \in Sessions /\ Sane(NewSession)
          /\ NewSession.txn = "idle" /\ NewSession.link = "up"
        BY DEF NewSession, NoSession, Sessions, Sane
    <2>4. /\ conn' \in [Conns -> Sessions]
          /\ \A d \in Conns : Sane(conn'[d])
          /\ conn'[c] = NewSession
          /\ \A d \in Conns \ {c} : conn'[d] = conn[d]
          /\ \A u \in Threads \ {t} : \A d \in Uses(u) : conn'[d] = conn[d]
        BY <2>1, <2>2, <2>3, Touch
    <2>5. /\ pc' \in [Threads -> Labels] /\ hold' \in [Threads -> Conns \cup {None}]
          /\ pc'[t] = "emplace" /\ hold'[t] = c /\ c # None
          /\ \A u \in Threads \ {t} : Same(u)
        BY <1>1, <2>1, TypeParts, DatabaseAssumption DEF Goto, Labels, Same
    <2>6. TypeOK'
        BY <1>1, <2>4, <2>5 DEF TypeOK, Sessions, Labels
    <2>7. Uses(t)' = Uses(t) \cup {c}
        BY <1>1, <2>5 DEF Uses
    <2>8. Local(t)'
        <3>1. Control(t)' /\ OneTransaction(t)' /\ Outcome(t)'
            BY <1>1, <2>5 DEF Local, Control, OneTransaction, Outcome, Settled
        <3>2. Opening(t)'
            BY <1>1, <2>3, <2>4, <2>7, OwnUses DEF Local, Opening
        <3>3. \A i \in Slots : tr[t][i].state = "Begin" => conn'[tr[t][i].conn] = conn[tr[t][i].conn]
            BY <2>2, <2>4, OwnUses
        <3>4. Faithful(t)'
            BY <1>1, <2>5, <3>3 DEF Local, Faithful
        <3>5. QED
            BY <3>1, <3>2, <3>4 DEF Local
    <2>9. \A d \in Conns : conn'[d].txn # "idle" =>
            \/ \E i \in Slots : tr'[t][i] = [conn |-> d, state |-> "Begin"]
            \/ \E u \in Threads \ {t}, i \in Slots : tr[u][i] = [conn |-> d, state |-> "Begin"]
            \/ conn'[d].left /\ conn'[d].writes \subseteq loose'
        BY <1>1, <2>3, <2>4 DEF IInv, Owned
    <2>10. /\ \A u \in Threads \ {t} : Uses(t)' \cap Uses(u) = {}
           /\ durable \subseteq durable' /\ durable' \subseteq spent' /\ spent \subseteq spent'
           /\ mine'[t] \subseteq spent'
           /\ \A u \in Threads \ {t} : mine'[t] \cap mine[u] = {}
           /\ \A u \in Threads \ {t} : mine[u] \cap durable' \subseteq durable
           /\ loose \subseteq loose' /\ loose' \subseteq spent'
           /\ \A u \in Threads : mine'[u] \cap loose' = {}
        BY <1>1, <2>2, <2>7 DEF IInv, Apart, WrittenOnce
    <2>11. QED
        BY <2>4, <2>5, <2>6, <2>8, <2>9, <2>10, ThreadStep
<1>4. QED
    BY <1>2, <1>3 DEF Create

(* Releasing the connections nobody points at any more touches no other    *)
(* thread's and leaves no transaction of its own behind.                   *)
LEMMA ReleaseFacts ==
    ASSUME IInv, NEW t \in Threads,
           NEW k \in [Conns -> Sessions], \A c \in Conns : Sane(k[c]),
           conn' = Released(k, services', hold', tr'),
           \A u \in Threads \ {t} : Same(u) /\ \A c \in Uses(u) : k[c] = conn[c],
           Uses(t)' \subseteq Uses(t)
    PROVE  /\ conn' \in [Conns -> Sessions]
           /\ \A c \in Conns : Sane(conn'[c])
           /\ \A c \in Uses(t)' : conn'[c] = k[c]
           /\ \A u \in Threads \ {t} : \A c \in Uses(u) : conn'[c] = conn[c]
           /\ \A c \in Conns : conn'[c].txn # "idle" => conn'[c] = k[c]
<1>1. /\ conn' \in [Conns -> Sessions]
      /\ \A c \in Conns : conn'[c] = IF c \in Held(services', hold', tr') THEN k[c] ELSE NoSession
    BY ReleasedType
<1>2. NoSession.txn = "idle" /\ Sane(NoSession)
    BY DEF NoSession, Sane
<1>3. \A u \in Threads : Uses(u)' \subseteq Held(services', hold', tr')
    BY DEF Uses, Held
<1>4. \A u \in Threads \ {t} : Uses(u)' = Uses(u)
    BY DEF Same, Uses
<1>5. \A u \in Threads : Uses(u) \subseteq Conns
    BY OwnUses
<1>6. QED
    BY <1>1, <1>2, <1>3, <1>4, <1>5

(* A bad connection leaves the table.                                      *)
LEMMA EraseIInv ==
    ASSUME IInv, NEW t \in Threads, Erase(t), RowsComplete'
    PROVE  IInv' /\ Others(t)
<1>1. /\ pc[t] = "erase" /\ Local(t) /\ TypeOK
      /\ services' = [services EXCEPT ![t] = None] /\ hold' = [hold EXCEPT ![t] = None]
      /\ conn' = Released(conn, services', hold', tr)
      /\ pc' = [pc EXCEPT ![t] = "create"]
      /\ UNCHANGED <<tr, mine, caught, rs, spent, durable, loose>>
    BY DEF Erase, IInv, Goto
<1>2. /\ services' \in [Threads -> Conns \cup {None}] /\ hold' \in [Threads -> Conns \cup {None}]
      /\ pc' \in [Threads -> Labels]
      /\ services'[t] = None /\ hold'[t] = None /\ pc'[t] = "create"
      /\ \A u \in Threads \ {t} : Same(u)
    BY <1>1, TypeParts DEF Labels, Same
<1>3. Uses(t)' \subseteq Uses(t)
    BY <1>1, <1>2 DEF Uses
<1>4. conn \in [Conns -> Sessions] /\ \A c \in Conns : Sane(conn[c])
    BY TypeParts DEF IInv
<1>5. /\ conn' \in [Conns -> Sessions]
      /\ \A c \in Conns : Sane(conn'[c])
      /\ \A c \in Uses(t)' : conn'[c] = conn[c]
      /\ \A u \in Threads \ {t} : \A c \in Uses(u) : conn'[c] = conn[c]
      /\ \A c \in Conns : conn'[c].txn # "idle" => conn'[c] = conn[c]
    <2>1. conn' = Released(conn, services', hold', tr')
        BY <1>1
    <2>2. QED
        BY <1>2, <1>3, <1>4, <2>1, ReleaseFacts
<1>6. TypeOK'
    BY <1>1, <1>2, <1>5 DEF TypeOK, Sessions, Labels
<1>7. Local(t)'
    <2>1. Control(t)' /\ OneTransaction(t)' /\ Outcome(t)'
        BY <1>1, <1>2 DEF Local, Control, OneTransaction, Outcome, Settled
    <2>2. Opening(t)'
        BY <1>1, <1>3, <1>5 DEF Local, Opening
    <2>3. \A i \in Slots : tr[t][i].state = "Begin" => tr[t][i].conn \in Uses(t)'
        BY <1>1, OwnUses DEF Uses
    <2>4. Faithful(t)'
        <3>1. \A i \in Slots : tr[t][i].state = "Begin" => conn'[tr[t][i].conn] = conn[tr[t][i].conn]
            BY <1>5, <2>3
        <3>2. Faithful(t) /\ UNCHANGED <<tr, mine, caught, durable, loose>> /\ pc[t] # "unwind"
            BY <1>1 DEF Local
        <3>3. QED
            BY <3>1, <3>2 DEF Faithful
    <2>5. QED
        BY <2>1, <2>2, <2>4 DEF Local
<1>8. \A d \in Conns : conn'[d].txn # "idle" =>
        \/ \E i \in Slots : tr'[t][i] = [conn |-> d, state |-> "Begin"]
        \/ \E u \in Threads \ {t}, i \in Slots : tr[u][i] = [conn |-> d, state |-> "Begin"]
        \/ conn'[d].left /\ conn'[d].writes \subseteq loose'
    <2> SUFFICES ASSUME NEW d \in Conns, conn'[d].txn # "idle"
                 PROVE  \/ \E i \in Slots : tr[t][i] = [conn |-> d, state |-> "Begin"]
                        \/ \E u \in Threads \ {t}, i \in Slots : tr[u][i] = [conn |-> d, state |-> "Begin"]
                        \/ conn[d].left /\ conn[d].writes \subseteq loose
        BY <1>1, <1>5
    <2>1. conn[d].txn # "idle"
        BY <1>5
    <2>2. QED
        BY <2>1, OwnedBy
<1>9. /\ \A u \in Threads \ {t} : Uses(t)' \cap Uses(u) = {}
      /\ durable \subseteq durable' /\ durable' \subseteq spent' /\ spent \subseteq spent'
      /\ mine'[t] \subseteq spent'
      /\ \A u \in Threads \ {t} : mine'[t] \cap mine[u] = {}
      /\ \A u \in Threads \ {t} : mine[u] \cap durable' \subseteq durable
      /\ loose \subseteq loose' /\ loose' \subseteq spent'
      /\ \A u \in Threads : mine'[u] \cap loose' = {}
    BY <1>1, <1>3 DEF IInv, Apart, WrittenOnce
<1>10. QED
    BY <1>2, <1>5, <1>6, <1>7, <1>8, <1>9, ThreadStep

(* The thread leaves its handler.                                          *)
LEMMA LeaveIInv ==
    ASSUME IInv, NEW t \in Threads, Leave(t), RowsComplete'
    PROVE  IInv' /\ Others(t)
<1>1. /\ tr[t] = NoTrs /\ Local(t) /\ TypeOK
      /\ hold' = [hold EXCEPT ![t] = None]
      /\ conn' = Released(conn, services, hold', tr)
      /\ pc' = [pc EXCEPT ![t] = "idle"]
      /\ UNCHANGED <<services, tr, mine, caught, rs, spent, durable, loose>>
    BY DEF Leave, IInv, Goto
<1>2. /\ hold' \in [Threads -> Conns \cup {None}] /\ pc' \in [Threads -> Labels]
      /\ hold'[t] = None /\ pc'[t] = "idle"
      /\ \A u \in Threads \ {t} : Same(u)
    BY <1>1, TypeParts DEF Labels, Same
<1>3. Uses(t)' \subseteq Uses(t)
    BY <1>1, <1>2 DEF Uses
<1>4. conn \in [Conns -> Sessions] /\ \A c \in Conns : Sane(conn[c])
    BY TypeParts DEF IInv
<1>5. /\ conn' \in [Conns -> Sessions]
      /\ \A c \in Conns : Sane(conn'[c])
      /\ \A c \in Uses(t)' : conn'[c] = conn[c]
      /\ \A u \in Threads \ {t} : \A c \in Uses(u) : conn'[c] = conn[c]
      /\ \A c \in Conns : conn'[c].txn # "idle" => conn'[c] = conn[c]
    <2>1. conn' = Released(conn, services', hold', tr')
        BY <1>1
    <2>2. QED
        BY <1>2, <1>3, <1>4, <2>1, ReleaseFacts
<1>6. TypeOK'
    BY <1>1, <1>2, <1>5 DEF TypeOK, Sessions, Labels
<1>7. Local(t)'
    <2>1. \A i \in Slots : tr'[t][i] = NoTr /\ tr'[t][i].state = "Unknown"
        BY <1>1 DEF NoTrs, NoTr
    <2>2. Control(t)' /\ OneTransaction(t)' /\ Outcome(t)' /\ Faithful(t)'
        BY <1>1, <1>2, <2>1 DEF Control, OneTransaction, Outcome, Settled, Faithful
    <2>3. Opening(t)'
        BY <1>1, <1>3, <1>5 DEF Local, Opening
    <2>4. QED
        BY <2>2, <2>3 DEF Local
<1>8. \A d \in Conns : conn'[d].txn # "idle" =>
        \/ \E i \in Slots : tr'[t][i] = [conn |-> d, state |-> "Begin"]
        \/ \E u \in Threads \ {t}, i \in Slots : tr[u][i] = [conn |-> d, state |-> "Begin"]
        \/ conn'[d].left /\ conn'[d].writes \subseteq loose'
    BY <1>1, <1>5 DEF IInv, Owned
<1>9. /\ \A u \in Threads \ {t} : Uses(t)' \cap Uses(u) = {}
      /\ durable \subseteq durable' /\ durable' \subseteq spent' /\ spent \subseteq spent'
      /\ mine'[t] \subseteq spent'
      /\ \A u \in Threads \ {t} : mine'[t] \cap mine[u] = {}
      /\ \A u \in Threads \ {t} : mine[u] \cap durable' \subseteq durable
      /\ loose \subseteq loose' /\ loose' \subseteq spent'
      /\ \A u \in Threads : mine'[u] \cap loose' = {}
    BY <1>1, <1>2, <1>3 DEF IInv, Apart, WrittenOnce
<1>10. QED
    BY <1>2, <1>5, <1>6, <1>7, <1>8, <1>9, ThreadStep

-----------------------------------------------------------------------------
(* Transaction objects.                                                    *)

(* ~Transaction: what the server still has open is rolled back or was lost *)
(* with the link.                                                          *)
LEMMA DestroyIInv ==
    ASSUME IInv, NEW t \in Threads, NEW i \in Slots, Destroy(t, i), RowsComplete'
    PROVE  IInv' /\ Others(t)
<1> DEFINE c == tr[t][i].conn
<1>1. /\ pc[t] \in {"work", "unwind"} /\ tr[t][i] # NoTr /\ Local(t) /\ TypeOK
      /\ tr' = [tr EXCEPT ![t][i] = NoTr]
      /\ mine' \in {mine, [mine EXCEPT ![t] = {}]} /\ caught' \in {caught, [caught EXCEPT ![t] = FALSE]}
      /\ UNCHANGED <<services, pc, hold, rs, spent, durable, loose>>
    BY DEF Destroy, Forget, IInv
<1>2. c \in Uses(t) /\ c \in Conns /\ \A u \in Threads \ {t} : c \notin Uses(u)
    BY <1>1, OwnUses
<1>3. conn \in [Conns -> Sessions] /\ \A d \in Conns : Sane(conn[d])
    BY TypeParts DEF IInv
<1>4. \E k \in [Conns -> Sessions] :
        /\ conn' = Released(k, services', hold', tr')
        /\ \A d \in Conns : Sane(k[d])
        /\ \A d \in Conns \ {c} : k[d] = conn[d]
        /\ k[c].link = conn[c].link
        /\ IF tr[t][i].state = "Begin" THEN k[c].txn = "idle" ELSE k[c] = conn[c]
    <2>1. CASE tr[t][i].state = "Begin"
        <3>1. PICK r \in ExecuteDirect(conn[c], "ROLLBACK") :
                conn' = Released([conn EXCEPT ![c] = r.conn], services, hold, tr')
            BY <2>1 DEF Destroy
        <3>2. r.conn = Ended(conn[c])
            BY <1>2, <1>3, DirectFacts
        <3>3. /\ Ended(conn[c]) \in Sessions /\ Sane(Ended(conn[c]))
              /\ Ended(conn[c]).txn = "idle" /\ Ended(conn[c]).link = conn[c].link
            BY <1>2, <1>3, SaneSessions
        <3> DEFINE k == [conn EXCEPT ![c] = r.conn]
        <3>4. /\ k \in [Conns -> Sessions] /\ k[c] = Ended(conn[c])
              /\ \A d \in Conns \ {c} : k[d] = conn[d]
            BY <1>2, <1>3, <3>2, <3>3
        <3>5. conn' = Released(k, services', hold', tr')
            BY <1>1, <3>1
        <3> HIDE DEF k
        <3>6. QED
            BY <1>3, <2>1, <3>3, <3>4, <3>5
    <2>2. CASE tr[t][i].state # "Begin"
        <3>1. conn' = Released(conn, services', hold', tr')
            BY <1>1, <2>2 DEF Destroy
        <3>2. QED
            BY <1>3, <2>2, <3>1
    <2>3. QED
        BY <2>1, <2>2
<1>5. PICK k \in [Conns -> Sessions] :
        /\ conn' = Released(k, services', hold', tr')
        /\ \A d \in Conns : Sane(k[d])
        /\ \A d \in Conns \ {c} : k[d] = conn[d]
        /\ k[c].link = conn[c].link
        /\ IF tr[t][i].state = "Begin" THEN k[c].txn = "idle" ELSE k[c] = conn[c]
    BY <1>4
<1>6. /\ tr' \in [Threads -> [Slots -> Transactions]]
      /\ \A j \in Slots : tr'[t][j] = NoTr
      /\ mine' \in [Threads -> SUBSET Writes] /\ mine'[t] \subseteq mine[t]
      /\ caught' \in [Threads -> BOOLEAN]
      /\ \A u \in Threads \ {t} : Same(u)
    <2>1. tr \in [Threads -> [Slots -> Transactions]] /\ NoTr \in Transactions
        BY <1>1, TypeParts DEF NoTr, Transactions
    <2>2. \A j \in Slots : j # i => tr[t][j] = NoTr
        BY <1>1 DEF Local, OneTransaction
    <2>3. /\ mine' \in [Threads -> SUBSET Writes] /\ mine'[t] \subseteq mine[t]
          /\ caught' \in [Threads -> BOOLEAN]
          /\ \A u \in Threads \ {t} : mine'[u] = mine[u] /\ caught'[u] = caught[u]
        BY <1>1, TypeParts
    <2>4. QED
        BY <1>1, <2>1, <2>2, <2>3 DEF Same
<1>7. Uses(t)' \subseteq Uses(t)
    BY <1>1, <1>6 DEF Uses, NoTr
<1>8. /\ conn' \in [Conns -> Sessions]
      /\ \A d \in Conns : Sane(conn'[d])
      /\ \A d \in Uses(t)' : conn'[d] = k[d]
      /\ \A u \in Threads \ {t} : \A d \in Uses(u) : conn'[d] = conn[d]
      /\ \A d \in Conns : conn'[d].txn # "idle" => conn'[d] = k[d]
    <2>1. \A u \in Threads \ {t} : \A d \in Uses(u) : k[d] = conn[d]
        BY <1>2, <1>5, OwnUses
    <2>2. QED
        BY <1>5, <1>6, <1>7, <2>1, ReleaseFacts
<1>9. TypeOK'
    BY <1>1, <1>6, <1>8 DEF TypeOK, Sessions, Transactions
<1>10. Local(t)'
    <2>1. \A j \in Slots : tr'[t][j] = NoTr /\ tr'[t][j].state = "Unknown"
        BY <1>6 DEF NoTr
    <2>2. OneTransaction(t)' /\ Outcome(t)' /\ Faithful(t)'
        BY <2>1 DEF OneTransaction, Outcome, Settled, Faithful
    <2>3. Control(t)'
        BY <1>1 DEF Local, Control
    <2>4. Opening(t)'
        <3>1. \A d \in Conns : k[d].link = conn[d].link
            BY <1>5
        <3>2. \A d \in Uses(t) : d \in Conns /\ conn[d].link # "none"
            BY <1>1, OwnUses DEF Local, Opening
        <3>3. \A d \in Uses(t)' : conn'[d].link # "none"
            BY <1>7, <1>8, <3>1, <3>2
        <3>4. QED
            BY <3>3 DEF Opening
    <2>5. QED
        BY <2>2, <2>3, <2>4 DEF Local
<1>11. ASSUME NEW d \in Conns, conn'[d].txn # "idle"
       PROVE  \/ \E u \in Threads \ {t}, j \in Slots : tr[u][j] = [conn |-> d, state |-> "Begin"]
              \/ conn'[d].left /\ conn'[d].writes \subseteq loose'
    <2>1. k[d].txn # "idle" /\ conn'[d] = k[d]
        BY <1>8, <1>11
    <2>2. conn[d].txn # "idle" /\ k[d] = conn[d] /\ (d = c => tr[t][i].state # "Begin")
        BY <1>2, <1>5, <2>1
    <2>3. ASSUME NEW j \in Slots, tr[t][j] = [conn |-> d, state |-> "Begin"]
          PROVE  FALSE
        <3>1. tr[t][j].state = "Begin" /\ tr[t][j].conn = d
            BY <2>3
        <3>2. j = i
            BY <1>1, <3>1, OwnUses DEF Local, OneTransaction
        <3>3. QED
            BY <2>2, <3>1, <3>2
    <2>4. QED
        BY <1>1, <2>1, <2>2, <2>3 DEF IInv, Owned
<1>12. /\ \A u \in Threads \ {t} : Uses(t)' \cap Uses(u) = {}
       /\ durable \subseteq durable' /\ durable' \subseteq spent' /\ spent \subseteq spent'
       /\ mine'[t] \subseteq spent'
       /\ \A u \in Threads \ {t} : mine'[t] \cap mine[u] = {}
       /\ \A u \in Threads \ {t} : mine[u] \cap durable' \subseteq durable
       /\ loose \subseteq loose' /\ loose' \subseteq spent'
       /\ \A u \in Threads : mine'[u] \cap loose' = {}
    <2>1. \A u \in Threads : mine'[u] \subseteq mine[u]
        BY <1>6 DEF Same
    <2>2. QED
        BY <1>1, <1>7, <2>1 DEF IInv, Apart, WrittenOnce
<1>13. QED
    BY <1>6, <1>8, <1>9, <1>10, <1>11, <1>12, ThreadStep

(* Nothing is sent for a Transaction that is assigned to; what the server  *)
(* has open for it is marked.                                              *)
LEMMA OverwrittenFacts ==
    ASSUME NEW k \in [Conns -> Sessions], \A d \in Conns : Sane(k[d]), NEW x \in Transactions,
           x.state = "Begin" => /\ x.conn \in Conns
                                /\ conn[x.conn].txn # "idle" => k[x.conn].txn # "idle"
    PROVE  /\ Overwritten(k, x) \in [Conns -> Sessions]
           /\ \A d \in Conns : /\ Sane(Overwritten(k, x)[d])
                               /\ Overwritten(k, x)[d].link = k[d].link
                               /\ Overwritten(k, x)[d].txn = k[d].txn
                               /\ Overwritten(k, x)[d].writes = k[d].writes
                               /\ k[d].left => Overwritten(k, x)[d].left
                               /\ d # x.conn \/ x.state # "Begin" => Overwritten(k, x)[d] = k[d]
           /\ x.state = "Begin" /\ conn[x.conn].txn # "idle" => Overwritten(k, x)[x.conn].left
<1>1. CASE ~(x.state = "Begin" /\ conn[x.conn].txn # "idle")
    <2>1. Overwritten(k, x) = k
        BY <1>1 DEF Overwritten
    <2>2. QED
        BY <1>1, <2>1
<1>2. CASE x.state = "Begin" /\ conn[x.conn].txn # "idle"
    <2> DEFINE o == [k[x.conn] EXCEPT !.left = TRUE]
    <2>1. x.conn \in Conns /\ k[x.conn] \in Sessions /\ Sane(k[x.conn]) /\ k[x.conn].txn # "idle"
        BY <1>2
    <2>2. /\ o \in Sessions /\ Sane(o) /\ o.left
          /\ o.link = k[x.conn].link /\ o.txn = k[x.conn].txn /\ o.writes = k[x.conn].writes
        BY <2>1 DEF Sessions, Sane
    <2>3. Overwritten(k, x) = [k EXCEPT ![x.conn] = o]
        BY <1>2 DEF Overwritten
    <2> HIDE DEF o
    <2>4. QED
        BY <1>2, <2>1, <2>2, <2>3
<1>3. QED
    BY <1>1, <1>2

(* The writes under a thread's only Transaction, and what the server keeps *)
(* for the thread beside them.                                             *)
LEMMA UncommittedFacts ==
    ASSUME IInv, NEW t \in Threads, NEW i \in Slots, \A j \in Slots : j # i => tr[t][j] = NoTr
    PROVE  /\ Uncommitted(t) \subseteq mine[t]
           /\ Uncommitted(t) \cap durable = {}
           /\ \A d \in Uses(t) : conn[d].writes \subseteq loose \cup Uncommitted(t)
           /\ tr[t][i].state # "Begin" => Uncommitted(t) = {}
<1>1. /\ Uncommitted(t) \subseteq mine[t] /\ Uncommitted(t) \cap durable = {}
      /\ \A j \in Slots : tr[t][j].state = "Begin" => j = i
    BY DEF Uncommitted, NoTr
<1>2. tr[t][i].state # "Begin" => Uncommitted(t) = {}
    BY <1>1 DEF Uncommitted
<1>3. ASSUME NEW d \in Uses(t)
      PROVE  conn[d].writes \subseteq loose \cup Uncommitted(t)
    <2>1. d \in Conns /\ conn[d] \in Sessions /\ Sane(conn[d])
        BY OwnUses, TypeParts DEF IInv
    <2>2. CASE conn[d].txn # "open"
        BY <2>1, <2>2 DEF Sane
    <2>3. CASE conn[d].txn = "open" /\ conn[d].left /\ conn[d].writes \subseteq loose
        BY <2>3
    <2>4. CASE conn[d].txn = "open" /\ \E j \in Slots : tr[t][j] = [conn |-> d, state |-> "Begin"]
        <3>1. tr[t][i].state = "Begin" /\ tr[t][i].conn = d
            BY <1>1, <2>4
        <3>2. conn[d].writes \subseteq mine[t] \cup loose /\ mine[t] \cap durable = {}
            BY <2>4, <3>1 DEF IInv, Local, Faithful
        <3>3. Uncommitted(t) = mine[t] \ durable
            BY <2>4, <3>1 DEF Uncommitted
        <3>4. QED
            BY <3>2, <3>3
    <2>5. QED
        BY <2>2, <2>3, <2>4, OwnTransaction
<1>4. QED
    BY <1>1, <1>2, <1>3

(* The only Transaction object of a thread, x, is assigned to or made, on  *)
(* sessions k that a BEGIN may have changed.                               *)
Replaces(t, i, y, k) ==
    /\ pc[t] = "work" /\ \A j \in Slots : j # i => tr[t][j] = NoTr
    /\ \/ y = NoTr
       \/ y.conn = hold[t] /\ hold[t] # None /\ y.state \in {"Init", "Begin"}
    /\ \A d \in Conns :
        /\ Sane(k[d]) /\ k[d].link = conn[d].link
        /\ k[d].writes = conn[d].writes /\ k[d].left = conn[d].left
        /\ IF y.state = "Begin" /\ d = hold[t] THEN k[d].txn = "open" ELSE k[d] = conn[d]
    /\ tr' = [tr EXCEPT ![t][i] = y]
    /\ conn' = Released(Overwritten(k, tr[t][i]), services, hold, tr')
    /\ loose' = loose \cup Uncommitted(t)
    /\ mine' = [mine EXCEPT ![t] = {}] /\ caught' = [caught EXCEPT ![t] = FALSE]
    /\ UNCHANGED <<services, pc, hold, rs, spent, durable>>

(* The server then keeps loose writes only of what was there.              *)
LEMMA ReplaceIInv ==
    ASSUME IInv, NEW t \in Threads, NEW i \in Slots, NEW y \in Transactions,
           NEW k \in [Conns -> Sessions], Replaces(t, i, y, k), RowsComplete'
    PROVE  IInv' /\ Others(t)
<1> DEFINE x == tr[t][i]
           o == Overwritten(k, x)
<1>1. Local(t) /\ TypeOK /\ x \in Transactions
    BY TypeParts DEF IInv
<1>2. /\ x # NoTr => x.conn \in Uses(t)
      /\ x.state = "Begin" => x.conn \in Uses(t)
      /\ Uses(t) \subseteq Conns
      /\ \A d \in Uses(t) : \A u \in Threads \ {t} : d \notin Uses(u)
      /\ hold[t] # None => hold[t] \in Uses(t)
    BY OwnUses
<1>k. \A d \in Conns :
        /\ Sane(k[d]) /\ k[d].link = conn[d].link
        /\ k[d].writes = conn[d].writes /\ k[d].left = conn[d].left
        /\ IF y.state = "Begin" /\ d = hold[t] THEN k[d].txn = "open" ELSE k[d] = conn[d]
    BY DEF Replaces
<1>s. /\ pc[t] = "work" /\ \A j \in Slots : j # i => tr[t][j] = NoTr
      /\ y = NoTr \/ (y.conn = hold[t] /\ hold[t] # None /\ y.state \in {"Init", "Begin"})
      /\ tr' = [tr EXCEPT ![t][i] = y]
      /\ loose' = loose \cup Uncommitted(t)
      /\ mine' = [mine EXCEPT ![t] = {}] /\ caught' = [caught EXCEPT ![t] = FALSE]
      /\ UNCHANGED <<services, pc, hold, rs, spent, durable>>
    BY DEF Replaces
<1>3. /\ o \in [Conns -> Sessions]
      /\ \A d \in Conns : /\ Sane(o[d]) /\ o[d].link = k[d].link /\ o[d].txn = k[d].txn
                          /\ o[d].writes = k[d].writes
                          /\ k[d].left => o[d].left
                          /\ d # x.conn \/ x.state # "Begin" => o[d] = k[d]
      /\ x.state = "Begin" /\ conn[x.conn].txn # "idle" => o[x.conn].left
    <2>1. x.state = "Begin" => /\ x.conn \in Conns
                               /\ conn[x.conn].txn # "idle" => k[x.conn].txn # "idle"
        BY <1>2, <1>k
    <2>2. \A d \in Conns : Sane(k[d])
        BY <1>k
    <2> HIDE DEF x
    <2>3. QED
        BY <1>1, <2>1, <2>2, OverwrittenFacts DEF x
<1>4. /\ tr' \in [Threads -> [Slots -> Transactions]]
      /\ tr'[t][i] = y /\ \A j \in Slots : j # i => tr'[t][j] = NoTr
      /\ mine' \in [Threads -> SUBSET Writes] /\ mine'[t] = {}
      /\ caught' \in [Threads -> BOOLEAN]
      /\ \A u \in Threads \ {t} : Same(u)
    BY <1>1, <1>s, TypeParts DEF Same
<1>5. NoTr.conn = None /\ NoTr.state = "Unknown"
    BY DEF NoTr
<1>6. Uses(t)' \subseteq Uses(t)
    <2>1. \A j \in Slots : tr'[t][j].conn \in {None, hold[t]}
        BY <1>4, <1>5, <1>s
    <2>2. QED
        BY <1>s, <2>1 DEF Uses
<1>7. \A u \in Threads \ {t} : \A d \in Uses(u) : o[d] = conn[d]
    <2>1. \A u \in Threads \ {t} : Uses(u) \subseteq Conns
        BY OwnUses
    <2>2. \A u \in Threads \ {t} : \A d \in Uses(u) : x.state = "Begin" => d # x.conn
        BY <1>2
    <2>3. \A u \in Threads \ {t} : \A d \in Uses(u) : d # hold[t] \/ hold[t] = None
        BY <1>2
    <2>4. \A u \in Threads : None \notin Uses(u)
        BY DEF Uses
    <2>5. QED
        BY <1>3, <1>k, <2>1, <2>2, <2>3, <2>4
<1> HIDE DEF o
<1>8. /\ conn' \in [Conns -> Sessions]
      /\ \A d \in Conns : Sane(conn'[d])
      /\ \A d \in Uses(t)' : conn'[d] = o[d]
      /\ \A u \in Threads \ {t} : \A d \in Uses(u) : conn'[d] = conn[d]
      /\ \A d \in Conns : conn'[d].txn # "idle" => conn'[d] = o[d]
    <2>1. conn' = Released(o, services', hold', tr')
        BY <1>s DEF Replaces, o
    <2>2. \A d \in Conns : Sane(o[d])
        BY <1>3
    <2>3. o \in [Conns -> Sessions]
        BY <1>3
    <2>4. \A u \in Threads \ {t} : Same(u) /\ \A d \in Uses(u) : o[d] = conn[d]
        BY <1>4, <1>7
    <2>5. QED
        BY <1>6, <2>1, <2>2, <2>3, <2>4, ReleaseFacts
<1>9. /\ Uncommitted(t) \subseteq mine[t]
      /\ \A d \in Uses(t) : conn[d].writes \subseteq loose'
    BY <1>s, UncommittedFacts
<1>10. mine[t] \subseteq spent /\ durable \subseteq spent /\ loose \subseteq spent /\ spent \subseteq Writes
    BY TypeParts DEF IInv, WrittenOnce
<1>11. TypeOK'
    <2>1. loose' \subseteq Writes
        BY <1>9, <1>10, <1>s
    <2>2. QED
        BY <1>1, <1>4, <1>8, <1>s, <2>1 DEF TypeOK, Sessions, Transactions
<1>12. Local(t)'
    <2>1. \A j \in Slots : tr'[t][j] # NoTr => j = i /\ tr'[t][j] = y
        BY <1>4
    <2>2. OneTransaction(t)'
        BY <1>1, <1>5, <1>s, <2>1 DEF OneTransaction
    <2>3. Control(t)'
        BY <1>1, <1>s DEF Local, Control
    <2>4. Opening(t)'
        <3>1. \A d \in Uses(t) : d \in Conns /\ conn[d].link # "none"
            BY <1>1, OwnUses DEF Local, Opening
        <3>2. \A d \in Uses(t)' : conn'[d].link # "none"
            BY <1>3, <1>6, <1>8, <1>k, <3>1
        <3>3. QED
            BY <3>2 DEF Opening
    <2>5. Faithful(t)'
        <3>1. SUFFICES ASSUME NEW j \in Slots, tr'[t][j].state = "Begin"
                       PROVE  /\ mine'[t] \subseteq conn'[tr'[t][j].conn].writes
                              /\ conn'[tr'[t][j].conn].writes \subseteq mine'[t] \cup loose'
                              /\ mine'[t] \cap durable' = {}
                              /\ conn'[tr'[t][j].conn].txn = "open"
            BY <1>4 DEF Faithful
        <3>2. tr'[t][j] = y /\ y.state = "Begin" /\ y.conn = hold[t] /\ hold[t] # None
            BY <1>4, <1>5, <1>s, <3>1
        <3>3. hold[t] \in Uses(t)' /\ hold[t] \in Uses(t) /\ hold[t] \in Conns
            BY <1>2, <1>s, <3>2 DEF Uses
        <3>4. conn'[hold[t]].txn = "open" /\ conn'[hold[t]].writes = conn[hold[t]].writes
            BY <1>3, <1>8, <1>k, <3>2, <3>3
        <3>5. QED
            BY <1>4, <1>9, <3>2, <3>3, <3>4
    <2>6. Outcome(t)'
        BY <1>4, <1>5, <1>s DEF Outcome, Settled
    <2>7. QED
        BY <2>2, <2>3, <2>4, <2>5, <2>6 DEF Local
<1>13. ASSUME NEW d \in Conns, conn'[d].txn # "idle"
       PROVE  \/ \E j \in Slots : tr'[t][j] = [conn |-> d, state |-> "Begin"]
              \/ \E u \in Threads \ {t}, j \in Slots : tr[u][j] = [conn |-> d, state |-> "Begin"]
              \/ conn'[d].left /\ conn'[d].writes \subseteq loose'
    <2>1. conn'[d] = o[d] /\ o[d].txn = k[d].txn
        BY <1>3, <1>8, <1>13
    <2>2. CASE y.state = "Begin" /\ d = hold[t]
        <3>1. y = [conn |-> d, state |-> "Begin"]
            BY <1>5, <1>s, <2>2 DEF Transactions
        <3>2. QED
            BY <1>4, <3>1
    <2>3. CASE ~(y.state = "Begin" /\ d = hold[t])
        <3>1. k[d] = conn[d] /\ conn[d].txn # "idle"
            BY <1>13, <1>k, <2>1, <2>3
        <3>2. CASE conn[d].left /\ conn[d].writes \subseteq loose
            BY <1>3, <1>s, <2>1, <3>1, <3>2
        <3>3. ASSUME NEW j \in Slots, tr[t][j] = [conn |-> d, state |-> "Begin"]
              PROVE  conn'[d].left /\ conn'[d].writes \subseteq loose'
            <4>1. j = i /\ x.state = "Begin" /\ x.conn = d
                BY <1>5, <1>s, <3>3
            <4>2. o[d].left /\ o[d].writes = conn[d].writes
                BY <1>3, <3>1, <4>1
            <4>3. QED
                BY <1>2, <1>9, <2>1, <4>1, <4>2
        <3>4. QED
            BY <3>1, <3>2, <3>3, OwnedBy
    <2>4. QED
        BY <2>2, <2>3
<1>14. /\ \A u \in Threads \ {t} : Uses(t)' \cap Uses(u) = {}
       /\ durable \subseteq durable' /\ durable' \subseteq spent' /\ spent \subseteq spent'
       /\ mine'[t] \subseteq spent'
       /\ \A u \in Threads \ {t} : mine'[t] \cap mine[u] = {}
       /\ \A u \in Threads \ {t} : mine[u] \cap durable' \subseteq durable
       /\ loose \subseteq loose' /\ loose' \subseteq spent'
       /\ \A u \in Threads : mine'[u] \cap loose' = {}
    <2>1. \A u \in Threads \ {t} : /\ mine'[u] = mine[u] /\ mine[u] \cap loose = {}
                                   /\ mine[u] \cap mine[t] = {}
        BY <1>4 DEF IInv, WrittenOnce, Same
    <2>2. \A u \in Threads : mine'[u] \cap loose' = {}
        BY <1>4, <1>9, <1>s, <2>1
    <2>3. \A u \in Threads \ {t} : Uses(t)' \cap Uses(u) = {}
        BY <1>6 DEF IInv, Apart
    <2>4. QED
        BY <1>4, <1>9, <1>10, <1>s, <2>2, <2>3
<1>15. QED
    BY <1>4, <1>8, <1>11, <1>12, <1>13, <1>14, ThreadStep

(* A Transaction object is moved to an empty one, or a live one is         *)
(* assigned an empty one or itself.                                        *)
LEMMA MoveCases ==
    ASSUME IInv, NEW t \in Threads, NEW i \in Slots, NEW j \in Slots, Move(t, i, j)
    PROVE  /\ pc[t] = "work" /\ UNCHANGED <<services, pc, hold, rs, spent, durable>>
           /\ \/ /\ i # j /\ tr[t][i] # NoTr /\ \A x \in Slots : x # i => tr[t][x] = NoTr
                 /\ tr' = [tr EXCEPT ![t] = Moved(tr[t], i, j)]
                 /\ tr'[t][j] = tr[t][i] /\ \A x \in Slots : x # j => tr'[t][x] = NoTr
                 /\ conn' = Released(conn, services', hold', tr')
                 /\ UNCHANGED <<mine, caught, loose>>
              \/ Replaces(t, j, NoTr, conn)
<1>1. /\ pc[t] = "work" /\ UNCHANGED <<services, pc, hold, rs, spent, durable>>
      /\ tr[t][i] # NoTr \/ tr[t][j] # NoTr
      /\ tr' = [tr EXCEPT ![t] = Moved(tr[t], i, j)]
      /\ conn' = Released(Overwritten(conn, tr[t][j]), services, hold, tr')
      /\ loose' = IF tr[t][j] # NoTr THEN loose \cup Uncommitted(t) ELSE loose
      /\ mine' = IF tr'[t] = NoTrs THEN [mine EXCEPT ![t] = {}] ELSE mine
      /\ caught' = IF tr'[t] = NoTrs THEN [caught EXCEPT ![t] = FALSE] ELSE caught
    BY DEF Move, Forget
<1>2. tr \in [Threads -> [Slots -> Transactions]] /\ OneTransaction(t)
    BY TypeParts DEF IInv, Local
<1>3. tr'[t] = Moved(tr[t], i, j)
    BY <1>1, <1>2
<1>4. CASE tr[t][j] = NoTr
    <2>1. i # j /\ tr[t][i] # NoTr /\ \A x \in Slots : x # i => tr[t][x] = NoTr
        BY <1>1, <1>2, <1>4 DEF OneTransaction
    <2>2. tr'[t][j] = tr[t][i] /\ \A x \in Slots : x # j => tr'[t][x] = NoTr
        BY <1>2, <1>3, <2>1 DEF Moved
    <2>3. tr'[t] # NoTrs
        BY <2>1, <2>2 DEF NoTrs
    <2>4. Overwritten(conn, tr[t][j]) = conn
        BY <1>4 DEF Overwritten, NoTr
    <2>5. QED
        BY <1>1, <1>4, <2>1, <2>2, <2>3, <2>4
<1>5. CASE tr[t][j] # NoTr
    <2>1. \A x \in Slots : x # j => tr[t][x] = NoTr
        BY <1>2, <1>5 DEF OneTransaction
    <2>2. Moved(tr[t], i, j) = [tr[t] EXCEPT ![j] = NoTr]
        <3>1. \A x \in Slots : Moved(tr[t], i, j)[x] = NoTr /\ [tr[t] EXCEPT ![j] = NoTr][x] = NoTr
            BY <1>2, <2>1 DEF Moved
        <3>2. Moved(tr[t], i, j) = [x \in Slots |-> Moved(tr[t], i, j)[x]]
            BY <1>2 DEF Moved
        <3>3. [tr[t] EXCEPT ![j] = NoTr] = [x \in Slots |-> [tr[t] EXCEPT ![j] = NoTr][x]]
            BY <1>2
        <3>4. QED
            BY <3>1, <3>2, <3>3
    <2>3. tr' = [tr EXCEPT ![t][j] = NoTr]
        BY <1>1, <1>2, <2>2
    <2>4. tr'[t] = NoTrs
        <3>1. tr'[t] = [x \in Slots |-> NoTr]
            BY <1>2, <1>3, <2>1, <2>2
        <3>2. QED
            BY <3>1 DEF NoTrs
    <2>5. NoTr.state # "Begin" /\ \A d \in Conns : Sane(conn[d])
        BY DEF NoTr, IInv
    <2>6. Replaces(t, j, NoTr, conn)
        BY <1>1, <1>5, <2>1, <2>3, <2>4, <2>5 DEF Replaces
    <2>7. QED
        BY <1>1, <2>6
<1>6. QED
    BY <1>4, <1>5

(* A move keeps the invariant.                                             *)
LEMMA MoveIInv ==
    ASSUME IInv, NEW t \in Threads, NEW i \in Slots, NEW j \in Slots, Move(t, i, j), RowsComplete'
    PROVE  IInv' /\ Others(t)
<1>1. Local(t) /\ TypeOK /\ pc[t] = "work" /\ UNCHANGED <<services, pc, hold, rs, spent, durable>>
    BY MoveCases DEF IInv
<1>2. tr \in [Threads -> [Slots -> Transactions]] /\ NoTr \in Transactions
      /\ conn \in [Conns -> Sessions] /\ \A d \in Conns : Sane(conn[d])
    BY <1>1, TypeParts DEF NoTr, Transactions, IInv
<1>3. NoTr.state = "Unknown" /\ NoTr.conn = None
    BY DEF NoTr
<1>4. CASE Replaces(t, j, NoTr, conn)
    BY <1>2, <1>4, ReplaceIInv
<1>5. CASE /\ i # j /\ tr[t][i] # NoTr /\ \A x \in Slots : x # i => tr[t][x] = NoTr
           /\ tr' = [tr EXCEPT ![t] = Moved(tr[t], i, j)]
           /\ tr'[t][j] = tr[t][i] /\ \A x \in Slots : x # j => tr'[t][x] = NoTr
           /\ conn' = Released(conn, services', hold', tr')
           /\ UNCHANGED <<mine, caught, loose>>
    <2>1. /\ tr' \in [Threads -> [Slots -> Transactions]]
          /\ \A u \in Threads \ {t} : Same(u)
        <3>1. Moved(tr[t], i, j) \in [Slots -> Transactions]
            BY <1>2 DEF Moved
        <3>2. QED
            BY <1>1, <1>2, <1>5, <3>1 DEF Same
    <2>2. Uses(t)' = Uses(t)
        <3>1. {tr'[t][x].conn : x \in Slots} \ {None} = {tr[t][x].conn : x \in Slots} \ {None}
            BY <1>3, <1>5
        <3>2. QED
            BY <1>1, <3>1 DEF Uses
    <2>3. /\ conn' \in [Conns -> Sessions]
          /\ \A d \in Conns : Sane(conn'[d])
          /\ \A d \in Uses(t) : conn'[d] = conn[d]
          /\ \A u \in Threads \ {t} : \A d \in Uses(u) : conn'[d] = conn[d]
          /\ \A d \in Conns : conn'[d].txn # "idle" => conn'[d] = conn[d]
        <3>1. conn' = Released(conn, services', hold', tr')
            BY <1>5
        <3>2. conn \in [Conns -> Sessions] /\ \A d \in Conns : Sane(conn[d])
            BY <1>2
        <3>3. \A u \in Threads \ {t} : Same(u) /\ \A d \in Uses(u) : conn[d] = conn[d]
            BY <2>1
        <3>4. Uses(t)' \subseteq Uses(t)
            BY <2>2
        <3>5. QED
            BY <2>2, <3>1, <3>2, <3>3, <3>4, ReleaseFacts
    <2>4. TypeOK'
        BY <1>1, <1>5, <2>1, <2>3 DEF TypeOK, Transactions, Sessions
    <2>5. Local(t)'
        <3>1. OneTransaction(t)'
            BY <1>1, <1>5 DEF Local, OneTransaction
        <3>2. Control(t)' /\ Opening(t)'
            BY <1>1, <2>2, <2>3 DEF Local, Control, Opening
        <3>3. tr[t][i].conn \in Uses(t)
            BY <1>5, OwnUses
        <3>4. Faithful(t)'
            <4>1. Faithful(t) /\ conn'[tr'[t][j].conn] = conn[tr[t][i].conn] /\ tr'[t][j] = tr[t][i]
                BY <1>1, <1>5, <2>3, <3>3 DEF Local
            <4>2. \A x \in Slots : x # j => tr'[t][x].state = "Unknown"
                BY <1>3, <1>5
            <4>3. mine'[t] = mine[t] /\ caught'[t] = caught[t] /\ pc'[t] = pc[t]
                  /\ UNCHANGED <<durable, loose>>
                BY <1>1, <1>5
            <4>4. QED
                BY <4>1, <4>2, <4>3 DEF Faithful
        <3>5. Outcome(t)'
            BY <1>1, <1>3, <1>5 DEF Local, Outcome, Settled
        <3>6. QED
            BY <3>1, <3>2, <3>4, <3>5 DEF Local
    <2>6. \A d \in Conns : conn'[d].txn # "idle" =>
            \/ \E x \in Slots : tr'[t][x] = [conn |-> d, state |-> "Begin"]
            \/ \E u \in Threads \ {t}, x \in Slots : tr[u][x] = [conn |-> d, state |-> "Begin"]
            \/ conn'[d].left /\ conn'[d].writes \subseteq loose'
        <3>1. \A d : NoTr # [conn |-> d, state |-> "Begin"]
            BY <1>3
        <3>2. SUFFICES ASSUME NEW d \in Conns, conn'[d].txn # "idle"
                       PROVE  \/ \E x \in Slots : tr'[t][x] = [conn |-> d, state |-> "Begin"]
                              \/ \E u \in Threads \ {t}, x \in Slots : tr[u][x] = [conn |-> d, state |-> "Begin"]
                              \/ conn'[d].left /\ conn'[d].writes \subseteq loose'
            OBVIOUS
        <3>3. conn'[d] = conn[d] /\ conn[d].txn # "idle"
            BY <2>3, <3>2
        <3>4. (\E x \in Slots : tr[t][x] = [conn |-> d, state |-> "Begin"])
                => tr'[t][j] = [conn |-> d, state |-> "Begin"]
            BY <1>5, <3>1
        <3>5. loose' = loose
            BY <1>5
        <3>6. QED
            BY <3>3, <3>4, <3>5, OwnedBy
    <2>7. /\ \A u \in Threads \ {t} : Uses(t)' \cap Uses(u) = {}
          /\ durable \subseteq durable' /\ durable' \subseteq spent' /\ spent \subseteq spent'
          /\ mine'[t] \subseteq spent'
          /\ \A u \in Threads \ {t} : mine'[t] \cap mine[u] = {}
          /\ \A u \in Threads \ {t} : mine[u] \cap durable' \subseteq durable
          /\ loose \subseteq loose' /\ loose' \subseteq spent'
          /\ \A u \in Threads : mine'[u] \cap loose' = {}
        BY <1>1, <1>5, <2>2 DEF IInv, Apart, WrittenOnce
    <2>8. QED
        BY <2>1, <2>3, <2>4, <2>5, <2>6, <2>7, ThreadStep
<1>6. QED
    BY <1>4, <1>5, MoveCases

(* The constructor throws, or makes a Transaction in place of what was     *)
(* there.                                                                  *)
LEMMA ConstructCases ==
    ASSUME IInv, NEW t \in Threads, NEW i \in Slots, NEW open \in BOOLEAN, Construct(t, i, open)
    PROVE  /\ pc[t] = "work" /\ hold[t] # None /\ \A j \in Slots : j # i => tr[t][j] = NoTr
           /\ UNCHANGED <<services, hold, rs, spent, durable>>
           /\ \/ UNCHANGED <<conn, tr, mine, loose>> /\ Throw(t)
              \/ \E y \in Transactions, k \in [Conns -> Sessions] : Replaces(t, i, y, k)
<1> DEFINE c == hold[t]
           y == [conn |-> c, state |-> IF open THEN "Begin" ELSE "Init"]
           k(r) == [conn EXCEPT ![c] = r.conn]
<1>1. /\ pc[t] = "work" /\ c # None /\ \A j \in Slots : j # i => tr[t][j] = NoTr
      /\ UNCHANGED <<services, hold, rs, spent, durable>>
    BY DEF Construct
<1>2. PICK r \in Constructing(conn[c], open) :
        IF r.ok
        THEN /\ tr' = [tr EXCEPT ![t][i] = y]
             /\ conn' = Released(Overwritten(k(r), tr[t][i]), services, hold, tr')
             /\ loose' = loose \cup Uncommitted(t)
             /\ mine' = [mine EXCEPT ![t] = {}] /\ caught' = [caught EXCEPT ![t] = FALSE]
             /\ UNCHANGED pc
        ELSE /\ conn' = k(r)
             /\ Throw(t)
             /\ UNCHANGED <<tr, mine, loose>>
    BY DEF Construct, Forget
<1>3. c \in Uses(t) /\ c \in Conns
    BY <1>1, OwnUses
<1>4. conn \in [Conns -> Sessions] /\ conn[c] \in Sessions /\ \A d \in Conns : Sane(conn[d])
    BY <1>3, TypeParts DEF IInv
<1>5. /\ r.ok \in BOOLEAN
      /\ r.ok => r.conn = IF open THEN [conn[c] EXCEPT !.txn = "open"] ELSE conn[c]
      /\ r.ok /\ open => conn[c].link = "up"
      /\ ~r.ok => r.conn = conn[c]
    <2>1. CASE open
        <3>1. r \in ExecuteDirect(conn[c], "BEGIN")
            BY <2>1 DEF Constructing
        <3>2. QED
            BY <1>3, <1>4, <2>1, <3>1, DirectFacts
    <2>2. CASE ~open
        <3>1. r = Result(TRUE, Reply("COMMAND_OK", conn[c], {}))
            BY <2>2 DEF Constructing
        <3>2. r.ok = TRUE /\ r.conn = conn[c]
            BY <3>1 DEF Result, Reply
        <3>3. QED
            BY <2>2, <3>2
    <2>3. QED
        BY <2>1, <2>2
<1>6. CASE ~r.ok
    <2>1. k(r) = conn
        BY <1>4, <1>5, <1>6
    <2>2. UNCHANGED <<conn, tr, mine, loose>> /\ Throw(t)
        BY <1>2, <1>6, <2>1
    <2>3. QED
        BY <1>1, <2>2
<1>7. CASE r.ok
    <2>1. y \in Transactions /\ y.conn = c /\ y.state \in {"Init", "Begin"} /\ (y.state = "Begin" <=> open)
        BY <1>3 DEF Transactions
    <2>2. /\ r.conn \in Sessions /\ Sane(r.conn) /\ r.conn.link = conn[c].link
          /\ r.conn.writes = conn[c].writes /\ r.conn.left = conn[c].left
          /\ IF open THEN r.conn.txn = "open" ELSE r.conn = conn[c]
        <3>1. CASE open
            <4>1. [conn[c] EXCEPT !.txn = "open"] \in Sessions /\ Sane([conn[c] EXCEPT !.txn = "open"])
                BY <1>3, <1>4, <1>5, <1>7, <3>1, SaneSessions
            <4>2. QED
                BY <1>4, <1>5, <1>7, <3>1, <4>1 DEF Sessions
        <3>2. CASE ~open
            BY <1>3, <1>4, <1>5, <1>7, <3>2
        <3>3. QED
            BY <3>1, <3>2
    <2>3. /\ k(r) \in [Conns -> Sessions] /\ k(r)[c] = r.conn
          /\ \A d \in Conns : d # c => k(r)[d] = conn[d]
        BY <1>3, <1>4, <2>2
    <2>4. \A d \in Conns :
            /\ Sane(k(r)[d]) /\ k(r)[d].link = conn[d].link
            /\ k(r)[d].writes = conn[d].writes /\ k(r)[d].left = conn[d].left
            /\ IF y.state = "Begin" /\ d = c THEN k(r)[d].txn = "open" ELSE k(r)[d] = conn[d]
        BY <1>4, <2>1, <2>2, <2>3
    <2> HIDE DEF y, k
    <2>5. Replaces(t, i, y, k(r))
        BY <1>1, <1>2, <1>7, <2>1, <2>4 DEF Replaces
    <2>6. QED
        BY <1>1, <2>1, <2>3, <2>5
<1>8. QED
    BY <1>5, <1>6, <1>7

(* The constructor keeps the invariant.                                    *)
LEMMA ConstructIInv ==
    ASSUME IInv, NEW t \in Threads, NEW i \in Slots, NEW open \in BOOLEAN, Construct(t, i, open),
           RowsComplete'
    PROVE  IInv' /\ Others(t)
<1>1. /\ pc[t] = "work" /\ hold[t] # None /\ \A j \in Slots : j # i => tr[t][j] = NoTr
      /\ UNCHANGED <<services, hold, rs, spent, durable>> /\ Local(t) /\ TypeOK
    BY ConstructCases DEF IInv
<1>2. CASE UNCHANGED <<conn, tr, mine, loose>> /\ Throw(t)
    <2>1. /\ pc' \in [Threads -> Labels] /\ caught' \in [Threads -> BOOLEAN]
          /\ \A u \in Threads \ {t} : pc'[u] = pc[u] /\ caught'[u] = caught[u]
          /\ caught[t] => caught'[t]
          /\ pc'[t] \in {"unwind", "work"}
        BY <1>1, <1>2, ThrowFacts
    <2>2. TypeOK'
        BY <1>1, <1>2, <2>1 DEF TypeOK, Labels
    <2>3. (\A u \in Threads \ {t} : Same(u)) /\ Uses(t)' = Uses(t)
        BY <1>1, <1>2, <2>1 DEF Same, Uses
    <2>4. Control(t)'
        <3>1. hold'[t] = services'[t] /\ hold'[t] # None
            BY <1>1 DEF Local, Control
        <3>2. pc'[t] \notin {"idle", "create", "emplace"}
            BY <2>1
        <3>3. QED
            BY <3>1, <3>2 DEF Control
    <2>5. QED
        BY <1>1, <1>2, <2>1, <2>2, <2>3, <2>4, QuietStep
<1>3. ASSUME NEW y \in Transactions, NEW k \in [Conns -> Sessions], Replaces(t, i, y, k)
      PROVE  IInv' /\ Others(t)
    BY <1>3, ReplaceIInv
<1>4. QED
    BY <1>2, <1>3, ConstructCases

(* A command of the Transaction i of t leaves the session k and the state s. *)
DirectStep(t, i, k, saved, s) ==
    /\ Sane(k) /\ k.link # "none"
    /\ conn' = [conn EXCEPT ![tr[t][i].conn] = k]
    /\ durable' = durable \cup saved
    /\ tr' = [tr EXCEPT ![t][i].state = s]
    /\ saved # {} => conn[tr[t][i].conn].txn = "open" /\ mine[t] \subseteq saved
    /\ \/ /\ tr[t][i].state = "Init" /\ mine[t] = {} /\ saved = {}
          /\ \/ s = "Begin" /\ k.txn = "open" /\ k.writes \subseteq loose /\ UNCHANGED <<pc, caught>>
             \/ s = "Init" /\ k = conn[tr[t][i].conn] /\ Throw(t)
       \/ /\ tr[t][i].state = "Begin" /\ k.txn = "idle"
          /\ \/ /\ s = "Commit" /\ UNCHANGED <<pc, caught>> /\ conn[tr[t][i].conn].link = "up"
                /\ conn[tr[t][i].conn].txn = "open" => mine[t] \subseteq saved
             \/ /\ s = "Rollback" /\ UNCHANGED <<pc, caught>> /\ conn[tr[t][i].conn].link = "up"
                /\ saved = {}
             \/ s = "Begin" /\ Throw(t)

(* What Begin, Commit and Rollback do: BEGIN opens a transaction that has  *)
(* loose writes at most; after COMMIT and ROLLBACK nothing is open, and    *)
(* COMMIT saves all of what was written or nothing; in a wrong state the   *)
(* call throws.                                                            *)
LEMMA DirectCases ==
    ASSUME IInv, NEW t \in Threads, NEW i \in Slots, NEW query \in {"BEGIN", "COMMIT", "ROLLBACK"},
           Direct(t, i, query)
    PROVE  \/ UNCHANGED <<conn, tr, durable, loose>> /\ Throw(t)
           \/ \E k \in Sessions, saved \in SUBSET (mine[t] \cup loose), s \in {"Init", "Begin", "Commit", "Rollback"} :
                DirectStep(t, i, k, saved, s)
<1> DEFINE c == tr[t][i].conn
           Wanted == IF query = "BEGIN" THEN "Init" ELSE "Begin"
<1>1. CASE tr[t][i].state # Wanted
    BY <1>1 DEF Direct
<1>2. CASE tr[t][i].state = Wanted
    <2>1. c # None /\ Local(t) /\ TypeOK
        BY DEF Direct, IInv
    <2>2. PICK r \in ExecuteDirect(conn[c], query) :
            /\ conn' = [conn EXCEPT ![c] = r.conn]
            /\ durable' = durable \cup r.saved
            /\ tr' = [tr EXCEPT ![t][i].state = After(@, r.ok, NextState[query])]
            /\ IF r.ok THEN UNCHANGED <<pc, caught>> ELSE Throw(t)
        BY <1>2 DEF Direct
    <2>3. tr[t][i] # NoTr /\ c \in Uses(t) /\ c \in Conns
        BY <1>2, OwnUses
    <2>4. conn[c] \in Sessions /\ Sane(conn[c]) /\ conn[c].link # "none"
        BY <2>1, <2>3, TypeParts DEF IInv, Local, Opening
    <2>5. /\ r.ok \in BOOLEAN
          /\ r.ok => conn[c].link = "up"
          /\ query = "BEGIN" => /\ r.saved = {}
                                /\ r.ok => r.conn = [conn[c] EXCEPT !.txn = "open"]
                                /\ ~r.ok => r.conn = conn[c]
          /\ query = "ROLLBACK" => r.saved = {} /\ r.conn = Ended(conn[c])
          /\ query = "COMMIT" =>
                /\ r.conn \in {Ended(conn[c]), Broken(conn[c])}
                /\ r.saved \in {{}, conn[c].writes}
                /\ r.saved # {} => conn[c].txn = "open"
                /\ r.ok /\ conn[c].txn = "open" => r.saved = conn[c].writes
        BY <2>4, DirectFacts
    <2>6. /\ Ended(conn[c]) \in Sessions /\ Sane(Ended(conn[c]))
          /\ Ended(conn[c]).txn = "idle" /\ Ended(conn[c]).link = conn[c].link
          /\ Broken(conn[c]) \in Sessions /\ Sane(Broken(conn[c]))
          /\ Broken(conn[c]).txn = "idle" /\ Broken(conn[c]).link = "lost"
          /\ conn[c].link = "up" => /\ [conn[c] EXCEPT !.txn = "open"] \in Sessions
                                    /\ Sane([conn[c] EXCEPT !.txn = "open"])
        BY <2>4, SaneSessions
    <2>7. tr' = [tr EXCEPT ![t][i].state = IF r.ok THEN NextState[query] ELSE tr[t][i].state]
        BY <2>1, <2>2, TypeParts DEF After
    <2>8. NextState["BEGIN"] = "Begin" /\ NextState["COMMIT"] = "Commit" /\ NextState["ROLLBACK"] = "Rollback"
        BY DEF NextState
    <2>9. CASE query = "BEGIN"
        <3>1. tr[t][i].state = "Init" /\ mine[t] = {}
            BY <1>2, <2>1, <2>9 DEF Local, Faithful
        <3>2. conn[c].writes \subseteq loose
            <4>1. \A x \in Slots : x # i => tr[t][x] = NoTr
                BY <2>1, <2>3 DEF Local, OneTransaction
            <4>2. Uncommitted(t) = {} /\ conn[c].writes \subseteq loose \cup Uncommitted(t)
                BY <2>3, <3>1, <4>1, UncommittedFacts
            <4>3. QED
                BY <4>2
        <3>3. r.saved = {} /\ {} \in SUBSET (mine[t] \cup loose) /\ durable' = durable \cup {}
            BY <2>2, <2>5, <2>9
        <3>4. CASE r.ok
            <4>1. r.conn \in Sessions /\ Sane(r.conn) /\ r.conn = [conn[c] EXCEPT !.txn = "open"]
                BY <2>5, <2>6, <2>9, <3>4
            <4>2. r.conn.link # "none" /\ r.conn.txn = "open" /\ r.conn.writes \subseteq loose
                BY <2>4, <3>2, <4>1 DEF Sessions
            <4>3. tr' = [tr EXCEPT ![t][i].state = "Begin"]
                BY <2>7, <2>8, <2>9, <3>4
            <4>4. UNCHANGED <<pc, caught>>
                BY <2>2, <3>4
            <4>5. QED
                BY <2>2, <3>1, <3>3, <4>1, <4>2, <4>3, <4>4 DEF DirectStep
        <3>5. CASE ~r.ok
            <4>1. r.conn = conn[c]
                BY <2>5, <2>9, <3>5
            <4>2. tr' = [tr EXCEPT ![t][i].state = "Init"]
                BY <2>7, <3>1, <3>5
            <4>3. Throw(t)
                BY <2>2, <3>5
            <4>4. QED
                BY <2>2, <2>4, <3>1, <3>3, <4>1, <4>2, <4>3 DEF DirectStep
        <3>6. QED
            BY <2>5, <3>4, <3>5
    <2>10. CASE query # "BEGIN"
        <3>1. tr[t][i].state = "Begin"
            BY <1>2, <2>10
        <3>2. r.conn \in Sessions /\ Sane(r.conn) /\ r.conn.txn = "idle" /\ r.conn.link # "none"
            BY <2>4, <2>5, <2>6, <2>10
        <3>3. /\ r.saved \in SUBSET (mine[t] \cup loose)
              /\ r.saved # {} => conn[c].txn = "open" /\ mine[t] \subseteq r.saved
              /\ query = "COMMIT" /\ r.ok /\ conn[c].txn = "open" => mine[t] \subseteq r.saved
            <4>1. conn[c].txn = "open" => /\ mine[t] \subseteq conn[c].writes
                                         /\ conn[c].writes \subseteq mine[t] \cup loose
                BY <2>1, <3>1 DEF Local, Faithful
            <4>2. QED
                BY <2>5, <2>10, <4>1
        <3>4. CASE r.ok /\ query = "COMMIT"
            <4>1. tr' = [tr EXCEPT ![t][i].state = "Commit"]
                BY <2>7, <2>8, <3>4
            <4>2. UNCHANGED <<pc, caught>> /\ conn[c].link = "up"
                BY <2>2, <2>5, <3>4
            <4>3. QED
                BY <2>2, <3>1, <3>2, <3>3, <3>4, <4>1, <4>2 DEF DirectStep
        <3>5. CASE r.ok /\ query = "ROLLBACK"
            <4>1. tr' = [tr EXCEPT ![t][i].state = "Rollback"]
                BY <2>7, <2>8, <3>5
            <4>2. UNCHANGED <<pc, caught>> /\ conn[c].link = "up" /\ r.saved = {}
                BY <2>2, <2>5, <3>5
            <4>3. QED
                BY <2>2, <3>1, <3>2, <3>3, <4>1, <4>2 DEF DirectStep
        <3>6. CASE ~r.ok
            <4>1. tr' = [tr EXCEPT ![t][i].state = "Begin"]
                BY <2>7, <3>1, <3>6
            <4>2. Throw(t)
                BY <2>2, <3>6
            <4>3. QED
                BY <2>2, <3>1, <3>2, <3>3, <4>1, <4>2 DEF DirectStep
        <3>7. QED
            BY <2>5, <2>10, <3>4, <3>5, <3>6
    <2>11. QED
        BY <2>9, <2>10
<1>3. QED
    BY <1>1, <1>2

(* Begin, Commit and Rollback keep the invariant.                          *)
LEMMA DirectIInv ==
    ASSUME IInv, NEW t \in Threads, NEW i \in Slots, NEW query \in {"BEGIN", "COMMIT", "ROLLBACK"},
           Direct(t, i, query), RowsComplete'
    PROVE  IInv' /\ Others(t)
<1> DEFINE c == tr[t][i].conn
<1>1. /\ pc[t] = "work" /\ c # None /\ Local(t) /\ TypeOK
      /\ UNCHANGED <<services, hold, mine, rs, spent, loose>>
    BY DEF Direct, IInv
<1>2. tr[t][i] # NoTr
    BY <1>1 DEF NoTr
<1>3. c \in Uses(t) /\ c \in Conns /\ \A u \in Threads \ {t} : c \notin Uses(u)
    BY <1>2, OwnUses
<1>4. /\ pc' \in [Threads -> Labels] /\ caught' \in [Threads -> BOOLEAN]
      /\ \A u \in Threads \ {t} : pc'[u] = pc[u] /\ caught'[u] = caught[u]
      /\ caught[t] => caught'[t]
      /\ pc'[t] \in {"work", "unwind"}
      /\ Throw(t) => caught'[t] \/ pc'[t] = "unwind"
      /\ tr[t] # NoTrs
    <2>1. Throw(t) \/ UNCHANGED <<pc, caught>>
        BY DirectCases DEF DirectStep
    <2>2. tr[t] # NoTrs
        BY <1>2 DEF NoTrs
    <2>3. QED
        BY <1>1, <2>1, <2>2, ThrowFacts, TypeParts
<1>5. CASE UNCHANGED <<conn, tr, durable, loose>>
    <2>1. TypeOK'
        BY <1>1, <1>4, <1>5 DEF TypeOK, Labels
    <2>2. (\A u \in Threads \ {t} : Same(u)) /\ Uses(t)' = Uses(t)
        BY <1>1, <1>4, <1>5 DEF Same, Uses
    <2>3. Control(t)'
        BY <1>1, <1>4, <1>5 DEF Local, Control
    <2>4. QED
        BY <1>1, <1>4, <1>5, <2>1, <2>2, <2>3, QuietStep
<1>6. ASSUME NEW k \in Sessions, NEW saved \in SUBSET (mine[t] \cup loose),
             NEW s \in {"Init", "Begin", "Commit", "Rollback"},
             DirectStep(t, i, k, saved, s)
      PROVE  IInv' /\ Others(t)
    <2> USE DEF DirectStep
    <2>1. /\ conn' \in [Conns -> Sessions]
          /\ \A d \in Conns : Sane(conn'[d])
          /\ conn'[c] = k
          /\ \A d \in Conns \ {c} : conn'[d] = conn[d]
          /\ \A u \in Threads \ {t} : \A d \in Uses(u) : conn'[d] = conn[d]
        BY <1>3, <1>6, Touch
    <2>2. /\ tr' \in [Threads -> [Slots -> Transactions]]
          /\ tr'[t][i] = [conn |-> c, state |-> s]
          /\ \A x \in Slots : x # i => tr'[t][x] = tr[t][x]
          /\ \A u \in Threads \ {t} : Same(u)
        <3>1. tr \in [Threads -> [Slots -> Transactions]]
            BY <1>1, TypeParts
        <3>2. [tr[t][i] EXCEPT !.state = s] = [conn |-> c, state |-> s]
            BY <3>1 DEF Transactions
        <3>3. [conn |-> c, state |-> s] \in Transactions
            BY <1>3 DEF Transactions
        <3>4. tr' = [tr EXCEPT ![t] = [tr[t] EXCEPT ![i] = [conn |-> c, state |-> s]]]
            BY <1>6, <3>1, <3>2
        <3>5. QED
            BY <1>1, <1>4, <3>1, <3>3, <3>4 DEF Same
    <2>3. \A x \in Slots : x # i => tr'[t][x] = NoTr /\ tr'[t][x].state = "Unknown"
        <3>1. \A x \in Slots : x # i => tr[t][x] = NoTr
            BY <1>1, <1>2 DEF Local, OneTransaction
        <3>2. QED
            BY <2>2, <3>1 DEF NoTr
    <2>4. Uses(t)' = Uses(t)
        <3>1. \A x \in Slots : tr'[t][x].conn = tr[t][x].conn
            BY <2>2
        <3>2. QED
            BY <1>1, <3>1 DEF Uses
    <2>5. mine[t] \subseteq spent /\ durable \subseteq spent /\ spent \subseteq Writes /\ loose \subseteq spent
        BY TypeParts DEF IInv, WrittenOnce
    <2>6. TypeOK'
        <3>1. durable' \subseteq Writes
            BY <1>6, <2>5
        <3>2. QED
            BY <1>1, <1>4, <2>1, <2>2, <3>1 DEF TypeOK, Sessions, Transactions, Labels
    <2>7. Local(t)'
        <3>1. Control(t)'
            BY <1>1, <1>4 DEF Local, Control
        <3>2. OneTransaction(t)'
            BY <1>1, <1>6, <2>2, <2>3 DEF OneTransaction
        <3>3. Opening(t)'
            <4>1. \A d \in Uses(t) : d \in Conns /\ conn[d].link # "none"
                BY <1>1, OwnUses DEF Local, Opening
            <4>2. QED
                BY <1>6, <2>1, <2>4, <4>1 DEF Opening
        <3>4. \A x \in Slots : tr'[t][x].state # "Unknown" => x = i /\ tr'[t][x].state = s /\ tr'[t][x].conn = c
            BY <2>2, <2>3
        <3>5. Faithful(t)'
            <4>1. s = "Init" => mine'[t] = {}
                BY <1>1, <1>6
            <4>2. s = "Begin" /\ k.txn = "open" => k.writes \subseteq loose' /\ mine'[t] = {}
                BY <1>1, <1>6
            <4>3. s = "Begin" /\ ~caught'[t] /\ pc'[t] # "unwind" => k.txn = "open"
                BY <1>4, <1>6
            <4>4. conn'[c] = k
                BY <2>1
            <4> HIDE DEF c
            <4>5. QED
                BY <3>4, <4>1, <4>2, <4>3, <4>4 DEF Faithful
        <3>6. /\ s = "Commit" /\ ~caught'[t] => mine'[t] \subseteq durable'
              /\ s = "Rollback" /\ ~caught'[t] => mine'[t] \cap durable' = {}
            <4>1. /\ conn[c].txn = "open" => mine[t] \cap durable = {}
                  /\ ~caught[t] /\ conn[c].link = "up" /\ tr[t][i].state = "Begin" => conn[c].txn = "open"
                <5>1. tr[t][i].state = "Begin" /\ conn[c].txn = "open" => mine[t] \cap durable = {}
                    BY <1>1 DEF Local, Faithful
                <5>2. ~caught[t] /\ conn[c].link = "up" /\ tr[t][i].state = "Begin" => conn[c].txn = "open"
                    BY <1>1 DEF Local, Faithful
                <5>3. mine[t] = {} => mine[t] \cap durable = {}
                    OBVIOUS
                <5>4. QED
                    BY <1>6, <5>1, <5>2, <5>3
            <4>2. ~caught'[t] => ~caught[t]
                BY <1>4
            <4>3. CASE s = "Commit"
                BY <1>1, <1>6, <4>1, <4>2, <4>3
            <4>4. CASE s = "Rollback"
                BY <1>1, <1>6, <4>1, <4>2, <4>4
            <4>5. QED
                BY <4>3, <4>4
        <3>7. Outcome(t)'
            BY <3>4, <3>6 DEF Outcome, Settled
        <3>8. QED
            BY <3>1, <3>2, <3>3, <3>5, <3>7 DEF Local
    <2>8. ASSUME NEW d \in Conns, conn'[d].txn # "idle"
          PROVE  \/ \E x \in Slots : tr'[t][x] = [conn |-> d, state |-> "Begin"]
                 \/ \E u \in Threads \ {t}, x \in Slots : tr[u][x] = [conn |-> d, state |-> "Begin"]
                 \/ conn'[d].left /\ conn'[d].writes \subseteq loose'
        <3>1. CASE d = c
            <4>1. CASE s = "Begin"
                BY <2>2, <3>1, <4>1
            <4>2. CASE s # "Begin"
                <5>1. tr[t][i].state = "Init" /\ k = conn[c] /\ conn[c].txn # "idle"
                    BY <1>6, <2>1, <2>8, <3>1, <4>2
                <5>2. \A x \in Slots : tr[t][x] # [conn |-> c, state |-> "Begin"]
                    <6>1. \A x \in Slots : x # i => tr[t][x] = NoTr
                        BY <1>1, <1>2 DEF Local, OneTransaction
                    <6>2. QED
                        BY <5>1, <6>1 DEF NoTr
                <5>3. conn[c].left /\ conn[c].writes \subseteq loose
                    BY <1>3, <5>1, <5>2, OwnTransaction
                <5>4. QED
                    BY <1>1, <2>1, <3>1, <5>1, <5>3
            <4>3. QED
                BY <4>1, <4>2
        <3>2. CASE d # c
            <4>1. conn'[d] = conn[d] /\ loose' = loose
                BY <1>1, <2>1, <3>2
            <4>2. CASE conn[d].left /\ conn[d].writes \subseteq loose
                BY <4>1, <4>2
            <4>3. CASE \E u \in Threads, x \in Slots : tr[u][x] = [conn |-> d, state |-> "Begin"]
                <5>1. PICK u \in Threads, x \in Slots : tr[u][x] = [conn |-> d, state |-> "Begin"]
                    BY <4>3
                <5>2. u = t => x # i
                    BY <3>2, <5>1
                <5>3. QED
                    BY <2>2, <5>1, <5>2
            <4>4. QED
                BY <2>8, <4>1, <4>2, <4>3 DEF IInv, Owned
        <3>3. QED
            BY <3>1, <3>2
    <2>9. \A u \in Threads \ {t} : Uses(t)' \cap Uses(u) = {}
        BY <2>4 DEF IInv, Apart
    <2>10. /\ durable \subseteq durable' /\ durable' \subseteq spent' /\ spent \subseteq spent'
           /\ mine'[t] \subseteq spent'
           /\ \A u \in Threads \ {t} : mine'[t] \cap mine[u] = {}
           /\ \A u \in Threads \ {t} : mine[u] \cap durable' \subseteq durable
           /\ loose \subseteq loose' /\ loose' \subseteq spent'
           /\ \A u \in Threads : mine'[u] \cap loose' = {}
        <3>1. /\ \A u \in Threads \ {t} : mine[t] \cap mine[u] = {}
              /\ \A u \in Threads : mine[u] \cap loose = {}
            BY DEF IInv, WrittenOnce
        <3>2. QED
            BY <1>1, <1>6, <2>5, <3>1
    <2>11. QED
        BY <2>1, <2>2, <2>6, <2>7, <2>8, <2>9, <2>10, ThreadStep
<1>7. CASE UNCHANGED <<conn, tr, durable, loose>> /\ Throw(t)
    BY <1>5, <1>7
<1>8. QED
    BY <1>6, <1>7, DirectCases

-----------------------------------------------------------------------------
(* The invariant and what follows from it.                                 *)

(* At the start nothing is open, used or written.                          *)
LEMMA InitIInv ==
    Init => IInv
<1> SUFFICES ASSUME Init PROVE IInv
    OBVIOUS
<1> USE DatabaseAssumption DEF Init
<1>1. TypeOK
    <2>1. NoSession \in Sessions /\ NoTrs \in [Slots -> Transactions]
        BY DEF NoSession, Sessions, NoTrs, NoTr, Transactions
    <2>2. NoRecordset \in Recordsets
        BY DEF NoRecordset, Recordsets
    <2>3. QED
        BY <2>1, <2>2, TypeParts DEF Labels
<1>2. (\A c \in Conns : Sane(conn[c])) /\ Owned
    BY DEF Sane, NoSession, Owned
<1>3. \A t \in Threads, i \in Slots :
        tr[t][i] = NoTr /\ tr[t][i].conn = None /\ tr[t][i].state = "Unknown"
    BY DEF NoTrs, NoTr
<1>4. \A t \in Threads : Uses(t) = {}
    BY <1>3 DEF Uses
<1>5. ASSUME NEW t \in Threads PROVE Local(t)
    <2>1. Control(t) /\ OneTransaction(t) /\ Opening(t)
        BY <1>3, <1>4 DEF Control, OneTransaction, Opening
    <2>2. Faithful(t) /\ Outcome(t)
        BY <1>3 DEF Faithful, Outcome, Settled
    <2>3. QED
        BY <2>1, <2>2 DEF Local
<1>6. Apart /\ WrittenOnce
    BY <1>4 DEF Apart, WrittenOnce
<1>7. RowsComplete
    BY DEF RowsComplete, NoRecordset
<1>8. QED
    BY <1>1, <1>2, <1>5, <1>6, <1>7 DEF IInv

(* Every step keeps the invariant.                                         *)
LEMMA NextIInv ==
    ASSUME IInv, [Next]_vars
    PROVE  IInv'
<1>1. RowsComplete' /\ rs' \in [Threads -> Recordsets]
    BY RowsStep DEF IInv
<1>2. ASSUME NEW t \in Threads,
             \/ GetConnection(t) \/ Find(t) \/ IsGood(t) \/ Erase(t) \/ Create(t) \/ Emplace(t)
             \/ ReadRow(t) \/ GetValue(t) \/ CloseRecordset(t) \/ Leave(t)
      PROVE  IInv'
    BY <1>1, <1>2, GetConnectionIInv, FindIInv, IsGoodIInv, EraseIInv, CreateIInv, EmplaceIInv,
       ReadRowIInv, GetValueIInv, CloseRecordsetIInv, LeaveIInv
<1>3. ASSUME NEW t \in Threads, NEW i \in Slots, NEW open \in BOOLEAN, Construct(t, i, open)
      PROVE  IInv'
    BY <1>1, <1>3, ConstructIInv
<1>4. ASSUME NEW t \in Threads, NEW i \in Slots,
             Begin(t, i) \/ Commit(t, i) \/ Rollback(t, i) \/ Destroy(t, i)
      PROVE  IInv'
    BY <1>1, <1>4, DirectIInv, DestroyIInv DEF Begin, Commit, Rollback
<1>5. ASSUME NEW t \in Threads, NEW i \in Slots, NEW j \in Slots, Move(t, i, j)
      PROVE  IInv'
    BY <1>1, <1>5, MoveIInv
<1>6. ASSUME NEW t \in Threads, NEW w \in Writes, Execute(t, w)
      PROVE  IInv'
    BY <1>1, <1>6, ExecuteIInv
<1>7. ASSUME NEW c \in Conns, Break(c)
      PROVE  IInv'
    BY <1>1, <1>7, BreakIInv
<1>8. CASE UNCHANGED vars
    <2>1. UNCHANGED <<services, conn, pc, hold, tr, mine, caught, rs, spent, durable, loose>>
        BY <1>8 DEF vars
    <2>2. \A t \in Threads : Uses(t)' = Uses(t)
        BY <2>1 DEF Uses
    <2>3. TypeOK' /\ RowsComplete'
        BY <1>1, <2>1 DEF IInv, TypeOK
    <2>4. (\A c \in Conns : Sane(conn[c]))' /\ Owned' /\ WrittenOnce'
        BY <2>1 DEF IInv, Owned, WrittenOnce
    <2>5. Apart'
        BY <2>2 DEF IInv, Apart
    <2>6. ASSUME NEW t \in Threads PROVE Local(t)'
        <3>1. Control(t)' /\ OneTransaction(t)'
            BY <2>1 DEF IInv, Local, Control, OneTransaction
        <3>2. Opening(t)'
            BY <2>1, <2>2 DEF IInv, Local, Opening
        <3>3. Faithful(t)' /\ Outcome(t)'
            BY <2>1 DEF IInv, Local, Faithful, Outcome, Settled
        <3>4. QED
            BY <3>1, <3>2, <3>3 DEF Local
    <2>7. QED
        BY <2>3, <2>4, <2>5, <2>6 DEF IInv
<1>9. QED
    BY <1>2, <1>3, <1>4, <1>5, <1>6, <1>7, <1>8 DEF Next

(* The invariant holds in every state of every behaviour of the database   *)
(* layer (PerThreadPool, Connection, Transaction, Statement, Recordset).   *)
THEOREM DatabaseInvariant == Spec => []IInv
<1>1. IInv /\ [Next]_vars => IInv'
    BY NextIInv
<1>2. QED
    BY <1>1, InitIInv, PTL DEF Spec

(* No two threads ever use one connection, whatever was erased, recreated  *)
(* or is still held by a Transaction (PerThreadPool::GetService).          *)
THEOREM ConnectionsOwned == Spec => []OwnConnection
<1>1. IInv => OwnConnection
    BY DEF IInv, OwnConnection, Apart
<1>2. QED
    BY <1>1, DatabaseInvariant, PTL

(* When Transaction::Commit has returned, every write of the transaction   *)
(* is durable, and when Rollback has returned none is, unless an error was *)
(* caught on the way.                                                      *)
THEOREM OutcomesHold == Spec => []OutcomeMeans
<1>1. IInv => OutcomeMeans
    BY DEF IInv, Local, Outcome, OutcomeMeans
<1>2. QED
    BY <1>1, DatabaseInvariant, PTL

(* A handler never gets a pooled connection that is still inside the       *)
(* transaction of an earlier handler, however that one ended               *)
(* (Transaction::~Transaction and the unwinding of the stack), unless that *)
(* one assigned to its open Transaction.                                   *)
THEOREM NothingOpen == Spec => []NothingLeftOpen
<1>1. IInv => NothingLeftOpen
    BY OwnTransaction, OwnUses DEF NothingLeftOpen
<1>2. QED
    BY <1>1, DatabaseInvariant, PTL

(* A recordset that has been read to its end was read to its last row, and *)
(* Recordset::Read never leaves the result.                                *)
THEOREM RowsRead == Spec => []RowsComplete
<1>1. IInv => RowsComplete
    BY DEF IInv
<1>2. QED
    BY <1>1, DatabaseInvariant, PTL

-----------------------------------------------------------------------------
(* Database implements TxStore.                                            *)

(* The server has t's transaction open.                                    *)
Open(t) == \E i \in Slots : tr[t][i].state = "Begin" /\ conn[tr[t][i].conn].txn = "open"

PendingMine == Pending = [t \in Threads |-> IF Open(t) THEN mine[t] ELSE {}]

(* What is pending is what t wrote; it is neither durable nor loose.       *)
LEMMA PendingFacts ==
    IInv =>
           /\ Pending = [t \in Threads |-> IF Open(t) THEN mine[t] ELSE {}]
           /\ \A t \in Threads : /\ Pending[t] \subseteq spent /\ Pending[t] \cap durable = {}
                                 /\ Pending[t] \cap loose = {} /\ Pending[t] = Uncommitted(t)
           /\ \A t, u \in Threads : t # u => Pending[t] \cap Pending[u] = {}
           /\ durable \subseteq spent /\ loose \subseteq spent
<1> SUFFICES ASSUME IInv
             PROVE  /\ Pending = [t \in Threads |-> IF Open(t) THEN mine[t] ELSE {}]
                    /\ \A t \in Threads : /\ Pending[t] \subseteq spent /\ Pending[t] \cap durable = {}
                                          /\ Pending[t] \cap loose = {} /\ Pending[t] = Uncommitted(t)
                    /\ \A t, u \in Threads : t # u => Pending[t] \cap Pending[u] = {}
                    /\ durable \subseteq spent /\ loose \subseteq spent
    OBVIOUS
<1>1. \A t \in Threads : Open(t) => mine[t] \cap durable = {}
    BY DEF IInv, Local, Faithful, Open
<1>2. \A t \in Threads : Open(t) => mine[t] \ durable = mine[t]
    BY <1>1
<1>3. Pending = [t \in Threads |-> IF Open(t) THEN mine[t] ELSE {}]
    BY <1>2 DEF Pending, Uncommitted, Open
<1>4. WrittenOnce /\ \A t \in Threads : Pending[t] = Uncommitted(t)
    BY DEF IInv, Pending
<1>5. QED
    BY <1>1, <1>3, <1>4 DEF WrittenOnce

(* What is pending is what the threads wrote, in the next state too.       *)
LEMMA PendingIsMine == IInv => PendingMine
BY PendingFacts DEF PendingMine

(* A thread whose transactions and connections are left alone has the same *)
(* transaction open.                                                       *)
LEMMA OpenKept ==
    ASSUME IInv, NEW u \in Threads, tr'[u] = tr[u], \A c \in Uses(u) : conn'[c] = conn[c]
    PROVE  Open(u)' <=> Open(u)
<1>1. \A i \in Slots : tr[u][i].state = "Begin" => conn'[tr[u][i].conn] = conn[tr[u][i].conn]
    BY OwnUses
<1>2. QED
    BY <1>1 DEF Open

(* What a step of t leaves of the transactions of the others.              *)
LEMMA OthersPending ==
    ASSUME IInv, IInv', NEW t \in Threads, Others(t)
    PROVE  /\ \A u \in Threads \ {t} : Pending'[u] = Pending[u]
           /\ Pending'[t] = IF Open(t)' THEN mine'[t] ELSE {}
           /\ Pending[t] = IF Open(t) THEN mine[t] ELSE {}
           /\ Pending = [u \in Threads |-> Pending[u]]
           /\ Pending' = [u \in Threads |-> Pending'[u]]
<1>1. Pending = [u \in Threads |-> IF Open(u) THEN mine[u] ELSE {}]
    BY PendingFacts
<1>2. PendingMine'
    BY PendingIsMine, PTL
<1>3. \A u \in Threads \ {t} : mine'[u] = mine[u] /\ (Open(u)' <=> Open(u))
    BY OpenKept DEF Others, Same
<1>4. QED
    BY <1>1, <1>2, <1>3 DEF PendingMine

(* The union of what is pending, without t.                                *)
LEMMA LostSplit ==
    ASSUME IInv, NEW t \in Threads
    PROVE  Lost = spent \ (durable \cup loose \cup Pending[t] \cup UNION {Pending[u] : u \in Threads \ {t}})
BY DEF Lost, Kept

(* A step of t that leaves t's writes pending, or drops all of them, is a  *)
(* stuttering step or Abort.                                               *)
LEMMA AbortStep ==
    ASSUME IInv, IInv', NEW t \in Threads, Others(t), UNCHANGED <<durable, spent, loose>>,
           Pending'[t] \in {Pending[t], {}}
    PROVE  Store!Abort(t) \/ UNCHANGED Store!vars
<1>1. /\ \A u \in Threads \ {t} : Pending'[u] = Pending[u]
      /\ Pending = [u \in Threads |-> Pending[u]]
      /\ Pending' = [u \in Threads |-> Pending'[u]]
      /\ Kept' = Kept
    BY OthersPending DEF Kept
<1>2. CASE Pending'[t] = Pending[t]
    <2>1. Pending' = Pending
        BY <1>1, <1>2
    <2>2. QED
        BY <1>1, <2>1 DEF Store!vars, Lost
<1>3. CASE Pending'[t] = {}
    <2>1. Pending' = [Pending EXCEPT ![t] = {}]
        BY <1>1, <1>3
    <2>2. /\ Pending[t] \subseteq spent /\ Pending[t] \cap durable = {} /\ Pending[t] \cap loose = {}
          /\ \A u \in Threads \ {t} : Pending[t] \cap Pending[u] = {}
        BY PendingFacts
    <2>3. Lost = spent \ (durable \cup loose \cup Pending[t] \cup UNION {Pending[u] : u \in Threads \ {t}})
        BY LostSplit
    <2>4. Lost' = spent \ (durable \cup loose \cup UNION {Pending[u] : u \in Threads \ {t}})
        <3>1. UNION {Pending'[u] : u \in Threads} = UNION {Pending[u] : u \in Threads \ {t}}
            BY <1>1, <1>3
        <3>2. QED
            BY <3>1 DEF Lost, Kept
    <2>5. Lost' = Lost \cup Pending[t]
        BY <2>2, <2>3, <2>4
    <2>6. QED
        BY <1>1, <2>1, <2>5 DEF Store!Abort
<1>4. QED
    BY <1>2, <1>3

(* A step of t that makes t's pending writes loose is Drop.                *)
LEMMA DropStep ==
    ASSUME IInv, IInv', NEW t \in Threads, Others(t), UNCHANGED <<durable, spent>>,
           loose' = loose \cup Pending[t], Pending'[t] = {}
    PROVE  Store!Drop(t)
<1>1. /\ \A u \in Threads \ {t} : Pending'[u] = Pending[u]
      /\ Pending = [u \in Threads |-> Pending[u]]
      /\ Pending' = [u \in Threads |-> Pending'[u]]
    BY OthersPending
<1>2. Pending' = [Pending EXCEPT ![t] = {}]
    BY <1>1
<1>3. Pending[t] \cap durable = {}
    BY PendingFacts
<1>4. Kept' = Kept
    BY <1>3 DEF Kept
<1>5. Lost = spent \ (durable \cup loose \cup Pending[t] \cup UNION {Pending[u] : u \in Threads \ {t}})
    BY LostSplit
<1>6. UNION {Pending'[u] : u \in Threads} = UNION {Pending[u] : u \in Threads \ {t}}
    BY <1>1
<1>7. Lost' = Lost
    BY <1>5, <1>6 DEF Lost, Kept
<1>8. QED
    BY <1>2, <1>4, <1>7 DEF Store!Drop

(* A step of t that makes durable all that t has pending, and loose writes *)
(* at most beside it, is Commit.                                           *)
LEMMA CommitStep ==
    ASSUME IInv, IInv', NEW t \in Threads, Others(t), UNCHANGED <<spent, loose>>, NEW saved,
           durable' = durable \cup saved, Pending[t] \subseteq saved, saved \subseteq Pending[t] \cup loose,
           Pending'[t] = {}
    PROVE  Store!Commit(t)
<1>1. /\ \A u \in Threads \ {t} : Pending'[u] = Pending[u]
      /\ Pending = [u \in Threads |-> Pending[u]]
      /\ Pending' = [u \in Threads |-> Pending'[u]]
    BY OthersPending
<1>2. Pending' = [Pending EXCEPT ![t] = {}]
    BY <1>1
<1>3. Pending[t] \cap loose = {}
    BY PendingFacts
<1>4. Kept' = Kept \cup Pending[t]
    BY <1>3 DEF Kept
<1>5. Lost = spent \ (durable \cup loose \cup Pending[t] \cup UNION {Pending[u] : u \in Threads \ {t}})
    BY LostSplit
<1>6. UNION {Pending'[u] : u \in Threads} = UNION {Pending[u] : u \in Threads \ {t}}
    BY <1>1
<1>7. Lost' = Lost
    BY <1>5, <1>6 DEF Lost, Kept
<1>8. QED
    BY <1>2, <1>4, <1>7 DEF Store!Commit

(* A write that was not made before is Fresh.                              *)
LEMMA FreshWrite ==
    ASSUME IInv, NEW w \in Writes, w \notin spent
    PROVE  Store!Fresh(w)
<1>1. w \notin Kept \cup Lost \cup loose
    BY PendingFacts DEF Lost, Kept
<1>2. \A u \in Threads : w \notin Pending[u]
    BY PendingFacts
<1>3. QED
    BY <1>1, <1>2 DEF Store!Fresh

(* A new write under t's open transaction is Write.                        *)
LEMMA WriteStep ==
    ASSUME IInv, IInv', NEW t \in Threads, Others(t), NEW w \in Writes, w \notin spent,
           durable' = durable, loose' = loose, spent' = spent \cup {w}, Pending'[t] = Pending[t] \cup {w}
    PROVE  Store!Write(t, w)
<1>1. /\ \A u \in Threads \ {t} : Pending'[u] = Pending[u]
      /\ Pending = [u \in Threads |-> Pending[u]]
      /\ Pending' = [u \in Threads |-> Pending'[u]]
    BY OthersPending
<1>2. Pending' = [Pending EXCEPT ![t] = @ \cup {w}]
    BY <1>1
<1>3. Lost = spent \ (durable \cup loose \cup Pending[t] \cup UNION {Pending[u] : u \in Threads \ {t}})
    BY LostSplit
<1>4. UNION {Pending'[u] : u \in Threads} = Pending[t] \cup {w} \cup UNION {Pending[u] : u \in Threads \ {t}}
    BY <1>1
<1>5. Lost' = Lost
    BY <1>3, <1>4 DEF Lost, Kept
<1>6. Kept' = Kept
    BY DEF Kept
<1>7. QED
    BY <1>2, <1>5, <1>6, FreshWrite DEF Store!Write

(* A new write outside a server transaction is AutoCommit.                 *)
LEMMA AutoCommitStep ==
    ASSUME IInv, IInv', NEW t \in Threads, Others(t), NEW w \in Writes, w \notin spent,
           durable' = durable \cup {w}, loose' = loose, spent' = spent \cup {w}, Pending'[t] = Pending[t]
    PROVE  Store!AutoCommit(w)
<1>1. Pending' = Pending
    BY OthersPending
<1>2. w \notin loose
    BY PendingFacts
<1>3. Kept' = Kept \cup {w} /\ Lost' = Lost
    BY <1>1, <1>2 DEF Lost, Kept
<1>4. QED
    BY <1>1, <1>3, FreshWrite DEF Store!AutoCommit

(* A new write into a server transaction that was left open is Stray.      *)
LEMMA StrayStep ==
    ASSUME IInv, IInv', NEW t \in Threads, Others(t), NEW w \in Writes, w \notin spent,
           durable' = durable, loose' = loose \cup {w}, spent' = spent \cup {w}, Pending'[t] = Pending[t]
    PROVE  Store!Stray(w)
<1>1. Pending' = Pending
    BY OthersPending
<1>2. w \notin durable
    BY PendingFacts
<1>3. Kept' = Kept /\ Lost' = Lost
    BY <1>1, <1>2 DEF Lost, Kept
<1>4. QED
    BY <1>1, <1>3, FreshWrite DEF Store!Stray

(* GetService and the recordset: t's transaction stays as it is, or the    *)
(* failure of IsGood aborts it.                                            *)
LEMMA ServiceStore ==
    ASSUME IInv, IInv', NEW t \in Threads, Others(t),
           \/ GetConnection(t) \/ Find(t) \/ IsGood(t) \/ Erase(t) \/ Create(t) \/ Emplace(t)
           \/ ReadRow(t) \/ GetValue(t) \/ CloseRecordset(t)
    PROVE  Store!Abort(t) \/ UNCHANGED Store!vars
<1>1. UNCHANGED <<tr, mine, durable, spent, loose>>
    BY DEF GetConnection, Find, IsGood, Erase, Create, Emplace, ReadRow, GetValue, CloseRecordset
<1>2. Open(t)' => Open(t)
    <2>1. CASE conn' = conn
        BY <1>1, <2>1 DEF Open
    <2>2. CASE IsGood(t)
        <3>1. pc[t] = "check" /\ hold[t] # None
            BY <2>2 DEF IsGood, IInv, Local, Control
        <3>2. hold[t] \in Conns
            BY <3>1, OwnUses
        <3>3. conn \in [Conns -> Sessions] /\ Sane(conn[hold[t]])
            BY <3>2, TypeParts DEF IInv
        <3>4. PICK r \in RunStatement(conn[hold[t]], {}) : conn' = [conn EXCEPT ![hold[t]] = r.conn]
            BY <2>2 DEF IsGood
        <3>5. r.conn = conn[hold[t]] \/ conn[hold[t]].txn = "open"
            <4> DEFINE k == conn[hold[t]]
            <4>1. k \in Sessions /\ Sane(k) /\ r \in RunStatement(k, {}) /\ {} \in SUBSET Writes
                BY <3>2, <3>3, <3>4
            <4> HIDE DEF k
            <4>2. /\ r.ok \in BOOLEAN
                  /\ r.ok => k.txn = "open" \/ r.conn = k
                  /\ ~r.ok => r.conn = k \/ k.txn = "open"
                BY <4>1, StatementFacts
            <4>3. QED
                BY <4>2 DEF k
        <3>6. \A d \in Conns : conn'[d].txn = "open" => conn[d].txn = "open"
            BY <3>2, <3>3, <3>4, <3>5
        <3>7. \A i \in Slots : tr[t][i].state = "Begin" => tr[t][i].conn \in Conns
            BY OwnUses
        <3>8. QED
            BY <1>1, <3>6, <3>7 DEF Open
    <2>3. CASE Create(t)
        <3>1. conn' = conn \/ \E c \in Conns : conn[c].link = "none" /\ conn' = [conn EXCEPT ![c] = NewSession]
            BY <2>3 DEF Create
        <3>2. conn \in [Conns -> Sessions] /\ NewSession.txn = "idle"
            BY TypeParts DEF IInv, NewSession, NoSession
        <3>3. \A d \in Conns : conn'[d].txn = "open" => conn[d].txn = "open"
            BY <3>1, <3>2
        <3>4. \A i \in Slots : tr[t][i].state = "Begin" => tr[t][i].conn \in Conns
            BY OwnUses
        <3>5. QED
            BY <1>1, <3>3, <3>4 DEF Open
    <2>4. CASE Erase(t)
        <3>1. conn' = Released(conn, services', hold', tr) /\ NoSession.txn = "idle"
            BY <2>4 DEF Erase, NoSession
        <3>2. \A d \in Conns : conn'[d].txn = "open" => conn[d].txn = "open"
            BY <3>1 DEF Released
        <3>3. \A i \in Slots : tr[t][i].state = "Begin" => tr[t][i].conn \in Conns
            BY OwnUses
        <3>4. QED
            BY <1>1, <3>2, <3>3 DEF Open
    <2>5. QED
        BY <2>1, <2>2, <2>3, <2>4 DEF GetConnection, Find, Emplace, ReadRow, GetValue, CloseRecordset
<1>3. Pending'[t] \in {Pending[t], {}}
    BY <1>1, <1>2, OthersPending
<1>4. QED
    BY <1>1, <1>3, AbortStep

(* A Transaction that is made, moved, assigned to or destroyed, and the    *)
(* end of a handler: what the transaction had written stays pending, is    *)
(* lost or is loose.                                                       *)
LEMMA ObjectStore ==
    ASSUME IInv, IInv', NEW t \in Threads, Others(t),
           \/ \E i \in Slots, open \in BOOLEAN : Construct(t, i, open)
           \/ \E i, j \in Slots : Move(t, i, j)
           \/ \E i \in Slots : Destroy(t, i)
           \/ Leave(t)
    PROVE  Store!Drop(t) \/ Store!Abort(t) \/ UNCHANGED Store!vars
<1>1. UNCHANGED <<durable, spent>> /\ TypeOK /\ Local(t)
    BY DEF Construct, Move, Destroy, Leave, IInv
<1>2. Pending'[t] = (IF Open(t)' THEN mine'[t] ELSE {}) /\ Pending[t] = (IF Open(t) THEN mine[t] ELSE {})
    BY OthersPending
<1>3. Pending[t] = Uncommitted(t) /\ mine \in [Threads -> SUBSET Writes]
    BY PendingFacts, TypeParts DEF IInv
<1>4. CASE mine' = [mine EXCEPT ![t] = {}] /\ loose' = loose \cup Uncommitted(t)
    <2>1. Pending'[t] = {}
        BY <1>2, <1>3, <1>4
    <2>2. QED
        BY <1>1, <1>3, <1>4, <2>1, DropStep
<1>5. CASE loose' = loose /\ Pending'[t] \in {Pending[t], {}}
    BY <1>1, <1>5, AbortStep
<1>6. ASSUME NEW i \in Slots, NEW open \in BOOLEAN, Construct(t, i, open)
      PROVE  \/ mine' = [mine EXCEPT ![t] = {}] /\ loose' = loose \cup Uncommitted(t)
             \/ loose' = loose /\ Pending'[t] \in {Pending[t], {}}
    <2>1. CASE UNCHANGED <<conn, tr, mine, loose>>
        <3>1. Open(t)' <=> Open(t)
            BY <2>1 DEF Open
        <3>2. QED
            BY <1>2, <2>1, <3>1
    <2>2. QED
        BY <1>6, <2>1, ConstructCases DEF Replaces
<1>7. ASSUME NEW i \in Slots, NEW j \in Slots, Move(t, i, j)
      PROVE  \/ mine' = [mine EXCEPT ![t] = {}] /\ loose' = loose \cup Uncommitted(t)
             \/ loose' = loose /\ Pending'[t] \in {Pending[t], {}}
    <2>1. CASE /\ i # j /\ tr[t][i] # NoTr /\ \A x \in Slots : x # i => tr[t][x] = NoTr
               /\ tr'[t][j] = tr[t][i] /\ \A x \in Slots : x # j => tr'[t][x] = NoTr
               /\ conn' = Released(conn, services', hold', tr')
               /\ UNCHANGED <<mine, caught, loose>>
        <3>1. tr[t][i].conn \in Conns /\ NoTr.state # "Begin"
            BY <2>1, OwnUses DEF NoTr
        <3>2. conn'[tr[t][i].conn] \in {conn[tr[t][i].conn], NoSession} /\ NoSession.txn # "open"
            BY <2>1, <3>1 DEF Released, NoSession
        <3>3. Open(t)' => Open(t)
            BY <2>1, <3>1, <3>2 DEF Open
        <3>4. QED
            BY <1>2, <2>1, <3>3
    <2>2. QED
        BY <1>7, <2>1, MoveCases DEF Replaces
<1>8. ASSUME NEW i \in Slots, Destroy(t, i)
      PROVE  loose' = loose /\ Pending'[t] \in {Pending[t], {}}
    <2>1. tr[t][i] # NoTr /\ tr' = [tr EXCEPT ![t][i] = NoTr] /\ loose' = loose
        BY <1>8 DEF Destroy
    <2>2. \A x \in Slots : x # i => tr[t][x] = NoTr
        BY <1>1, <2>1 DEF Local, OneTransaction
    <2>3. \A x \in Slots : tr'[t][x] = NoTr
        BY <1>1, <2>1, <2>2, TypeParts
    <2>4. ~Open(t)'
        BY <2>3 DEF Open, NoTr
    <2>5. QED
        BY <1>2, <2>1, <2>4
<1>9. ASSUME Leave(t)
      PROVE  loose' = loose /\ Pending'[t] \in {Pending[t], {}}
    <2>1. tr[t] = NoTrs /\ UNCHANGED <<tr, loose>>
        BY <1>9 DEF Leave
    <2>2. ~Open(t)'
        BY <2>1 DEF Open, NoTrs, NoTr
    <2>3. QED
        BY <1>2, <2>1, <2>2
<1>10. QED
    BY <1>4, <1>5, <1>6, <1>7, <1>8, <1>9

(* Begin, Commit and Rollback: COMMIT makes all pending writes durable in  *)
(* one step, or none.                                                      *)
LEMMA DirectStore ==
    ASSUME IInv, IInv', NEW t \in Threads, Others(t), NEW i \in Slots,
           NEW query \in {"BEGIN", "COMMIT", "ROLLBACK"}, Direct(t, i, query)
    PROVE  Store!Commit(t) \/ Store!Abort(t) \/ UNCHANGED Store!vars
<1> DEFINE c == tr[t][i].conn
<1>1. UNCHANGED <<mine, spent, loose>> /\ TypeOK /\ Local(t) /\ c # None
    BY DEF Direct, IInv
<1>2. Pending'[t] = (IF Open(t)' THEN mine'[t] ELSE {}) /\ Pending[t] = (IF Open(t) THEN mine[t] ELSE {})
    BY OthersPending
<1>3. CASE UNCHANGED <<conn, tr, durable, loose>>
    <2>1. Pending'[t] = Pending[t]
        BY <1>1, <1>2, <1>3 DEF Open
    <2>2. QED
        BY <1>1, <1>3, <2>1, AbortStep
<1>4. ASSUME NEW k \in Sessions, NEW saved \in SUBSET (mine[t] \cup loose),
             NEW s \in {"Init", "Begin", "Commit", "Rollback"}, DirectStep(t, i, k, saved, s)
      PROVE  Store!Commit(t) \/ Store!Abort(t) \/ UNCHANGED Store!vars
    <2>1. tr[t][i] # NoTr /\ \A x \in Slots : x # i => tr[t][x] = NoTr
        BY <1>1 DEF Local, OneTransaction, NoTr
    <2>2. c \in Conns
        BY <2>1, OwnUses
    <2>3. tr \in [Threads -> [Slots -> Transactions]] /\ conn \in [Conns -> Sessions]
        BY <1>1, TypeParts
    <2>4. conn' = [conn EXCEPT ![c] = k] /\ tr' = [tr EXCEPT ![t][i].state = s] /\ durable' = durable \cup saved
        BY <1>4 DEF DirectStep
    <2>5. conn'[c] = k /\ tr'[t][i].state = s /\ tr'[t][i].conn = c /\ \A x \in Slots : x # i => tr'[t][x] = NoTr
        BY <2>1, <2>2, <2>3, <2>4 DEF Transactions
    <2>6. Open(t)' => k.txn = "open"
        BY <2>5 DEF Open, NoTr
    <2>7. Pending'[t] = {}
        BY <1>1, <1>2, <1>4, <2>6 DEF DirectStep
    <2>8. CASE saved = {}
        BY <1>1, <2>4, <2>7, <2>8, AbortStep
    <2>9. CASE saved # {}
        <3>1. conn[c].txn = "open" /\ mine[t] \subseteq saved /\ tr[t][i].state = "Begin"
            BY <1>4, <2>9 DEF DirectStep
        <3>2. Open(t)
            BY <3>1 DEF Open
        <3>3. Pending[t] = mine[t]
            BY <1>2, <3>1, <3>2
        <3>4. QED
            BY <1>1, <2>4, <2>7, <3>1, <3>3, CommitStep
    <2>10. QED
        BY <2>8, <2>9
<1>5. QED
    BY <1>3, <1>4, DirectCases

(* A statement: its effect is added to the open transaction, or durable at *)
(* once, or added to what an earlier Transaction left open, or its failure *)
(* aborts the transaction.                                                 *)
LEMMA ExecuteStore ==
    ASSUME IInv, IInv', NEW t \in Threads, Others(t), NEW w \in Writes, Execute(t, w)
    PROVE  \/ Store!Write(t, w) \/ Store!AutoCommit(w) \/ Store!Stray(w)
           \/ Store!Abort(t) \/ UNCHANGED Store!vars
<1> DEFINE c == hold[t]
<1>1. w \notin spent /\ UNCHANGED tr /\ TypeOK /\ Local(t)
    BY DEF Execute, IInv
<1>2. PICK k \in Sessions :
        /\ c \in Uses(t)
        /\ conn' = [conn EXCEPT ![c] = k]
        /\ \/ /\ conn[c].txn = "open" /\ k.txn = "open" /\ InTransaction(t)
              /\ durable' = durable /\ spent' = spent \cup {w} /\ loose' = loose
              /\ mine' = [mine EXCEPT ![t] = @ \cup {w}]
           \/ /\ conn[c].txn = "open" /\ k.txn = "open" /\ ~InTransaction(t)
              /\ durable' = durable /\ spent' = spent \cup {w} /\ loose' = loose \cup {w}
              /\ mine' = mine
           \/ /\ conn[c].txn = "idle" /\ k = conn[c]
              /\ durable' = durable \cup {w} /\ spent' = spent \cup {w}
              /\ mine' = IF InTransaction(t) THEN [mine EXCEPT ![t] = @ \cup {w}] ELSE mine
              /\ loose' = loose
           \/ /\ k = conn[c] \/ (conn[c].txn = "open" /\ k.txn = "aborted")
              /\ UNCHANGED <<durable, spent, mine, loose>>
    BY ExecuteCases
<1>3. c \in Conns /\ conn \in [Conns -> Sessions]
    BY <1>1, <1>2, OwnUses, TypeParts
<1>4. conn'[c] = k /\ \A d \in Conns \ {c} : conn'[d] = conn[d]
    BY <1>2, <1>3
<1>5. \A i \in Slots : tr[t][i].state = "Begin" => tr[t][i].conn \in Conns
    BY OwnUses
<1>6. Pending'[t] = (IF Open(t)' THEN mine'[t] ELSE {}) /\ Pending[t] = (IF Open(t) THEN mine[t] ELSE {})
    BY OthersPending
<1>7. InTransaction(t) => /\ Open(t) <=> conn[c].txn = "open"
                          /\ Open(t)' <=> k.txn = "open"
    <2>1. SUFFICES ASSUME InTransaction(t)
                   PROVE  (Open(t) <=> conn[c].txn = "open") /\ (Open(t)' <=> k.txn = "open")
        OBVIOUS
    <2>2. PICK i \in Slots : tr[t][i].state = "Begin" /\ tr[t][i].conn = c
        BY <2>1 DEF InTransaction
    <2>3. \A j \in Slots : tr[t][j].state = "Begin" => j = i
        BY <1>1, <2>2, OwnUses DEF Local, OneTransaction
    <2>4. Open(t) <=> conn[c].txn = "open"
        BY <2>2, <2>3 DEF Open
    <2>5. Open(t)' <=> conn'[c].txn = "open"
        BY <1>1, <2>2, <2>3 DEF Open
    <2>6. QED
        BY <1>4, <2>4, <2>5
<1>8. CASE /\ conn[c].txn = "open" /\ k.txn = "open" /\ InTransaction(t)
           /\ durable' = durable /\ spent' = spent \cup {w} /\ loose' = loose
           /\ mine' = [mine EXCEPT ![t] = @ \cup {w}]
    <2>1. mine'[t] = mine[t] \cup {w}
        BY <1>1, <1>8, TypeParts
    <2>2. Pending'[t] = Pending[t] \cup {w}
        BY <1>6, <1>7, <1>8, <2>1
    <2>3. QED
        BY <1>1, <1>8, <2>2, WriteStep
<1>9. CASE /\ conn[c].txn = "idle" /\ k = conn[c]
           /\ durable' = durable \cup {w} /\ spent' = spent \cup {w} /\ loose' = loose
           /\ mine' = IF InTransaction(t) THEN [mine EXCEPT ![t] = @ \cup {w}] ELSE mine
    <2>1. CASE InTransaction(t)
        <3>1. Pending'[t] = Pending[t]
            BY <1>6, <1>7, <1>9, <2>1
        <3>2. QED
            BY <1>1, <1>9, <3>1, AutoCommitStep
    <2>2. CASE ~InTransaction(t)
        <3>1. Open(t)' <=> Open(t)
            BY <1>1, <1>4, <1>5, <1>9 DEF Open
        <3>2. mine' = mine
            BY <1>9, <2>2
        <3>3. QED
            BY <1>1, <1>6, <1>9, <3>1, <3>2, AutoCommitStep
    <2>3. QED
        BY <2>1, <2>2
<1>10. CASE /\ k = conn[c] \/ (conn[c].txn = "open" /\ k.txn = "aborted")
            /\ UNCHANGED <<durable, spent, mine, loose>>
    <2>1. \A d \in Conns : conn'[d].txn = "open" => conn[d].txn = "open"
        BY <1>4, <1>10
    <2>2. Open(t)' => Open(t)
        BY <1>1, <1>5, <2>1 DEF Open
    <2>3. Pending'[t] \in {Pending[t], {}}
        BY <1>6, <1>10, <2>2
    <2>4. QED
        BY <1>10, <2>3, AbortStep
<1>11. CASE /\ conn[c].txn = "open" /\ k.txn = "open" /\ ~InTransaction(t)
            /\ durable' = durable /\ spent' = spent \cup {w} /\ loose' = loose \cup {w}
            /\ mine' = mine
    <2>1. \A i \in Slots : tr[t][i].state = "Begin" => tr[t][i].conn # c
        BY <1>11 DEF InTransaction
    <2>2. Open(t)' <=> Open(t)
        BY <1>1, <1>4, <1>5, <2>1 DEF Open
    <2>3. QED
        BY <1>1, <1>6, <1>11, <2>2, StrayStep
<1>12. QED
    BY <1>2, <1>8, <1>9, <1>10, <1>11

(* A link that breaks aborts the transaction of the thread that uses it.   *)
LEMMA BreakStore ==
    ASSUME IInv, IInv', NEW c \in Conns, Break(c)
    PROVE  (\E t \in Threads : Store!Abort(t)) \/ UNCHANGED Store!vars
<1>1. /\ conn' = [conn EXCEPT ![c] = Broken(conn[c])] /\ conn \in [Conns -> Sessions] /\ Sane(conn[c])
      /\ UNCHANGED <<services, pc, hold, tr, mine, caught, spent, durable, loose>>
    BY TypeParts DEF Break, IInv
<1>2. Broken(conn[c]).txn = "idle"
    BY <1>1, SaneSessions
<1>3. \A d \in Conns : (d # c => conn'[d] = conn[d]) /\ (conn'[d].txn = "open" => conn[d].txn = "open")
    BY <1>1, <1>2
<1>4. ASSUME NEW t \in Threads, \A u \in Threads \ {t} : c \notin Uses(u)
      PROVE  Others(t)
    <2>1. \A u \in Threads : Uses(u) \subseteq Conns
        BY OwnUses
    <2>2. QED
        BY <1>1, <1>3, <1>4, <2>1 DEF Others, Same
<1>5. CASE \E t \in Threads : c \in Uses(t)
    <2>1. PICK t \in Threads : c \in Uses(t)
        BY <1>5
    <2>2. Others(t)
        BY <1>4, <2>1, OwnUses
    <2>3. \A i \in Slots : tr[t][i].state = "Begin" => tr[t][i].conn \in Conns
        BY OwnUses
    <2>4. Open(t)' => Open(t)
        BY <1>1, <1>3, <2>3 DEF Open
    <2>5. Pending'[t] \in {Pending[t], {}}
        BY <1>1, <2>2, <2>4, OthersPending
    <2>6. QED
        BY <1>1, <2>2, <2>5, AbortStep
<1>6. CASE \A t \in Threads : c \notin Uses(t)
    <2>1. \A t \in Threads : Open(t)' <=> Open(t)
        <3>1. \A t \in Threads : Uses(t) \subseteq Conns
            BY OwnUses
        <3>2. QED
            BY <1>1, <1>3, <1>6, <3>1, OpenKept
    <2>2. Pending = [t \in Threads |-> IF Open(t) THEN mine[t] ELSE {}]
        BY PendingFacts
    <2>3. PendingMine'
        BY PendingIsMine, PTL
    <2>4. Pending' = Pending
        BY <1>1, <2>1, <2>2, <2>3 DEF PendingMine
    <2>5. QED
        BY <1>1, <2>4 DEF Store!vars, Lost, Kept
<1>7. QED
    BY <1>5, <1>6

(* Every step is a step of TxStore or leaves it alone.                     *)
LEMMA StoreStep ==
    ASSUME IInv, [Next]_vars
    PROVE  [Store!Next]_(Store!vars)
<1>1. RowsComplete' /\ rs' \in [Threads -> Recordsets]
    BY RowsStep DEF IInv
<1>2. ASSUME NEW t \in Threads,
             \/ GetConnection(t) \/ Find(t) \/ IsGood(t) \/ Erase(t) \/ Create(t) \/ Emplace(t)
             \/ ReadRow(t) \/ GetValue(t) \/ CloseRecordset(t)
      PROVE  Store!Abort(t) \/ UNCHANGED Store!vars
    <2>1. IInv' /\ Others(t)
        BY <1>1, <1>2, GetConnectionIInv, FindIInv, IsGoodIInv, EraseIInv, CreateIInv, EmplaceIInv,
           ReadRowIInv, GetValueIInv, CloseRecordsetIInv
    <2>2. QED
        BY <1>2, <2>1, ServiceStore
<1>3. ASSUME NEW t \in Threads,
             \/ \E i \in Slots, open \in BOOLEAN : Construct(t, i, open)
             \/ \E i, j \in Slots : Move(t, i, j)
             \/ \E i \in Slots : Destroy(t, i)
             \/ Leave(t)
      PROVE  Store!Drop(t) \/ Store!Abort(t) \/ UNCHANGED Store!vars
    <2>1. IInv' /\ Others(t)
        BY <1>1, <1>3, ConstructIInv, MoveIInv, DestroyIInv, LeaveIInv
    <2>2. QED
        BY <1>3, <2>1, ObjectStore
<1>4. ASSUME NEW t \in Threads, NEW i \in Slots, NEW query \in {"BEGIN", "COMMIT", "ROLLBACK"},
             Direct(t, i, query)
      PROVE  Store!Commit(t) \/ Store!Abort(t) \/ UNCHANGED Store!vars
    <2>1. IInv' /\ Others(t)
        BY <1>1, <1>4, DirectIInv
    <2>2. QED
        BY <1>4, <2>1, DirectStore
<1>5. ASSUME NEW t \in Threads, NEW w \in Writes, Execute(t, w)
      PROVE  \/ Store!Write(t, w) \/ Store!AutoCommit(w) \/ Store!Stray(w)
             \/ Store!Abort(t) \/ UNCHANGED Store!vars
    <2>1. IInv' /\ Others(t)
        BY <1>1, <1>5, ExecuteIInv
    <2>2. QED
        BY <1>5, <2>1, ExecuteStore
<1>6. ASSUME NEW c \in Conns, Break(c)
      PROVE  (\E t \in Threads : Store!Abort(t)) \/ UNCHANGED Store!vars
    <2>1. IInv'
        BY <1>1, <1>6, BreakIInv
    <2>2. QED
        BY <1>6, <2>1, BreakStore
<1>7. CASE UNCHANGED vars
    BY <1>7 DEF vars, Store!vars, Pending, Uncommitted, Lost, Kept
<1>8. CASE Next
    <2>1. \/ \E t \in Threads : \/ Store!Abort(t) \/ Store!Commit(t) \/ Store!Drop(t)
                                \/ \E w \in Writes : Store!Write(t, w)
          \/ \E w \in Writes : Store!AutoCommit(w) \/ Store!Stray(w)
          \/ UNCHANGED Store!vars
        BY <1>2, <1>3, <1>4, <1>5, <1>6, <1>8 DEF Next, Begin, Commit, Rollback
    <2>2. QED
        BY <2>1 DEF Store!Next
<1>9. QED
    BY <1>7, <1>8

(* The pool, the connections and the Transaction objects implement a store *)
(* of atomic transactions: the writes of one Transaction become durable in *)
(* one step or never, and what was rolled back or lost never does; only    *)
(* of a Transaction that was assigned to while open nothing is promised.   *)
THEOREM DatabaseImplementsTxStore == Spec => ImplementsTxStore
<1>1. Init => Store!Init
    <2> SUFFICES ASSUME Init PROVE Store!Init
        OBVIOUS
    <2>1. \A t \in Threads, i \in Slots : tr[t][i].state # "Begin"
        BY DEF Init, NoTrs, NoTr
    <2>2. Pending = [t \in Threads |-> {}]
        BY <2>1 DEF Pending, Uncommitted
    <2>3. Lost = {} /\ Kept = {} /\ loose = {}
        BY DEF Init, Lost, Kept
    <2>4. QED
        BY <2>2, <2>3 DEF Store!Init
<1>2. IInv /\ [Next]_vars => [Store!Next]_(Store!vars)
    BY StoreStep
<1>3. QED
    BY <1>1, <1>2, DatabaseInvariant, PTL DEF Spec, ImplementsTxStore, Store!Spec

=============================================================================
