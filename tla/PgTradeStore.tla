---------------------------- MODULE PgTradeStore ----------------------------
(***************************************************************************)
(* The Postgres trade-log storage (tradelogs/storage/postgres/tradelog.go) *)
(* as the crawler drives it: the ordered-commit gate calls SaveTradeLogs   *)
(* on the jobs' batches one at a time, in job order; a failed call is      *)
(* fatal and the next run saves the failed batch again.                    *)
(*                                                                         *)
(* SaveTradeLogs saves the reserves, builds one record per log -- with     *)
(* IsFirstTrade from the call's users map, else from a query of the users  *)
(* table made outside the transaction -- then, in one transaction, saves   *)
(* reserve addresses and tokens and, per record, inserts the user and      *)
(* calls create_or_update_tradelogs.  The deferred                         *)
(* pgsql.CommitOrRollback(tx, logger, &err) commits when err is nil.       *)
(*                                                                         *)
(* That err is the one declared by "tx, err := tldb.db.Beginx()" inside    *)
(* "if crResult != nil", not the named result; the tradelog insert's error *)
(* is declared by "if err := tx.Get(...)" and never reaches it.            *)
(* A log is its batch and position <<i, k>>, which is also its time.       *)
(***************************************************************************)
EXTENDS Integers, Sequences, FiniteSets

CONSTANTS
    Users,        \* user addresses
    Batches,      \* Batches[i]: the users of job i's trade logs, in log order
    MaxRestarts   \* runs of the crawler after the first

ASSUME MaxRestarts \in Nat

VARIABLES
    users,      \* the users table
    logs,       \* the tradelogs table: [at, user, first] rows
    pc,         \* "reserve", "records", "begin", "insert", "fatal", "done"
    bi,         \* the batch being saved
    k,          \* the log, then the record, being handled
    seen,       \* the call's users map
    records,    \* the records built so far
    txUsers,    \* users inserted by the open transaction
    txLogs,     \* tradelog rows written by the open transaction
    txErr,      \* the err that CommitOrRollback reads
    restarts    \* runs started after a fatal error

vars == <<users, logs, pc, bi, k, seen, records, txUsers, txLogs, txErr, restarts>>
callVars == <<k, seen, records, txUsers, txLogs, txErr>>

LogUser == Batches[bi][k]

\* isFirstTrade: SELECT NOT EXISTS(... "users" WHERE address = u), on
\* tldb.db, so it sees committed rows only.
isFirstTrade(u) == u \notin users

\* create_or_update_tradelogs: the row of that log is created or replaced.
Upsert(rows, r) == {l \in rows : l.at # r.at} \cup {r}

\* The rows of a transaction applied to the table, one upsert each.
RECURSIVE ApplyUpserts(_, _)
ApplyUpserts(rows, S) ==
    IF S = {} THEN rows
    ELSE LET r == CHOOSE x \in S : TRUE IN ApplyUpserts(Upsert(rows, r), S \ {r})

\* The deferred CommitOrRollback(tx, logger, &err): roll the transaction
\* back when err is set, else commit the users and rows it wrote.
CommitOrRollback(err, us, ls) ==
    IF err THEN UNCHANGED <<users, logs>>
    ELSE users' = users \cup us /\ logs' = ApplyUpserts(logs, ls)

\* saveReserve, before any record: ON CONFLICT DO NOTHING outside the
\* transaction (reserve rows are not modelled), or its error.
SaveReserve ==
    /\ pc = "reserve"
    /\ pc' \in {"records", "fatal"}
    /\ UNCHANGED <<users, logs, bi, callVars, restarts>>

\* Fault model: IsFirstTrade always from the users table.
FirstTradeFlagNoMap(u) == isFirstTrade(u)

\* The record's IsFirstTrade: FALSE when the call has seen the user,
\* else the users query.
FirstTradeFlag(u) == u \notin seen /\ isFirstTrade(u)

\* One log: recordFromTradeLog, the first-trade decision, users map.  The
\* conversion or the isFirstTrade query can fail.
BuildRecord ==
    /\ pc = "records" /\ k <= Len(Batches[bi])
    /\ \/ /\ records' = Append(records, [at |-> <<bi, k>>, user |-> LogUser,
                                         first |-> FirstTradeFlag(LogUser)])
          /\ seen' = seen \cup {LogUser}
          /\ k' = k + 1
          /\ UNCHANGED pc
       \/ /\ pc' = "fatal"
          /\ UNCHANGED <<records, seen, k>>
       \/ /\ LogUser \notin seen /\ pc' = "fatal"
          /\ UNCHANGED <<records, seen, k>>
    /\ UNCHANGED <<users, logs, bi, txUsers, txLogs, txErr, restarts>>

\* Beginx, then saveReserveAddress and saveTokens in the transaction; an
\* error of the latter two is assigned to err, so the transaction rolls back.
BeginTx ==
    /\ pc = "records" /\ k > Len(Batches[bi])
    /\ k' = 1 /\ txUsers' = {} /\ txLogs' = {} /\ txErr' = FALSE
    /\ \/ pc' = "insert"
       \/ pc' = "fatal"
    /\ UNCHANGED <<users, logs, bi, seen, records, restarts>>

\* One record in the transaction: insert the user, then
\* create_or_update_tradelogs.  The user insert's error is assigned to err
\* (rollback).  The tradelog call's is not: when the server rejects the
\* call, PostgreSQL aborts the transaction and the deferred Commit rolls
\* it back (lib/pq's ErrInFailedTransaction); when the call ran and tx.Get
\* then fails on the client (no row, a NULL _id), the deferred call
\* commits the transaction, this record's row included.
InsertRecord ==
    /\ pc = "insert" /\ k <= Len(records)
    /\ LET r == records[k] IN
       \/ /\ txUsers' = txUsers \cup {r.user}
          /\ txLogs' = txLogs \cup {r}
          /\ k' = k + 1
          /\ UNCHANGED <<pc, users, logs, txErr>>
       \/ /\ txErr' = TRUE /\ pc' = "fatal"
          /\ UNCHANGED <<users, logs, txUsers, txLogs, k>>
       \/ /\ pc' = "fatal"                     \* server error: aborted
          /\ UNCHANGED <<users, logs, txUsers, txLogs, txErr, k>>
       \/ /\ txUsers' = txUsers \cup {r.user}    \* client-side tx.Get error
          /\ txLogs' = txLogs \cup {r}
          /\ pc' = "fatal"
          /\ CommitOrRollback(txErr, txUsers', txLogs')
          /\ UNCHANGED <<txErr, k>>
    /\ UNCHANGED <<bi, seen, records, restarts>>

\* return err with err nil: the deferred call commits, and the gate moves
\* on to the next job.
CommitBatch ==
    /\ pc = "insert" /\ k > Len(records)
    /\ CommitOrRollback(txErr, txUsers, txLogs)
    /\ k' = 1 /\ seen' = {} /\ records' = << >>
    /\ IF bi < Len(Batches)
       THEN bi' = bi + 1 /\ pc' = "reserve"
       ELSE pc' = "done" /\ UNCHANGED bi
    /\ UNCHANGED <<txUsers, txLogs, txErr, restarts>>

\* The next run saves the batch that failed again, with a new call.
Restart ==
    /\ pc = "fatal" /\ restarts < MaxRestarts
    /\ restarts' = restarts + 1
    /\ pc' = "reserve" /\ k' = 1 /\ seen' = {} /\ records' = << >>
    /\ txUsers' = {} /\ txLogs' = {} /\ txErr' = FALSE
    /\ UNCHANGED <<users, logs, bi>>

Init ==
    /\ users = {} /\ logs = {}
    /\ pc = "reserve" /\ bi = 1 /\ k = 1
    /\ seen = {} /\ records = << >>
    /\ txUsers = {} /\ txLogs = {} /\ txErr = FALSE
    /\ restarts = 0

Terminated ==
    /\ pc = "done" \/ (pc = "fatal" /\ restarts = MaxRestarts)
    /\ UNCHANGED vars

Next == SaveReserve \/ BuildRecord \/ BeginTx \/ InsertRecord \/ CommitBatch
        \/ Restart \/ Terminated

Spec == Init /\ [][Next]_vars

-----------------------------------------------------------------------------
\* The earlier of two log times, in chain order.
Earlier(a, b) == a[1] < b[1] \/ (a[1] = b[1] /\ a[2] < b[2])

Earliest(S) == CHOOSE t \in S : \A s \in S : s = t \/ Earlier(t, s)

RowsOf(u) == {l \in logs : l.user = u}

\* No user has two tradelog rows flagged is_first_trade: the call's users
\* map covers what the users query, made outside the transaction, cannot
\* see -- the users the call itself is about to insert.
FirstTradeAtMostOnce ==
    \A u \in Users : Cardinality({l \in RowsOf(u) : l.first}) <= 1

\* Every user with a stored trade has its earliest one flagged
\* is_first_trade, across failed calls and the re-save of the next run
\* (isFirstTrade, the users map, the transaction and its deferred commit).
FirstTradeFlagged ==
    \A u \in Users :
        RowsOf(u) # {} =>
            \E l \in RowsOf(u) : l.first /\ l.at = Earliest({x.at : x \in RowsOf(u)})
=============================================================================
