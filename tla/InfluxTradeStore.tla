-------------------------- MODULE InfluxTradeStore --------------------------
(***************************************************************************)
(* The Influx trade-log storage (tradelogs/storage/influx/influx.go) as    *)
(* the crawler drives it: the ordered-commit gate calls SaveTradeLogs on   *)
(* the jobs' batches one at a time, in job order; a failed call is fatal,  *)
(* and the next run of the crawler starts a new Storage and saves the      *)
(* failed batch again (spec.md 4.1 resumed cursor, 7 "refetched on the     *)
(* next run").                                                             *)
(*                                                                         *)
(* SaveTradeLogs turns every log into points -- the trade, a first_trades  *)
(* point when the user has not traded before, a kyced point for a user     *)
(* with a UID -- and writes them in one batch.  "Not traded before" is the *)
(* per-call map is.traded, then a query of first_trades in the database.   *)
(* A log is its batch and position <<i, k>>, which is also its time; the  *)
(* logs of job i are of block i.                                           *)
(***************************************************************************)
EXTENDS Integers, Sequences, FiniteSets

CONSTANTS
    Users,        \* user addresses
    KYCed,        \* users whose trade logs carry a UID
    Batches,      \* Batches[i]: the users of job i's trade logs, in log order
    MaxRestarts   \* runs of the crawler after the first

ASSUME KYCed \subseteq Users /\ MaxRestarts \in Nat

VARIABLES
    db,         \* the points in InfluxDB
    bp,         \* the batch points of the call in progress
    traded,     \* is.traded
    pc,         \* "points", "write", "fatal" or "done"
    bi,         \* the batch being saved
    k,          \* the log being turned into points
    restarts    \* runs started after a fatal error

vars == <<db, bp, traded, pc, bi, k, restarts>>

Point(m, u, at) == [m |-> m, user |-> u, at |-> at]

Log == Batches[bi][k]
LogTime == <<bi, k>>

\* userTraded: SELECT traded FROM first_trades WHERE user_addr = u.
userTraded(u) == \E p \in db : p.m = "first_trades" /\ p.user = u

\* Fault model: the per-call map is not consulted.
NeedsFirstTradeNoMap(u) == ~userTraded(u)

\* assembleFirstTradePoint builds a first_trades point: the user is not in
\* is.traded and has no first_trades point in the database.
NeedsFirstTrade(u) == u \notin traded /\ ~userTraded(u)

\* AssembleKYCPoint: a kyced point when the log's user has a UID.
AssembleKYCPoint(u) == IF u \in KYCed THEN {Point("kyced", u, LogTime)} ELSE {}

\* tradeLogToPoint and its helpers for the current log.  A conversion
\* (FromWei, GetBurnAmount, NewPoint) or the userTraded query can fail
\* before is.traded is touched; AssembleKYCPoint's NewPoint fails after it.
LogToPoint ==
    /\ pc = "points" /\ k <= Len(Batches[bi])
    /\ LET u     == Log
           first == NeedsFirstTrade(u)
           pts   == {Point("trades", u, LogTime)}
                      \cup (IF first THEN {Point("first_trades", u, LogTime)} ELSE {})
                      \cup AssembleKYCPoint(u)
       IN  \/ /\ bp' = bp \cup pts /\ k' = k + 1
              /\ traded' = IF first THEN traded \cup {u} ELSE traded
              /\ UNCHANGED pc
           \/ /\ pc' = "fatal"                   \* conversion error
              /\ UNCHANGED <<bp, k, traded>>
           \/ /\ u \notin traded /\ pc' = "fatal"  \* userTraded query error
              /\ UNCHANGED <<bp, k, traded>>
           \/ /\ u \in KYCed /\ pc' = "fatal"      \* kyced NewPoint error
              /\ traded' = IF first THEN traded \cup {u} ELSE traded
              /\ UNCHANGED <<bp, k>>
    /\ UNCHANGED <<db, bi, restarts>>

\* Fault model: the Write error is logged and not returned, so the gate
\* moves on past the batch.
WriteErrLogged ==
    /\ pc = "points" /\ k > Len(Batches[bi])
    /\ \E ok \in BOOLEAN :
          /\ db' = IF ok THEN db \cup bp ELSE db
          /\ traded' = {}
          /\ bp' = {} /\ k' = 1
          /\ IF bi < Len(Batches)
             THEN bi' = bi + 1 /\ UNCHANGED pc
             ELSE pc' = "done" /\ UNCHANGED bi
    /\ UNCHANGED restarts

\* influxClient.Write(bp): on success reset is.traded and the gate moves
\* on to the next job; on error the call returns it and the crawl is fatal.
Write ==
    /\ pc = "points" /\ k > Len(Batches[bi])
    /\ \/ /\ db' = db \cup bp
          /\ traded' = {}
          /\ bp' = {} /\ k' = 1
          /\ IF bi < Len(Batches)
             THEN bi' = bi + 1 /\ UNCHANGED pc
             ELSE pc' = "done" /\ UNCHANGED bi
       \/ /\ pc' = "fatal"
          /\ UNCHANGED <<db, traded, bp, k, bi>>
    /\ UNCHANGED restarts

\* LastBlock: SELECT "block_number" ... ORDER BY time DESC limit 1, the
\* block of the latest trades point, or 0 when the query returns no row.
LastBlock ==
    LET ts == {p.at : p \in {q \in db : q.m = "trades"}}
    IN  IF ts = {} THEN 0
        ELSE (CHOOSE t \in ts : \A s \in ts : s = t \/ s[1] < t[1] \/ (s[1] = t[1] /\ s[2] < t[2]))[1]

\* The next run: NewInfluxStorage with an empty is.traded, and a crawl
\* that resumes from LastBlock -- at that block or after it (the planner
\* that reads it is not in the repository) -- or from the first job when
\* storage has no trade.  Jobs before the failed one are saved again.
Restart ==
    /\ pc = "fatal" /\ restarts < MaxRestarts
    /\ restarts' = restarts + 1
    /\ traded' = {} /\ bp' = {} /\ k' = 1 /\ pc' = "points"
    /\ bi' \in IF LastBlock = 0 THEN {1} ELSE {LastBlock, LastBlock + 1}
    /\ UNCHANGED db

Init ==
    /\ db = {} /\ bp = {} /\ traded = {}
    /\ pc = "points" /\ bi = 1 /\ k = 1 /\ restarts = 0

\* Every batch is saved, or the last run ended fatally.
Terminated ==
    /\ pc = "done" \/ (pc = "fatal" /\ restarts = MaxRestarts)
    /\ UNCHANGED vars

Next == LogToPoint \/ Write \/ Restart \/ Terminated

Spec == Init /\ [][Next]_vars

-----------------------------------------------------------------------------
\* The earlier of two log times, in chain order.
Earlier(a, b) == a[1] < b[1] \/ (a[1] = b[1] /\ a[2] < b[2])

Earliest(S) == CHOOSE t \in S : \A s \in S : s = t \/ Earlier(t, s)

TradeTimes(u) == {p.at : p \in {q \in db : q.m = "trades" /\ q.user = u}}
FirstTradeTimes(u) == {p.at : p \in {q \in db : q.m = "first_trades" /\ q.user = u}}

\* InfluxDB holds one first_trades point per user who has traded, at the
\* time of the user's earliest stored trade, and none for other users:
\* is.traded within a call, the first_trades query across calls, the reset
\* after Write and the re-save after a fatal error together.
FirstTradeIsEarliest ==
    \A u \in Users :
        FirstTradeTimes(u) = IF TradeTimes(u) = {} THEN {} ELSE {Earliest(TradeTimes(u))}

\* Every job before the one being saved, and every job once the crawl is
\* done, has all its trades in InfluxDB:
\* a batch is dropped neither by a failed Write the crawl went past nor by
\* a restart resuming from LastBlock (the latest trades point's block),
\* whichever of that block or the next the crawl resumes at.
ResumeSkipsNoJob ==
    \A i \in 1..(IF pc = "done" THEN Len(Batches) ELSE bi - 1) : \A j \in 1..Len(Batches[i]) :
        Point("trades", Batches[i][j], <<i, j>>) \in db
=============================================================================
