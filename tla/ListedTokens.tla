---------------------------- MODULE ListedTokens ----------------------------
(***************************************************************************)
(* The listed-token storage of accounting                                  *)
(* (accounting/listed-token-storage/listed_token_storage_postgres.go).     *)
(*                                                                         *)
(* CreateOrUpdate upserts, in one transaction, every token of its map --   *)
(* the token's row, then a row per old address under the token's name and *)
(* symbol -- with ON CONFLICT (address) DO NOTHING; the deferred           *)
(* pgsql.CommitOrRollback(tx, logger, &err) commits when err is nil.       *)
(* GetTokens selects every row, in no particular order, and assembles one  *)
(* token per symbol-name key: the latest row is the token, the others its  *)
(* Old list.                                                               *)
(*                                                                         *)
(* A row is its address, its key (symbol and name) and its timestamp; an  *)
(* input token is a row with a sequence of old [address, ts].  Old lists   *)
(* are compared as sets: no property reads their order.                    *)
(***************************************************************************)
EXTENDS Integers, Sequences, SequencesExt

CONSTANTS
    Inputs,     \* candidate token maps of a CreateOrUpdate call
    MaxCalls    \* CreateOrUpdate calls explored

ASSUME MaxCalls \in Nat

VARIABLES
    table,      \* the tokens table: [address, key, ts] rows
    pc,         \* "idle" or "exec": a CreateOrUpdate call in progress
    input,      \* the call's token map
    todo,       \* tokens of the map not yet upserted
    tx,         \* rows inserted by the open transaction
    err,        \* the err that the deferred CommitOrRollback reads
    calls,      \* CreateOrUpdate calls made
    snapshot,   \* the rows the last GetTokens selected
    view,       \* the tokens the last GetTokens returned
    complete    \* the last select read every row

vars == <<table, pc, input, todo, tx, err, calls, snapshot, view, complete>>

\* The rows CreateOrUpdate executes for a token, in order: the token, then
\* its old addresses with the token's name and symbol.
TokenRows(t) ==
    <<[address |-> t.address, key |-> t.key, ts |-> t.ts]>>
    \o [i \in 1..Len(t.old) |-> [address |-> t.old[i].address, key |-> t.key, ts |-> t.old[i].ts]]

\* INSERT ... ON CONFLICT (address) DO NOTHING, inside the transaction.
Upsert(rows, r) ==
    IF \E x \in table \cup rows : x.address = r.address THEN rows ELSE rows \cup {r}

\* The deferred CommitOrRollback(tx, logger, &err).
CommitOrRollback(e, rows) ==
    IF e THEN UNCHANGED table ELSE table' = table \cup rows

\* ltd.db.Beginx(): an error returns before the defer; no transaction.
Begin ==
    /\ pc = "idle" /\ calls < MaxCalls
    /\ calls' = calls + 1
    /\ \E in \in Inputs :
          \/ /\ pc' = "exec" /\ input' = in /\ todo' = in
             /\ tx' = {} /\ err' = FALSE
          \/ UNCHANGED <<pc, input, todo, tx, err>>
    /\ UNCHANGED <<table, snapshot, view, complete>>

\* Fault model: the exec error is declared by "if _, err := tx.Exec(...)",
\* as in the trade-log storage: the deferred call sees a nil err.
ExecErrShadowed == FALSE

\* "if _, err = tx.Exec(...); err != nil": the failed exec's error is the
\* err that the deferred CommitOrRollback reads.
ExecErr == TRUE

\* One token of the map, in Go's map order: its rows are executed in
\* order; "_, err = tx.Exec(...)" can fail at any of them, and then
\* "return err" runs the deferred call with that err.
UpsertToken ==
    /\ pc = "exec"
    /\ \E t \in todo :
          LET rows == TokenRows(t) IN
          \/ /\ tx' = FoldLeft(Upsert, tx, rows)
             /\ todo' = todo \ {t}
             /\ UNCHANGED <<pc, err, table>>
          \/ \E n \in 0..Len(rows) - 1 :
                /\ tx' = FoldLeft(Upsert, tx, SubSeq(rows, 1, n))
                /\ err' = ExecErr /\ pc' = "idle"
                /\ CommitOrRollback(err', tx')
                /\ UNCHANGED todo
    /\ UNCHANGED <<input, calls, snapshot, view, complete>>

\* The loop ends: return err, nil, and the deferred call commits.
Commit ==
    /\ pc = "exec" /\ todo = {}
    /\ CommitOrRollback(err, tx)
    /\ pc' = "idle"
    /\ UNCHANGED <<input, todo, tx, err, calls, snapshot, view, complete>>

\* Fault model: a later row replaces the token without moving it to Old.
AssembleRowDropHead(acc, r) ==
    IF \E e \in acc : e.key = r.key
    THEN LET e == CHOOSE x \in acc : x.key = r.key IN
         (acc \ {e}) \cup
            {IF r.ts < e.ts
             THEN [e EXCEPT !.old = @ \cup {[address |-> r.address, ts |-> r.ts]}]
             ELSE [e EXCEPT !.address = r.address, !.ts = r.ts]}
    ELSE acc \cup {[key |-> r.key, address |-> r.address, ts |-> r.ts, old |-> {}]}

\* One row of the select, in GetTokens' assembly loop: a new key starts a
\* token; an earlier row goes to Old; a row that is not earlier becomes the
\* token and the previous token goes to Old.
AssembleRow(acc, r) ==
    IF \E e \in acc : e.key = r.key
    THEN LET e == CHOOSE x \in acc : x.key = r.key IN
         (acc \ {e}) \cup
            {IF r.ts < e.ts
             THEN [e EXCEPT !.old = @ \cup {[address |-> r.address, ts |-> r.ts]}]
             ELSE [e EXCEPT !.old = @ \cup {[address |-> e.address, ts |-> e.ts]},
                            !.address = r.address, !.ts = r.ts]}
    ELSE acc \cup {[key |-> r.key, address |-> r.address, ts |-> r.ts, old |-> {}]}

\* GetTokens, on a connection of its own, reads committed rows in any
\* order.  Select appends each row it scans to result, so a select that
\* fails after n rows leaves those n in result; the error is only logged,
\* and GetTokens assembles what was read and returns a nil error.
GetTokens ==
    /\ snapshot' = table
    /\ \E order \in SetToSeqs(table) : \E n \in 0..Len(order) :
          /\ view' = FoldLeft(AssembleRow, {}, SubSeq(order, 1, n))
          /\ complete' = (n = Len(order))
    /\ UNCHANGED <<table, pc, input, todo, tx, err, calls>>

Init ==
    /\ table = {} /\ pc = "idle" /\ input = {} /\ todo = {}
    /\ tx = {} /\ err = FALSE /\ calls = 0
    /\ snapshot = {} /\ view = {} /\ complete = TRUE

Next == Begin \/ UpsertToken \/ Commit \/ GetTokens

Spec == Init /\ [][Next]_vars

-----------------------------------------------------------------------------
\* Every token GetTokens returns is a row of its key and every Old entry
\* an earlier row of it; when the select read every row, the token is its
\* key's latest row and Old holds exactly the key's other rows, whatever
\* order the select returned the rows in (the assembly loop's two branches).
TokensAssembled ==
    \A e \in view :
        LET rows == {r \in snapshot : r.key = e.key}
            self == [address |-> e.address, key |-> e.key, ts |-> e.ts]
        IN
        /\ self \in rows
        /\ \A o \in e.old : o.ts <= e.ts /\ [address |-> o.address, key |-> e.key, ts |-> o.ts] \in rows
        /\ complete =>
              /\ \A r \in rows : r.ts <= e.ts
              /\ e.old = {[address |-> r.address, ts |-> r.ts] : r \in rows \ {self}}

\* CreateOrUpdate changes the table only by committing every address of
\* its map, old ones included (the exec errors reach the err that the
\* deferred CommitOrRollback reads).
CreateOrUpdateAtomic ==
    [][table' # table =>
         \A t \in input : \A i \in 1..Len(TokenRows(t)) :
             \E r \in table' : r.address = TokenRows(t)[i].address]_vars
=============================================================================
