-------------------------- MODULE MC_PgTradeStore --------------------------
(* Three jobs over two users: u1 trades twice in job 1 and again in job 2, *)
(* u2 trades in jobs 1 and 3, so a failed call can fall between a user's   *)
(* first trade and the ones that repeat it, in one call and across calls.  *)
EXTENDS PgTradeStore

CONSTANTS u1, u2

MCBatches == << <<u1, u2, u1>>, <<u1>>, <<u2>> >>
=============================================================================
