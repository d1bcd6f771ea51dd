------------------------ MODULE MC_InfluxTradeStore ------------------------
(* Four jobs over three users: u1 trades twice in job 1 and again in    *)
(* job 2, u2 in jobs 1 and 3, u3 in jobs 2 and 3, and all of them in job *)
(* 4, so a failure and the restart can fall before, between or after a   *)
(* user's first trade and the trades that repeat it, within a call and   *)
(* across calls.                                                          *)
EXTENDS InfluxTradeStore

CONSTANTS u1, u2, u3

MCBatches == << <<u1, u2, u1>>, <<u3, u1>>, <<u2, u3>>, <<u1, u2, u3>> >>
=============================================================================
