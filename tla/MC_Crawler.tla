---------------------------- MODULE MC_Crawler ----------------------------
(***************************************************************************)
(* Instantiates Crawler for TLC: a crawl of a few blocks in two planner    *)
(* windows, with version starting blocks inside the crawl so that the      *)
(* submit loop splits jobs, and pools of up to MaxWorkers workers.         *)
(***************************************************************************)
EXTENDS Crawler

CONSTANTS V2Block, V3Block, V4Block

MCStartingBlocks == [V2 |-> V2Block, V3 |-> V3Block, V4 |-> V4Block]
=============================================================================
