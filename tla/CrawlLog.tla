------------------------------ MODULE CrawlLog ------------------------------
(***************************************************************************)
(* What the crawl promises its storage (spec.md 1, 3 and 4.5): the blocks  *)
(* of [CrawlFrom, CrawlTo) reach storage gap-free, duplicate-free and in   *)
(* chain order; the crawl either finishes with every block stored or is    *)
(* aborted by a fatal error, leaving a stored prefix to resume from.       *)
(***************************************************************************)
EXTENDS Integers, Sequences

CONSTANTS CrawlFrom, CrawlTo

VARIABLES log,     \* the block numbers in storage, in the order stored
          status   \* "running", "done" or "aborted"

vars == <<log, status>>

\* The first block not yet stored.
NextBlock == CrawlFrom + Len(log)

Init == log = << >> /\ status = "running"

\* Storage receives the next blocks up to b - 1, in one commit.
Store(b) ==
    /\ status = "running"
    /\ NextBlock < b /\ b <= CrawlTo
    /\ log' = log \o [k \in 1..(b - NextBlock) |-> NextBlock + k - 1]
    /\ UNCHANGED status

Finish ==
    /\ status = "running" /\ NextBlock = CrawlTo
    /\ status' = "done" /\ UNCHANGED log

Abort ==
    /\ status = "running"
    /\ status' = "aborted" /\ UNCHANGED log

Next == (\E b \in (CrawlFrom + 1)..CrawlTo : Store(b)) \/ Finish \/ Abort

\* The crawl does not stop half-way without aborting.
Spec == Init /\ [][Next]_vars /\ WF_vars(Next)
=============================================================================
