------------------------------ MODULE JobPlan ------------------------------
(***************************************************************************)
(* How the trade-logs crawler cuts one planner window into fetcher jobs    *)
(* (tradelogs/cmd/trade-logs-crawler/main.go):                             *)
(*   - requiredWorkers sizes the pool for the window;                      *)
(*   - the submit goroutine walks i = fromBlock, fromBlock + maxBlocks, ...  *)
(*     while i <= toBlock, takes end = min(i + maxBlocks, toBlock), and,   *)
(*     when [i, end] crosses the starting block of a contract version,     *)
(*     hands the pool two jobs cut at that block instead of one.  The      *)
(*     switch tests V4 first, then V3, then V2, and cuts at most once.     *)
(* Jobs get jobOrder = base + 1, base + 2, ... in submit order.            *)
(* A job is the record [order, from, to]; the spec reads it as the         *)
(* half-open block range [from, to).                                       *)
(***************************************************************************)
EXTENDS Integers, Sequences, FiniteSets

\* The versions in the order the switch of the submit loop tests them.
VersionOrder == <<"V4", "V3", "V2">>

MinInt64(a, b) == IF a < b THEN a ELSE b

\* int(math.Ceil(float64(n) / float64(d))) for d > 0; \div rounds down.
CeilDiv(n, d) == -((-n) \div d)

\* Fault model: the job count rounded down (integer division, no Ceil).
requiredWorkersFloor(fromBlock, toBlock, maxBlocks, maxWorkers) ==
    LET jobs == (toBlock - fromBlock + 1) \div maxBlocks
    IN  IF jobs < maxWorkers THEN jobs ELSE maxWorkers

\* Number of workers NewPool starts for the window [fromBlock, toBlock].
requiredWorkers(fromBlock, toBlock, maxBlocks, maxWorkers) ==
    LET jobs == CeilDiv(toBlock - fromBlock + 1, maxBlocks)
    IN  IF jobs < maxWorkers THEN jobs ELSE maxWorkers

\* Fault model: the switch has no case for the newest version, V4.
CrossedVersionNoV4(i, end, sb) ==
    LET hits == {k \in 2..Len(VersionOrder) :
                    end >= sb[VersionOrder[k]] /\ i < sb[VersionOrder[k]]}
    IN  IF hits = {} THEN 0 ELSE CHOOSE k \in hits : \A h \in hits : k <= h

\* Position in VersionOrder of the first switch case [i, end] satisfies
\* (uint64(end) >= V && uint64(i) < V), or 0 for the default case.
CrossedVersion(i, end, sb) ==
    LET hits == {k \in 1..Len(VersionOrder) :
                    end >= sb[VersionOrder[k]] /\ i < sb[VersionOrder[k]]}
    IN  IF hits = {} THEN 0 ELSE CHOOSE k \in hits : \A h \in hits : k <= h

\* Fault model: the second job of a split starts one block after the cut.
IterationRangesSkipCut(i, end, sb) ==
    LET k == CrossedVersion(i, end, sb)
    IN  IF k = 0
        THEN << [from |-> i, to |-> end] >>
        ELSE LET v == sb[VersionOrder[k]]
             IN  << [from |-> i, to |-> v], [from |-> v + 1, to |-> end] >>

\* The ranges one iteration of the submit loop hands to p.Run, in order.
IterationRanges(i, end, sb) ==
    LET k == CrossedVersion(i, end, sb)
    IN  IF k = 0
        THEN << [from |-> i, to |-> end] >>
        ELSE LET v == sb[VersionOrder[k]]
             IN  << [from |-> i, to |-> v], [from |-> v, to |-> end] >>

\* for i := fromBlock; i <= toBlock; i += maxBlocks { ... }
RECURSIVE SubmitRanges(_, _, _, _)
SubmitRanges(i, toBlock, maxBlocks, sb) ==
    IF i > toBlock
    THEN << >>
    ELSE IterationRanges(i, MinInt64(i + maxBlocks, toBlock), sb)
           \o SubmitRanges(i + maxBlocks, toBlock, maxBlocks, sb)

\* The FetcherJobs of one window, numbered from jobOrder = base.
FetcherJobs(base, fromBlock, toBlock, maxBlocks, sb) ==
    LET r == SubmitRanges(fromBlock, toBlock, maxBlocks, sb)
    IN  [k \in 1..Len(r) |-> [order |-> base + k, from |-> r[k].from, to |-> r[k].to]]

-----------------------------------------------------------------------------
(* What the spec promises of a window's jobs (spec.md 3, 4.2, 8), read     *)
(* half-open: a job holds the blocks from .. to - 1.                       *)

\* The starting blocks of the versions: the version boundaries.
Boundaries(sb) == {sb[v] : v \in DOMAIN sb}

\* The jobs tile [fromBlock, toBlock): they start at fromBlock, each starts
\* where the previous one ended, the last ends at toBlock, none runs backward.
Tiles(jobs, fromBlock, toBlock) ==
    /\ Len(jobs) > 0
    /\ jobs[1].from = fromBlock
    /\ jobs[Len(jobs)].to = toBlock
    /\ \A k \in 1..Len(jobs) : jobs[k].from <= jobs[k].to
    /\ \A k \in 1..(Len(jobs) - 1) : jobs[k].to = jobs[k + 1].from

\* No job contains a version boundary strictly inside it.
SplitAtBoundaries(jobs, sb) ==
    \A k \in 1..Len(jobs), v \in Boundaries(sb) : ~(jobs[k].from < v /\ v < jobs[k].to)

\* Every job holds at least one block (BlockRange invariant from < to).
NonEmpty(jobs) == \A k \in 1..Len(jobs) : jobs[k].from < jobs[k].to
=============================================================================
