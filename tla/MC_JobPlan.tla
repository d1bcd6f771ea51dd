---------------------------- MODULE MC_JobPlan ----------------------------
(***************************************************************************)
(* Checks the job planning of JobPlan over every small window.  The input  *)
(* is chosen in Init and never changes: each distinct state is one window  *)
(* [fromBlock, toBlock) with a maxBlocks and version starting blocks.      *)
(***************************************************************************)
EXTENDS JobPlan

CONSTANTS
    FromBlocks,     \* candidate fromBlock values
    MaxWidth,       \* largest window width toBlock - fromBlock
    MaxBlocksSet,   \* candidate values of the max-blocks flag
    MaxWorkers,     \* the max-workers flag
    LastVersionBlock  \* starting blocks are drawn from 1..LastVersionBlock

ASSUME MaxWidth \in Nat \ {0} /\ MaxWorkers \in Nat \ {0}
ASSUME MaxBlocksSet \subseteq Nat \ {0}

\* Starting blocks V2 < V3 < V4, as deployment.StartingBlocks gives them.
StartingBlockSets ==
    { sb \in [{"V2", "V3", "V4"} -> 1..LastVersionBlock] :
        sb.V2 < sb.V3 /\ sb.V3 < sb.V4 }

\* The versions start at least maxBlocks blocks apart.
Spaced(sb, m) == sb.V3 - sb.V2 >= m /\ sb.V4 - sb.V3 >= m

\* The planner hands out non-empty half-open windows (spec.md 4.1).
Inputs ==
    { [fromBlock |-> f, toBlock |-> f + w, maxBlocks |-> m, sb |-> sb] :
        f \in FromBlocks, w \in 1..MaxWidth, m \in MaxBlocksSet, sb \in StartingBlockSets }

VARIABLE input

Jobs == FetcherJobs(0, input.fromBlock, input.toBlock, input.maxBlocks, input.sb)

Init == input \in Inputs
Next == UNCHANGED input
Spec == Init /\ [][Next]_input

TypeOK == input \in Inputs

\* The jobs the submit loop hands to the pool tile the window: no block of
\* [fromBlock, toBlock) is fetched twice or skipped, and orders follow
\* block order (main.go submit loop, the MinInt64 end and the split).
JobsTileWindow ==
    /\ Tiles(Jobs, input.fromBlock, input.toBlock)
    /\ \A k \in 1..Len(Jobs) : Jobs[k].order = k

\* No job spans a contract version boundary, so every job is fetched with
\* one version's ABI (spec.md 4.2 and 8; the switch of the submit loop).
JobsSplitAtBoundaries == SplitAtBoundaries(Jobs, input.sb)

\* The same, for versions that start at least maxBlocks blocks apart: the
\* switch's single cut per iteration suffices there.
JobsSplitWhenSpaced == Spaced(input.sb, input.maxBlocks) => JobsSplitAtBoundaries

\* Every job is a non-empty block range (spec.md 3: BlockRange from < to);
\* the loop bound i <= toBlock and the split at end = V can break it.
JobsNonEmpty == NonEmpty(Jobs)

\* A window with jobs gets a pool with at least one worker; with none the
\* submitter blocks forever on the unbuffered job channel (requiredWorkers).
PoolHasWorker ==
    Len(Jobs) > 0 =>
        requiredWorkers(input.fromBlock, input.toBlock, input.maxBlocks, MaxWorkers) >= 1
=============================================================================
