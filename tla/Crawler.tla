------------------------------ MODULE Crawler ------------------------------
(***************************************************************************)
(* The trade-logs crawl: the control loop of run() in                     *)
(* tradelogs/cmd/trade-logs-crawler/main.go and the workers pool of        *)
(* tradelogs/workers/workers.go.                                           *)
(*                                                                         *)
(* Processes and the Go primitives between them:                           *)
(*   main       asks the planner for a window, starts a pool of            *)
(*              requiredWorkers workers and the submitter goroutine, then  *)
(*              selects on doneCh (submitter) and ErrCh() (workers);       *)
(*   submitter  p.Run()s every job of the window in order on the           *)
(*              unbuffered jobCh, then polls GetLastCompleteJobOrder until *)
(*              the last job is saved and sends on the unbuffered doneCh;  *)
(*   worker w   ranges over jobCh: execute (retry of fetch), then the      *)
(*              ordered-commit gate: under the mutex, SaveTradeLogs only   *)
(*              when order = lastCompletedJobOrder + 1, else sleep and     *)
(*              poll again; errors go to errCh (capacity = pool size).     *)
(* An unbuffered send is a rendezvous: Run(w) and SignalDone are single    *)
(* steps of both parties.  sugar.Fatalw ends the process: after it no      *)
(* process takes a step.  The fetch of a job and SaveTradeLogs are         *)
(* nondeterministic calls that succeed or fail.  Sleeping while polling    *)
(* (retry delay, the gate, the done loop) is stuttering.                   *)
(***************************************************************************)
EXTENDS Integers, Sequences, SequencesExt, JobPlan

CONSTANTS
    CrawlFrom,      \* first block of the crawl (from-block flag or resume point)
    CrawlTo,        \* end of the crawl: the planner stops at this block
    MaxBlockSpan,   \* blocks per planner window
    MaxBlocks,      \* max-blocks flag: blocks per fetcher job
    MaxWorkers,     \* max-workers flag
    Attempts,       \* attempts flag: tries of a job's fetch
    StartingBlocks  \* [V2, V3, V4]: starting blocks of the contract versions

ASSUME CrawlFrom \in Nat /\ CrawlTo \in Nat /\ CrawlFrom <= CrawlTo
ASSUME MaxBlockSpan \in Nat \ {0} /\ MaxBlocks \in Nat \ {0}
ASSUME MaxWorkers \in Nat \ {0} /\ Attempts \in Nat
ASSUME StartingBlocks \in [{"V2", "V3", "V4"} -> Nat]

VARIABLES
    cursor,     \* planner: first block of the next window
    window,     \* fromBlock, toBlock of the current window
    mainPc,     \* "plan", "select", "shutdown", "fatal", "done"
    subPc,      \* submitter: "submit", "await", "signal", "end"
    next,       \* submitter: position of the next job to p.Run
    wpc,        \* worker -> "none", "idle", "fetch", "fetchErr", "save",
                \*           "saveErr", "exited"
    wjob,       \* worker -> position in Jobs of the job it holds
    tries,      \* worker -> tries of retry made for the job
    last,       \* p.lastCompletedJobOrder
    errCh,      \* number of errors buffered in p.errCh
    errClosed,  \* close(p.errCh) has run
    jobClosed,  \* close(p.jobCh) has run
    stored      \* storage: the jobs saved by SaveTradeLogs, in save order

vars == <<cursor, window, mainPc, subPc, next, wpc, wjob, tries, last,
          errCh, errClosed, jobClosed, stored>>
poolVars == <<subPc, next, wpc, wjob, tries, last, errCh, errClosed, jobClosed>>

Workers == 1..MaxWorkers

\* fromBlock, toBlock before the first planner.next(): nil.
NoBlock == -1

\* The jobs the submitter hands out for the current window, jobOrder from 0:
\* it reads GetLastCompleteJobOrder() of the fresh pool, which is 0.
Jobs == FetcherJobs(0, window.fromBlock, window.toBlock, MaxBlocks, StartingBlocks)

PoolSize == requiredWorkers(window.fromBlock, window.toBlock, MaxBlocks, MaxWorkers)

\* sugar.Fatalw has not ended the process.
Alive == mainPc # "fatal"

-----------------------------------------------------------------------------
(* The planner is not in the repository: spec.md 4.1.  next() returns the  *)
(* window [cursor, min(cursor + MaxBlockSpan, CrawlTo)) and advances.      *)

PlannerNext == [fromBlock |-> cursor,
                toBlock   |-> MinInt64(cursor + MaxBlockSpan, CrawlTo)]

-----------------------------------------------------------------------------
(* The pool                                                                *)

\* workers.NewPool(sugar, n, storage): lastCompletedJobOrder 0, an empty
\* errCh of capacity n, an open jobCh, and n worker goroutines ranging over
\* it; the other worker slots of the model take no part in this window.
NewPool(n) ==
    /\ wpc' = [w \in Workers |-> IF w <= n THEN "idle" ELSE "none"]
    /\ wjob' = [w \in Workers |-> 0]
    /\ tries' = [w \in Workers |-> 0]
    /\ last' = 0
    /\ errCh' = 0
    /\ errClosed' = FALSE
    /\ jobClosed' = FALSE

-----------------------------------------------------------------------------
(* main                                                                    *)

\* planner.next() gives a window: size and start a pool, start the
\* submitter, and wait in the select.
StartWindow ==
    /\ mainPc = "plan"
    /\ cursor < CrawlTo
    /\ LET win == PlannerNext
           n   == requiredWorkers(win.fromBlock, win.toBlock, MaxBlocks, MaxWorkers)
       IN  /\ window' = win
           /\ cursor' = win.toBlock
           /\ NewPool(n)
    /\ subPc' = "submit"
    /\ next' = 1
    /\ mainPc' = "select"
    /\ UNCHANGED stored

\* planner.next() returns errEOF: "completed!", run returns.
Completed ==
    /\ mainPc = "plan"
    /\ cursor >= CrawlTo
    /\ mainPc' = "done"
    /\ UNCHANGED <<cursor, window, poolVars, stored>>

\* case <-doneCh: p.Shutdown() closes jobCh, then waits for the workers.
SignalDone ==
    /\ subPc = "signal"
    /\ mainPc = "select"
    /\ subPc' = "end"
    /\ jobClosed' = TRUE
    /\ mainPc' = "shutdown"
    /\ UNCHANGED <<cursor, window, next, wpc, wjob, tries, last, errCh,
                   errClosed, stored>>

\* p.wg.Wait() returns once every worker has called Done; close(p.errCh).
ShutdownWait ==
    /\ mainPc = "shutdown"
    /\ \A w \in Workers : wpc[w] \in {"none", "exited"}
    /\ errClosed' = TRUE
    /\ mainPc' = "select"
    /\ UNCHANGED <<cursor, window, subPc, next, wpc, wjob, tries, last, errCh,
                   jobClosed, stored>>

\* case fErr := <-p.ErrCh() with fErr != nil: sugar.Fatalw ends the process.
ReceiveErr ==
    /\ mainPc = "select"
    /\ errCh > 0
    /\ errCh' = errCh - 1
    /\ mainPc' = "fatal"
    /\ UNCHANGED <<cursor, window, subPc, next, wpc, wjob, tries, last,
                   errClosed, jobClosed, stored>>

\* The closed errCh yields nil: "workers pool is successfully shut down",
\* break, and ask the planner for the next window.
ReceiveClosed ==
    /\ mainPc = "select"
    /\ errClosed
    /\ errCh = 0
    /\ mainPc' = "plan"
    /\ UNCHANGED <<cursor, window, poolVars, stored>>

-----------------------------------------------------------------------------
(* submitter goroutine                                                     *)

\* p.GetLastCompleteJobOrder(): lastCompletedJobOrder, read under p.mutex,
\* so never between a worker's save and its increment.
GetLastCompleteJobOrder == last

\* p.Run(job) blocks on the unbuffered jobCh until worker w receives it.
Run(w) ==
    /\ Alive
    /\ subPc = "submit"
    /\ next <= Len(Jobs)
    /\ wpc[w] = "idle"
    /\ ~jobClosed
    /\ wpc' = [wpc EXCEPT ![w] = "fetch"]
    /\ wjob' = [wjob EXCEPT ![w] = next]
    /\ tries' = [tries EXCEPT ![w] = 0]
    /\ next' = next + 1
    /\ UNCHANGED <<cursor, window, mainPc, subPc, last, errCh, errClosed,
                   jobClosed, stored>>

\* The for loop over the window's blocks ends.
SubmitLoopEnd ==
    /\ Alive
    /\ subPc = "submit"
    /\ next > Len(Jobs)
    /\ subPc' = "await"
    /\ UNCHANGED <<cursor, window, mainPc, next, wpc, wjob, tries, last,
                   errCh, errClosed, jobClosed, stored>>

\* for p.GetLastCompleteJobOrder() < jobOrder { sleep } ends.
AwaitCompleted ==
    /\ Alive
    /\ subPc = "await"
    /\ GetLastCompleteJobOrder >= Len(Jobs)
    /\ subPc' = "signal"
    /\ UNCHANGED <<cursor, window, mainPc, next, wpc, wjob, tries, last,
                   errCh, errClosed, jobClosed, stored>>

-----------------------------------------------------------------------------
(* worker w                                                                *)

\* The range over jobCh ends: jobCh is closed.  "worker stopped", wg.Done().
WorkerExit(w) ==
    /\ wpc[w] = "idle"
    /\ jobClosed
    /\ wpc' = [wpc EXCEPT ![w] = "exited"]
    /\ UNCHANGED <<cursor, window, mainPc, subPc, next, wjob, tries, last,
                   errCh, errClosed, jobClosed, stored>>

\* One try of retry: fj.fetch either returns the trade logs, and execute
\* returns them, or fails, and retry sleeps and counts the try.
FetchAttempt(w) ==
    /\ Alive
    /\ wpc[w] = "fetch"
    /\ tries[w] < Attempts
    /\ \/ /\ wpc' = [wpc EXCEPT ![w] = "save"]
          /\ UNCHANGED tries
       \/ /\ tries' = [tries EXCEPT ![w] = tries[w] + 1]
          /\ UNCHANGED wpc
    /\ UNCHANGED <<cursor, window, mainPc, subPc, next, wjob, last, errCh,
                   errClosed, jobClosed, stored>>

\* retry's loop ends after Attempts tries and returns the last err: nil,
\* with no trade logs, when no try was made.
RetriesExhausted(w) ==
    /\ Alive
    /\ wpc[w] = "fetch"
    /\ tries[w] = Attempts
    /\ wpc' = [wpc EXCEPT ![w] = IF Attempts = 0 THEN "save" ELSE "fetchErr"]
    /\ UNCHANGED <<cursor, window, mainPc, subPc, next, wjob, tries, last,
                   errCh, errClosed, jobClosed, stored>>

\* p.errCh <- err, then break out of the range loop: the worker stops.
ReportFetchErr(w) ==
    /\ Alive
    /\ wpc[w] = "fetchErr"
    /\ errCh < PoolSize
    /\ errCh' = errCh + 1
    /\ wpc' = [wpc EXCEPT ![w] = "exited"]
    /\ UNCHANGED <<cursor, window, mainPc, subPc, next, wjob, tries, last,
                   errClosed, jobClosed, stored>>

\* Fault model: the gate does not compare the order.
SaveTradeLogsNoGate(w) ==
    /\ Alive
    /\ wpc[w] = "save"
    /\ \/ /\ stored' = Append(stored, [from |-> Jobs[wjob[w]].from, to |-> Jobs[wjob[w]].to])
          /\ last' = last + 1
          /\ wpc' = [wpc EXCEPT ![w] = "idle"]
       \/ /\ wpc' = [wpc EXCEPT ![w] = "saveErr"]
          /\ UNCHANGED <<stored, last>>
    /\ UNCHANGED <<cursor, window, mainPc, subPc, next, wjob, tries, errCh,
                   errClosed, jobClosed>>

\* The ordered-commit gate, under p.mutex: when it is the job's turn,
\* SaveTradeLogs; on success count the job and take the next one, on
\* failure go report.  When it is not its turn the worker unlocks and
\* sleeps (stuttering).
SaveTradeLogs(w) ==
    /\ Alive
    /\ wpc[w] = "save"
    /\ Jobs[wjob[w]].order = last + 1
    /\ \/ /\ stored' = Append(stored, [from |-> Jobs[wjob[w]].from, to |-> Jobs[wjob[w]].to])
          /\ last' = last + 1
          /\ wpc' = [wpc EXCEPT ![w] = "idle"]
       \/ /\ wpc' = [wpc EXCEPT ![w] = "saveErr"]
          /\ UNCHANGED <<stored, last>>
    /\ UNCHANGED <<cursor, window, mainPc, subPc, next, wjob, tries, errCh,
                   errClosed, jobClosed>>

\* Fault model: the save error is only logged, never sent on errCh.
ReportSaveErrDropped(w) ==
    /\ Alive
    /\ wpc[w] = "saveErr"
    /\ wpc' = [wpc EXCEPT ![w] = "idle"]
    /\ UNCHANGED <<cursor, window, mainPc, subPc, next, wjob, tries, last,
                   errCh, errClosed, jobClosed, stored>>

\* p.errCh <- err, then break: the break leaves only the gate's loop, so the
\* worker goes back to ranging over jobCh.
ReportSaveErr(w) ==
    /\ Alive
    /\ wpc[w] = "saveErr"
    /\ errCh < PoolSize
    /\ errCh' = errCh + 1
    /\ wpc' = [wpc EXCEPT ![w] = "idle"]
    /\ UNCHANGED <<cursor, window, mainPc, subPc, next, wjob, tries, last,
                   errClosed, jobClosed, stored>>

-----------------------------------------------------------------------------

Init ==
    /\ cursor = CrawlFrom
    /\ window = [fromBlock |-> NoBlock, toBlock |-> NoBlock]
    /\ mainPc = "plan"
    /\ subPc = "end"
    /\ next = 1
    /\ wpc = [w \in Workers |-> "none"]
    /\ wjob = [w \in Workers |-> 0]
    /\ tries = [w \in Workers |-> 0]
    /\ last = 0
    /\ errCh = 0
    /\ errClosed = FALSE
    /\ jobClosed = FALSE
    /\ stored = << >>

\* The process has returned from run or been ended by Fatalw.
Terminated ==
    /\ mainPc \in {"done", "fatal"}
    /\ UNCHANGED vars

MainStep ==
    StartWindow \/ Completed \/ SignalDone \/ ShutdownWait \/ ReceiveErr \/ ReceiveClosed

SubmitterStep == (\E w \in Workers : Run(w)) \/ SubmitLoopEnd \/ AwaitCompleted

WorkerStep(w) ==
    \/ WorkerExit(w) \/ FetchAttempt(w) \/ RetriesExhausted(w) \/ ReportFetchErr(w)
    \/ SaveTradeLogs(w) \/ ReportSaveErr(w)

Next == MainStep \/ SubmitterStep \/ (\E w \in Workers : WorkerStep(w)) \/ Terminated

\* Go schedules every runnable goroutine; a sleeping poller wakes up again.
Fairness ==
    /\ WF_vars(MainStep)
    /\ WF_vars(SubmitterStep)
    /\ \A w \in Workers : WF_vars(WorkerStep(w))

Spec == Init /\ [][Next]_vars /\ Fairness

-----------------------------------------------------------------------------

\* The blocks in storage, in the order they were saved (job [from, to)
\* holds from .. to - 1).
StoredBlocks ==
    FlattenSeq([k \in 1..Len(stored) |->
                  [i \in 1..(stored[k].to - stored[k].from) |-> stored[k].from + i - 1]])

\* Storage holds the blocks of a prefix of the crawl in chain order, with
\* no gap and no block saved twice, however workers finish their fetches
\* (the ordered-commit gate and the order numbers of the submit loop).
StoredInChainOrder ==
    \A k \in 1..Len(stored) :
        /\ stored[k].from <= stored[k].to
        /\ stored[k].from = IF k = 1 THEN CrawlFrom ELSE stored[k - 1].to

\* A worker that has reported an error takes no further job (spec.md 4.5).
ErrorStopsWorker ==
    [][\A w \in Workers : wpc[w] = "saveErr" => wpc'[w] \in {"saveErr", "exited"}]_vars

\* A job reaches SaveTradeLogs only with the trade logs a try of fetch
\* returned (spec.md 4.4: execute returns the records of a successful try,
\* or the last error); retry with attempts = 0 makes no try and returns
\* nil logs with a nil error.
SavedJobsWereFetched ==
    [][\A w \in Workers : (wpc[w] = "fetch" /\ wpc'[w] = "save") => tries[w] < Attempts]_vars

\* The crawl implements the abstract crawl log: storage only ever grows by
\* the next blocks of the chain, the crawl ends, and it ends "done" only
\* with every block of [CrawlFrom, CrawlTo) stored.
Log == INSTANCE CrawlLog
         WITH log <- StoredBlocks,
              status <- CASE mainPc = "fatal" -> "aborted"
                          [] mainPc = "done"  -> "done"
                          [] OTHER            -> "running"

ImplementsCrawlLog == Log!Spec
=============================================================================
