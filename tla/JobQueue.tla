------------------------------- MODULE JobQueue -------------------------------
(***************************************************************************)
(* Backtest and optimization jobs (freqpanda_api): the handler that writes *)
(* the job row and enqueues its id, the RQ queue in Redis, the workers     *)
(* that execute run_backtest_job and run_optimization_job (which differ    *)
(* only in what they compute), and the page that polls the job.            *)
(*                                                                         *)
(* Every repository call commits, so each is a step.  RQ's timeout is an   *)
(* exception raised in the worker at an arbitrary point of the job, at     *)
(* most once per execution.  Queue and timeout are RQ's, modelled from how *)
(* jobs/queue.py sets them up.                                             *)
(***************************************************************************)
EXTENDS Naturals, Sequences

CONSTANTS
    Strategies,  \* strategies that have been created
    Jobs,        \* job ids new_id may return: a bound on the jobs
    Workers,     \* rq worker processes
    None,
    MaxFaults    \* bound on kills, lost calls and restarts of Redis

ASSUME JobQueueAssumption ==
    None \notin Strategies \cup Jobs /\ MaxFaults \in Nat

VARIABLES
    strategies,   \* the strategies table
    status,       \* jobs.status; "none" before the row, "deleted" after it
    strategy_of,  \* jobs.strategy_id
    results,      \* jobs with a row in backtest_results/optimization_results
    created,      \* jobs whose handler has yet to call enqueue
    queue,        \* the RQ queue
    step,         \* what a worker does next in the task function
    task,         \* the job a worker executes
    reading,      \* status read by the first query of GET /backtests/{id}
    seen,         \* the last answer the polling page got
    faults

dbVars     == <<strategies, status, strategy_of, results>>
workerVars == <<step, task>>
pageVars   == <<reading, seen>>
vars == <<dbVars, created, queue, workerVars, pageVars, faults>>

Status   == {"pending", "running", "completed", "failed"}
Terminal == {"completed", "failed"}
Rows     == {j \in Jobs : status[j] \in Status}

(* idle: waiting on the queue; get_job, mark_running: before the try;      *)
(* get_strategy to leave: in the try; mark_failed: in its except clause.   *)
InTry == {"get_strategy", "compute", "save", "mark_completed", "leave"}
Steps == {"idle", "get_job", "mark_running", "mark_failed"} \cup InTry

Answer == [status : Status \cup {"none"}, result : BOOLEAN]
NoAnswer == [status |-> "none", result |-> FALSE]

TypeOK ==
    /\ strategies \subseteq Strategies
    /\ status \in [Jobs -> Status \cup {"none", "deleted"}]
    /\ strategy_of \in [Jobs -> Strategies \cup {None}]
    /\ results \subseteq Jobs
    /\ created \subseteq Jobs
    /\ queue \in Seq(Jobs)
    /\ step \in [Workers -> Steps]
    /\ task \in [Workers -> Jobs \cup {None}]
    /\ reading \in [Jobs -> Status \cup {"none"}]
    /\ seen \in [Jobs -> Answer]
    /\ faults \in 0..MaxFaults

Init ==
    /\ strategies = Strategies
    /\ status = [j \in Jobs |-> "none"]
    /\ strategy_of = [j \in Jobs |-> None]
    /\ results = {} /\ created = {} /\ queue = <<>>
    /\ step = [w \in Workers |-> "idle"] /\ task = [w \in Workers |-> None]
    /\ reading = [j \in Jobs |-> "none"]
    /\ seen = [j \in Jobs |-> NoAnswer]
    /\ faults = 0

Fault == faults < MaxFaults /\ faults' = faults + 1

(***************************************************************************)
(* The API.                                                                *)
(***************************************************************************)
(* create_backtest, create_optimization: the strategy exists (the foreign  *)
(* key repeats the check), and the row is committed.                       *)
CreateJob(j, s) ==
    /\ status[j] = "none" /\ s \in strategies
    /\ status' = [status EXCEPT ![j] = "pending"]
    /\ strategy_of' = [strategy_of EXCEPT ![j] = s]
    /\ created' = created \cup {j}
    /\ UNCHANGED <<strategies, results, queue, workerVars, pageVars, faults>>

(* Mutant: the id is enqueued twice.                                       *)
EnqueueTwice(j) ==
    /\ j \in created
    /\ created' = created \ {j}
    /\ queue' = queue \o <<j, j>>
    /\ UNCHANGED <<dbVars, workerVars, pageVars, faults>>

Enqueue(j) ==
    /\ j \in created
    /\ created' = created \ {j}
    /\ queue' = Append(queue, j)
    /\ UNCHANGED <<dbVars, workerVars, pageVars, faults>>

(* Redis does not answer, or the API process ends: the row stays.          *)
EnqueueFails(j) ==
    /\ j \in created
    /\ created' = created \ {j}
    /\ Fault
    /\ UNCHANGED <<dbVars, queue, workerVars, pageVars>>

(* The rows that reference the strategy are deleted with it.               *)
DeleteStrategy(s) ==
    /\ s \in strategies
    /\ strategies' = strategies \ {s}
    /\ status' = [j \in Jobs |-> IF j \in Rows /\ strategy_of[j] = s THEN "deleted" ELSE status[j]]
    /\ results' = {j \in results : strategy_of[j] # s}
    /\ UNCHANGED <<strategy_of, created, queue, workerVars, pageVars, faults>>

(***************************************************************************)
(* The queue.                                                              *)
(***************************************************************************)
Dequeue(w) ==
    /\ step[w] = "idle" /\ queue # <<>>
    /\ task' = [task EXCEPT ![w] = Head(queue)]
    /\ queue' = Tail(queue)
    /\ step' = [step EXCEPT ![w] = "get_job"]
    /\ UNCHANGED <<dbVars, created, pageVars, faults>>

(* A restart of Redis loses the jobs enqueued last.                        *)
RedisRestarts ==
    /\ queue # <<>>
    /\ \E n \in 0..(Len(queue) - 1) : queue' = SubSeq(queue, 1, n)
    /\ Fault
    /\ UNCHANGED <<dbVars, created, workerVars, pageVars>>

(***************************************************************************)
(* The task function of a worker.                                          *)
(***************************************************************************)
Goto(w, s) == step' = [step EXCEPT ![w] = s] /\ UNCHANGED task
Leave(w) ==
    /\ step' = [step EXCEPT ![w] = "idle"]
    /\ task' = [task EXCEPT ![w] = None]

(* update jobs set status = ... where id = ...                             *)
Mark(j, s) == status' = IF j \in Rows THEN [status EXCEPT ![j] = s] ELSE status

GetJob(w) ==
    /\ step[w] = "get_job"
    /\ IF task[w] \in Rows THEN Goto(w, "mark_running") ELSE Leave(w)
    /\ UNCHANGED <<dbVars, created, queue, pageVars, faults>>

MarkRunning(w) ==
    /\ step[w] = "mark_running"
    /\ Mark(task[w], "running")
    /\ Goto(w, "get_strategy")
    /\ UNCHANGED <<strategies, strategy_of, results, created, queue, pageVars, faults>>

GetStrategy(w) ==
    /\ step[w] = "get_strategy"
    /\ Goto(w, IF strategy_of[task[w]] \in strategies THEN "compute" ELSE "mark_failed")
    /\ UNCHANGED <<dbVars, created, queue, pageVars, faults>>

Compute(w) ==
    /\ step[w] = "compute"
    /\ Goto(w, "save")
    /\ UNCHANGED <<dbVars, created, queue, pageVars, faults>>

(* Mutant: completed before the result is there.                           *)
SaveResultLate(w) ==
    /\ step[w] = "save"
    /\ Mark(task[w], "completed")
    /\ Goto(w, "mark_completed")
    /\ UNCHANGED <<strategies, strategy_of, results, created, queue, pageVars, faults>>

(* The insert fails on its foreign key when the row is gone.               *)
SaveResult(w) ==
    /\ step[w] = "save"
    /\ IF task[w] \in Rows
       THEN results' = results \cup {task[w]} /\ Goto(w, "mark_completed")
       ELSE Goto(w, "mark_failed") /\ UNCHANGED results
    /\ UNCHANGED <<strategies, status, strategy_of, created, queue, pageVars, faults>>

MarkCompleted(w) ==
    /\ step[w] = "mark_completed"
    /\ Mark(task[w], "completed")
    /\ Goto(w, "leave")
    /\ UNCHANGED <<strategies, strategy_of, results, created, queue, pageVars, faults>>

Return(w) ==
    /\ step[w] = "leave"
    /\ Leave(w)
    /\ UNCHANGED <<dbVars, created, queue, pageVars, faults>>

(* No data, an error in the computation, a failed statement, or RQ's       *)
(* timeout: whatever is raised in the try is caught.                       *)
Raises(w) ==
    /\ step[w] \in InTry
    /\ Goto(w, "mark_failed")
    /\ UNCHANGED <<dbVars, created, queue, pageVars, faults>>

(* Mutant: the failure is logged only.                                     *)
MarkFailedNot(w) ==
    /\ step[w] = "mark_failed"
    /\ Leave(w)
    /\ UNCHANGED <<dbVars, created, queue, pageVars, faults>>

MarkFailed(w) ==
    /\ step[w] = "mark_failed"
    /\ Mark(task[w], "failed")
    /\ Leave(w)
    /\ UNCHANGED <<strategies, strategy_of, results, created, queue, pageVars, faults>>

(* The work horse is killed, or raises where nothing catches it: before    *)
(* the try, or in the except clause when the connection is gone.  RQ does  *)
(* not execute the job again.                                              *)
WorkerDies(w) ==
    /\ step[w] # "idle"
    /\ Fault
    /\ Leave(w)
    /\ UNCHANGED <<dbVars, created, queue, pageVars>>

(***************************************************************************)
(* The page: two queries per request, until the answer is terminal.        *)
(***************************************************************************)
PollJob(j) ==
    /\ j \in Rows /\ reading[j] = "none" /\ seen[j].status \notin Terminal
    /\ reading' = [reading EXCEPT ![j] = status[j]]
    /\ UNCHANGED <<dbVars, created, queue, workerVars, seen, faults>>

PollResult(j) ==
    /\ reading[j] # "none"
    /\ seen' = [seen EXCEPT ![j] = [status |-> reading[j], result |-> j \in results]]
    /\ reading' = [reading EXCEPT ![j] = "none"]
    /\ UNCHANGED <<dbVars, created, queue, workerVars, faults>>

-----------------------------------------------------------------------------
Work(w) ==
    \/ Dequeue(w) \/ GetJob(w) \/ MarkRunning(w) \/ GetStrategy(w) \/ Compute(w)
    \/ SaveResult(w) \/ MarkCompleted(w) \/ Return(w) \/ Raises(w) \/ MarkFailed(w)

Poll(j) == PollJob(j) \/ PollResult(j)

Next ==
    \/ \E j \in Jobs : (\E s \in Strategies : CreateJob(j, s)) \/ Enqueue(j) \/ Poll(j)
    \/ \E s \in Strategies : DeleteStrategy(s)
    \/ \E w \in Workers : Work(w)
    \/ (\E j \in Jobs : EnqueueFails(j)) \/ RedisRestarts \/ (\E w \in Workers : WorkerDies(w))

Spec == Init /\ [][Next]_vars

(* Handlers, workers and the page go on; nothing makes a user act.         *)
FairSpec ==
    /\ Spec
    /\ \A j \in Jobs : WF_vars(Enqueue(j)) /\ WF_vars(PollJob(j)) /\ WF_vars(PollResult(j))
    /\ \A w \in Workers : WF_vars(Work(w))

-----------------------------------------------------------------------------
(* A completed job has its result, whatever failed, was killed or was      *)
(* deleted meanwhile.                                                      *)
CompletedHasResult == \A j \in Jobs : status[j] = "completed" => j \in results

(* A page that is told a job completed is told its result, unless the job  *)
(* was deleted between its two queries.                                    *)
AnswerHasResult ==
    [][\A j \in Jobs :
        seen'[j] # seen[j] /\ seen'[j].status = "completed" /\ status[j] # "deleted"
            => seen'[j].result]_vars

(* A job is executed at most once at a time, and not while it still waits. *)
ExecutedOnce ==
    \A w \in Workers : step[w] # "idle" =>
        /\ \A v \in Workers \ {w} : task[v] # task[w]
        /\ \A i \in DOMAIN queue : queue[i] # task[w]

(* A failed job never completes after all: the page that stopped polling   *)
(* on the failure was told the truth.                                      *)
FailedIsFinal ==
    [][\A j \in Jobs : status[j] = "failed" => status'[j] \in {"failed", "deleted"}]_vars

(* A job that was asked for ends, unless a process dies or Redis is down.  *)
EveryJobEnds ==
    \A j \in Jobs : j \in Rows ~> status[j] \in Terminal \cup {"deleted"} \/ faults > 0

(* The inductive invariant.  A worker about to complete a job has saved    *)
(* the result, and so has whoever let a page read "completed", unless the  *)
(* row is gone ...                                                         *)
ResultSaved ==
    /\ CompletedHasResult
    /\ results \subseteq Rows
    /\ \A w \in Workers :
          step[w] = "mark_completed" /\ task[w] \in Rows => task[w] \in results
    /\ \A j \in Rows :
          /\ strategy_of[j] \in strategies
          /\ reading[j] = "completed" => j \in results

(* ... and a job is in one place: with its handler, in the queue, or with  *)
(* a worker, and a failed one is in none of them.                          *)
OnePlace ==
    /\ ExecutedOnce
    /\ \A i, k \in DOMAIN queue : queue[i] = queue[k] => i = k
    /\ \A i \in DOMAIN queue :
          queue[i] \notin created /\ status[queue[i]] \in {"pending", "deleted"}
    /\ \A j \in created : status[j] \in {"pending", "deleted"}
    /\ \A j \in Jobs : reading[j] # "none" => status[j] # "none"
    /\ \A w \in Workers : step[w] = "idle" <=> task[w] = None
    /\ \A w \in Workers : step[w] # "idle" =>
          /\ task[w] \in Jobs \ created
          /\ status[task[w]] \notin {"none", "failed"}

JobInv == TypeOK /\ ResultSaved /\ OnePlace
=============================================================================
