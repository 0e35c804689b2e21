---------------------------- MODULE JobQueue_proof ----------------------------
(***************************************************************************)
(* Proofs about the jobs, for any strategies, jobs, workers and number of  *)
(* failures: a completed job has its result, a job is executed by one      *)
(* worker at a time, and a failed job stays failed.                        *)
(***************************************************************************)
EXTENDS JobQueue, TLAPS, SequenceTheorems

(* Before the first request there are no rows, no queue and idle workers.  *)
LEMMA InitInv == Init => JobInv
<1> SUFFICES ASSUME Init PROVE JobInv
  OBVIOUS
<1> USE JobQueueAssumption DEF Init
<1>1. TypeOK
  BY DEF TypeOK, Steps, InTry, NoAnswer, Answer, Status
<1>2. ResultSaved
  BY DEF ResultSaved, CompletedHasResult, Rows, Status
<1>3. OnePlace
  BY DEF OnePlace, ExecutedOnce
<1> QED  BY <1>1, <1>2, <1>3 DEF JobInv

(* The handlers of the API and the deletion of a strategy.                 *)
LEMMA ApiInv ==
  ASSUME JobInv,
         \/ \E j \in Jobs : (\E s \in Strategies : CreateJob(j, s)) \/ Enqueue(j) \/ EnqueueFails(j)
         \/ \E s \in Strategies : DeleteStrategy(s)
  PROVE  JobInv'
<1> USE JobQueueAssumption DEF JobInv
<1>1. ASSUME NEW j \in Jobs, NEW s \in Strategies, CreateJob(j, s)
      PROVE  JobInv'
  <2> USE <1>1 DEF CreateJob, workerVars, pageVars
  <2>1. TypeOK'
    BY DEF TypeOK, Status
  <2>2. ResultSaved'
    BY DEF TypeOK, ResultSaved, CompletedHasResult, Rows, Status, OnePlace
  <2>3. OnePlace'
    BY DEF TypeOK, OnePlace, ExecutedOnce
  <2> QED  BY <2>1, <2>2, <2>3
<1>2. ASSUME NEW j \in Jobs, Enqueue(j)
      PROVE  JobInv'
  <2> USE <1>2 DEF Enqueue, dbVars, workerVars, pageVars
  <2>1. /\ queue' \in Seq(Jobs) /\ Len(queue') = Len(queue) + 1
        /\ \A i \in 1..Len(queue) : queue'[i] = queue[i]
        /\ queue'[Len(queue) + 1] = j
    BY AppendProperties DEF TypeOK
  <2>2. TypeOK'
    BY <2>1 DEF TypeOK
  <2>3. ResultSaved'
    BY DEF ResultSaved, CompletedHasResult, Rows
  <2>4. /\ DOMAIN queue = 1..Len(queue) /\ DOMAIN queue' = 1..(Len(queue) + 1)
        /\ Len(queue) \in Nat
    BY <2>1, LenProperties DEF TypeOK
  <2>5. \A i \in DOMAIN queue' :
          \/ queue'[i] = j /\ i = Len(queue) + 1
          \/ i \in DOMAIN queue /\ queue'[i] = queue[i]
    BY <2>1, <2>4
  <2>6. OnePlace'
    BY <2>4, <2>5 DEF OnePlace, ExecutedOnce
  <2> QED  BY <2>2, <2>3, <2>6
<1>3. ASSUME NEW j \in Jobs, EnqueueFails(j)
      PROVE  JobInv'
  <2> USE <1>3 DEF EnqueueFails, Fault, dbVars, workerVars, pageVars
  <2>1. TypeOK'
    BY DEF TypeOK
  <2>2. ResultSaved' /\ OnePlace'
    BY DEF ResultSaved, CompletedHasResult, Rows, OnePlace, ExecutedOnce
  <2> QED  BY <2>1, <2>2
<1>4. ASSUME NEW s \in Strategies, DeleteStrategy(s)
      PROVE  JobInv'
  <2> USE <1>4 DEF DeleteStrategy, workerVars, pageVars
  <2>1. TypeOK'
    BY DEF TypeOK, Rows, Status
  <2>2. ResultSaved'
    BY DEF TypeOK, ResultSaved, CompletedHasResult, Rows, Status
  <2>3. OnePlace'
    BY DEF TypeOK, OnePlace, ExecutedOnce, Rows
  <2> QED  BY <2>1, <2>2, <2>3
<1> QED  BY <1>1, <1>2, <1>3, <1>4

(* The queue: the head goes to a worker, or the tail is lost.              *)
LEMMA QueueInv ==
  ASSUME JobInv, (\E w \in Workers : Dequeue(w)) \/ RedisRestarts
  PROVE  JobInv'
<1> USE JobQueueAssumption DEF JobInv
<1>0. DOMAIN queue = 1..Len(queue) /\ Len(queue) \in Nat
  BY LenProperties DEF TypeOK
<1>1. ASSUME NEW w \in Workers, Dequeue(w)
      PROVE  JobInv'
  <2> USE <1>1 DEF Dequeue, dbVars, pageVars
  <2>1. /\ Head(queue) \in Jobs /\ queue' \in Seq(Jobs)
        /\ Len(queue') = Len(queue) - 1
        /\ \A i \in 1..Len(queue') : queue'[i] = queue[i + 1]
    BY HeadTailProperties DEF TypeOK
  <2>2. TypeOK'
    BY <2>1 DEF TypeOK, Steps
  <2>3. ResultSaved'
    BY DEF TypeOK, ResultSaved, CompletedHasResult, Rows, Status
  <2>4. DOMAIN queue' = 1..(Len(queue) - 1) /\ Len(queue) > 0 /\ Head(queue) = queue[1]
    BY <2>1, <1>0, EmptySeq, LenProperties DEF TypeOK
  <2>5. \A i \in DOMAIN queue' : i + 1 \in DOMAIN queue \ {1} /\ queue'[i] = queue[i + 1]
    BY <2>1, <2>4, <1>0
  <2>6. /\ \A i, k \in DOMAIN queue' : queue'[i] = queue'[k] => i = k
        /\ \A i \in DOMAIN queue' :
              /\ queue'[i] # queue[1]
              /\ queue'[i] \notin created /\ status[queue'[i]] \in {"pending", "deleted"}
    <3> SUFFICES ASSUME NEW i \in DOMAIN queue', NEW k \in DOMAIN queue'
                 PROVE  /\ queue'[i] = queue'[k] => i = k
                        /\ queue'[i] # queue[1]
                        /\ queue'[i] \notin created /\ status[queue'[i]] \in {"pending", "deleted"}
      OBVIOUS
    <3>1. 1 \in DOMAIN queue /\ i \in Int /\ k \in Int
      BY <2>4, <1>0
    <3> QED  BY <3>1, <2>5 DEF OnePlace
  <2>7. queue[1] \in Jobs \ created /\ status[queue[1]] \notin {"none", "failed"}
    BY <2>1, <2>4, <1>0 DEF OnePlace
  <2>8. \A v \in Workers : step[v] # "idle" =>
           /\ task[v] # queue[1]
           /\ \A i \in DOMAIN queue' : queue'[i] # task[v]
    BY <2>5, <2>4, <1>0 DEF OnePlace, ExecutedOnce
  <2>9. ExecutedOnce'
    BY <2>1, <2>4, <2>6, <2>8 DEF TypeOK, OnePlace, ExecutedOnce
  <2>10. OnePlace'
    BY <2>1, <2>4, <2>6, <2>7, <2>9 DEF TypeOK, OnePlace
  <2> QED  BY <2>2, <2>3, <2>10
<1>2. CASE RedisRestarts
  <2> USE <1>2 DEF RedisRestarts, Fault, dbVars, workerVars, pageVars
  <2>1. PICK n \in 0..(Len(queue) - 1) : queue' = SubSeq(queue, 1, n)
    BY DEF RedisRestarts
  <2>2. \A i \in 1..n : queue[i] \in Jobs
    BY <1>0, ElementOfSeq DEF TypeOK
  <2>3. /\ queue' \in Seq(Jobs) /\ Len(queue') = n
        /\ \A i \in 1..n : queue'[i] = queue[i]
    BY <2>1, <2>2, <1>0, SubSeqProperties
  <2>4. \A i \in DOMAIN queue' : i \in DOMAIN queue /\ queue'[i] = queue[i]
    BY <2>1, <2>3, <1>0, LenProperties
  <2>5. TypeOK'
    BY <2>3 DEF TypeOK
  <2>6. ResultSaved'
    BY DEF ResultSaved, CompletedHasResult, Rows
  <2>7. OnePlace'
    BY <2>4 DEF OnePlace, ExecutedOnce
  <2> QED  BY <2>5, <2>6, <2>7
<1> QED  BY <1>1, <1>2

(* The steps of a task function, and the end of a worker.                  *)
LEMMA TaskInv ==
  ASSUME JobInv, NEW w \in Workers,
         \/ GetJob(w) \/ MarkRunning(w) \/ GetStrategy(w) \/ Compute(w) \/ SaveResult(w)
         \/ MarkCompleted(w) \/ Return(w) \/ Raises(w) \/ MarkFailed(w) \/ WorkerDies(w)
  PROVE  JobInv'
<1> USE JobQueueAssumption DEF JobInv, Goto, Leave, pageVars
<1>1. step[w] # "idle" /\ task[w] \in Jobs \ created /\ status[task[w]] \notin {"none", "failed"}
  BY DEF GetJob, MarkRunning, GetStrategy, Compute, SaveResult, MarkCompleted, Return, Raises,
     MarkFailed, WorkerDies, InTry, OnePlace
<1>2. CASE \/ GetJob(w) \/ GetStrategy(w) \/ Compute(w) \/ Return(w) \/ Raises(w) \/ WorkerDies(w)
  <2>1. TypeOK'
    BY <1>2 DEF GetJob, GetStrategy, Compute, Return, Raises, WorkerDies, Fault, TypeOK, Steps,
       InTry, dbVars
  <2>2. ResultSaved'
    BY <1>2 DEF GetJob, GetStrategy, Compute, Return, Raises, WorkerDies, ResultSaved,
       CompletedHasResult, Rows, TypeOK, dbVars
  <2>3. OnePlace'
    BY <1>1, <1>2 DEF GetJob, GetStrategy, Compute, Return, Raises, WorkerDies, OnePlace,
       ExecutedOnce, TypeOK, dbVars, InTry
  <2> QED  BY <2>1, <2>2, <2>3
<1>3. CASE SaveResult(w)
  <2>1. TypeOK'
    BY <1>1, <1>3 DEF SaveResult, TypeOK, Steps, InTry
  <2>2. ResultSaved'
    BY <1>1, <1>3 DEF SaveResult, ResultSaved, CompletedHasResult, Rows, TypeOK
  <2>3. OnePlace'
    BY <1>1, <1>3 DEF SaveResult, OnePlace, ExecutedOnce, TypeOK
  <2> QED  BY <2>1, <2>2, <2>3
<1>4. CASE MarkRunning(w) \/ MarkCompleted(w) \/ MarkFailed(w)
  <2>1. PICK s \in Status : Mark(task[w], s) /\ (s = "completed" => step[w] = "mark_completed")
    BY <1>4 DEF MarkRunning, MarkCompleted, MarkFailed, Status
  <2>2. \A j \in Jobs : status'[j] = IF j = task[w] /\ j \in Rows THEN s ELSE status[j]
    BY <1>1, <2>1 DEF Mark, TypeOK
  <2>3. TypeOK'
    BY <1>1, <1>4, <2>1 DEF Mark, MarkRunning, MarkCompleted, MarkFailed, TypeOK, Steps, InTry
  <2>4. Rows' = Rows
    BY <2>1, <2>2 DEF Rows
  <2>5. ResultSaved'
    BY <1>1, <1>4, <2>1, <2>2, <2>4 DEF MarkRunning, MarkCompleted, MarkFailed, ResultSaved,
       CompletedHasResult, TypeOK
  <2>6. OnePlace'
    <3>1. ExecutedOnce'
      BY <1>1, <1>4 DEF MarkRunning, MarkCompleted, MarkFailed, OnePlace, ExecutedOnce, TypeOK
    <3>2. \A i \in DOMAIN queue : queue[i] # task[w]
      BY <1>1 DEF OnePlace, ExecutedOnce
    <3>3. \A i \in DOMAIN queue : queue[i] \in Jobs
      BY ElementOfSeq, LenProperties DEF TypeOK
    <3>4. \A j \in Jobs : status'[j] = status[j] \/ (j = task[w] /\ status'[j] = s)
      BY <2>2
    <3>5. \A v \in Workers : step'[v] # "idle" => status'[task'[v]] \notin {"none", "failed"}
      <4> SUFFICES ASSUME NEW v \in Workers, step'[v] # "idle"
                   PROVE  status'[task'[v]] \notin {"none", "failed"}
        OBVIOUS
      <4>1. CASE v = w
        BY <1>1, <1>4, <2>2, <4>1 DEF MarkRunning, MarkCompleted, MarkFailed, TypeOK, Mark, Rows
      <4>2. CASE v # w
        BY <1>1, <1>4, <3>4, <4>2 DEF MarkRunning, MarkCompleted, MarkFailed, TypeOK, OnePlace,
           ExecutedOnce
      <4> QED  BY <4>1, <4>2
    <3>6. /\ \A i \in DOMAIN queue : status'[queue[i]] \in {"pending", "deleted"}
          /\ \A j \in created : status'[j] \in {"pending", "deleted"}
          /\ \A j \in Jobs : reading[j] # "none" => status'[j] # "none"
      BY <1>1, <3>2, <3>3, <3>4 DEF OnePlace, TypeOK, Status
    <3> QED
      BY <1>1, <1>4, <3>1, <3>5, <3>6 DEF MarkRunning, MarkCompleted, MarkFailed, OnePlace, TypeOK
  <2> QED  BY <2>3, <2>5, <2>6
<1> QED  BY <1>2, <1>3, <1>4

(* What a page is told is an answer, whatever the second query finds.      *)
LEMMA AnswerType ==
  ASSUME NEW s \in Status \cup {"none"}, NEW j, NEW S
  PROVE  [status |-> s, result |-> j \in S] \in Answer
<1>1. (j \in S) \in BOOLEAN
  OBVIOUS
<1> QED  BY <1>1 DEF Answer

(* The two queries of the page.                                            *)
LEMMA PageInv ==
  ASSUME JobInv, NEW j \in Jobs, Poll(j)
  PROVE  JobInv'
<1> USE JobQueueAssumption DEF JobInv, Poll, PollJob, PollResult, dbVars, workerVars
<1>1. TypeOK'
  <2>1. reading' \in [Jobs -> Status \cup {"none"}]
    BY DEF TypeOK, Rows
  <2>2. seen' \in [Jobs -> Answer]
    <3>1. CASE PollJob(j)
      BY <3>1 DEF TypeOK
    <3>2. CASE PollResult(j)
      <4>1. reading[j] \in Status \cup {"none"}
        BY DEF TypeOK
      <4>2. [status |-> reading[j], result |-> j \in results] \in Answer
        BY <4>1, AnswerType
      <4> QED  BY <3>2, <4>2 DEF TypeOK
    <3> QED  BY <3>1, <3>2
  <2> QED  BY <2>1, <2>2 DEF TypeOK
<1>2. ResultSaved'
  BY DEF ResultSaved, CompletedHasResult, Rows, TypeOK
<1>3. OnePlace'
  BY DEF OnePlace, ExecutedOnce, Rows, Status, TypeOK
<1> QED  BY <1>1, <1>2, <1>3

(* Every request, worker step, poll and failure keeps the invariant.       *)
LEMMA NextInv == JobInv /\ [Next]_vars => JobInv'
<1> SUFFICES ASSUME JobInv, [Next]_vars PROVE JobInv'
  OBVIOUS
<1>1. CASE UNCHANGED vars
  BY <1>1 DEF JobInv, TypeOK, ResultSaved, OnePlace, CompletedHasResult, ExecutedOnce, Rows,
     vars, dbVars, workerVars, pageVars
<1>2. CASE Next
  BY <1>2, ApiInv, QueueInv, TaskInv, PageInv DEF Next, Work
<1> QED  BY <1>1, <1>2

(* The inductive invariant holds in every reachable state of the jobs.     *)
THEOREM JobInvariant == Spec => []JobInv
<1> QED  BY InitInv, NextInv, PTL DEF Spec

-----------------------------------------------------------------------------
(* A completed job has its result.                                         *)
THEOREM CompletedJobsHaveResults == Spec => []CompletedHasResult
<1>1. JobInv => CompletedHasResult
  BY DEF JobInv, ResultSaved
<1> QED  BY <1>1, JobInvariant, PTL

(* No two workers execute one job, and none executes a job still queued.   *)
THEOREM OneWorkerPerJob == Spec => []ExecutedOnce
<1>1. JobInv => ExecutedOnce
  BY DEF JobInv, OnePlace
<1> QED  BY <1>1, JobInvariant, PTL

(* A page that learns of a completion gets the result with it.             *)
THEOREM AnswersAreComplete == Spec => AnswerHasResult
<1> DEFINE Told(j) ==
      seen'[j] # seen[j] /\ seen'[j].status = "completed" /\ status[j] # "deleted"
          => seen'[j].result
<1>1. JobInv /\ [Next]_vars => \A j \in Jobs : Told(j)
  <2> SUFFICES ASSUME JobInv, [Next]_vars, NEW j \in Jobs,
                      seen'[j] # seen[j], seen'[j].status = "completed", status[j] # "deleted"
               PROVE  seen'[j].result
    OBVIOUS
  <2>1. PICK k \in Jobs : PollResult(k)
    BY DEF Next, vars, CreateJob, Enqueue, Poll, PollJob, DeleteStrategy, Work, Dequeue, GetJob,
       MarkRunning, GetStrategy, Compute, SaveResult, MarkCompleted, Return, Raises, MarkFailed,
       EnqueueFails, RedisRestarts, WorkerDies, pageVars
  <2>2. j = k /\ reading[j] = "completed" /\ seen'[j].result = (j \in results)
    BY <2>1 DEF PollResult, JobInv, TypeOK
  <2>3. j \in Rows
    BY <2>2 DEF JobInv, OnePlace, TypeOK, Rows
  <2> QED  BY <2>2, <2>3 DEF JobInv, ResultSaved
<1> QED  BY <1>1, JobInvariant, PTL DEF Spec, AnswerHasResult

(* What a page was told of a failure remains true.                         *)
THEOREM FailedStaysFailed == Spec => FailedIsFinal
<1> DEFINE Stays(j) == status[j] = "failed" => status'[j] \in {"failed", "deleted"}
<1>1. JobInv /\ [Next]_vars => \A j \in Jobs : Stays(j)
  <2> SUFFICES ASSUME JobInv, [Next]_vars, NEW j \in Jobs, status[j] = "failed"
               PROVE  status'[j] \in {"failed", "deleted"}
    OBVIOUS
  <2>1. ASSUME NEW w \in Workers, MarkRunning(w) \/ MarkCompleted(w) \/ MarkFailed(w)
        PROVE  status'[j] = "failed"
    <3>1. task[w] # j
      BY <2>1 DEF MarkRunning, MarkCompleted, MarkFailed, JobInv, OnePlace
    <3> QED  BY <2>1, <3>1 DEF MarkRunning, MarkCompleted, MarkFailed, Mark, JobInv, TypeOK
  <2>2. ASSUME NEW k \in Jobs, NEW s \in Strategies, CreateJob(k, s)
        PROVE  status'[j] = "failed"
    BY <2>2 DEF CreateJob, JobInv, TypeOK
  <2>3. ASSUME NEW s \in Strategies, DeleteStrategy(s)
        PROVE  status'[j] \in {"failed", "deleted"}
    BY <2>3 DEF DeleteStrategy
  <2>4. CASE UNCHANGED status
    BY <2>4
  <2> QED
    BY <2>1, <2>2, <2>3, <2>4 DEF Next, vars, Enqueue, Poll, PollJob, PollResult, Work, Dequeue,
       GetJob, GetStrategy, Compute, SaveResult, Return, Raises, EnqueueFails, RedisRestarts,
       WorkerDies, dbVars
<1> QED  BY <1>1, JobInvariant, PTL DEF Spec, FailedIsFinal
=============================================================================
