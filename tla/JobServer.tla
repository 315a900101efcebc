------------------------------ MODULE JobServer ------------------------------
(***************************************************************************)
(* The job system of tools/ace-server.cpp: HTTP handlers create jobs, push *)
(* them on one FIFO queue, and a single worker thread runs them.  Clients  *)
(* poll, fetch results and cancel through GET and POST /job, each of which *)
(* runs on a thread of its own beside the worker.                          *)
(*                                                                         *)
(* A job is named by its creation number: job_make_id draws 64 random bits *)
(* and collisions are left out, so g_job_order is the order of the numbers *)
(* and g_jobs together with g_job_order is the set pool.                   *)
(***************************************************************************)
EXTENDS Integers, Sequences, FiniteSets

CONSTANTS Submissions,  \* bound: how many jobs the clients submit
          MaxJobs,      \* MAX_JOBS
          Threads,      \* the size of the HTTP server's thread pool
          Kinds         \* the kinds of job the clients submit

AllKinds == {"lm", "synth", "understand", "caption", "decode", "encode"}

ASSUME SubmissionsAssumption == Submissions \in Nat \ {0}
ASSUME MaxJobsAssumption == MaxJobs \in Nat \ {0}
ASSUME ThreadsAssumption == Threads \in Nat \ {0}
ASSUME KindsAssumption == Kinds \subseteq AllKinds

Jobs == 1 .. Submissions
NoJob == 0
Statuses == {"running", "done", "failed", "cancelled"}

\* The pipeline call of these kinds is handed the job's cancel flag, and its
\* failure is reported as a cancellation when the flag is set.
Interruptible == {"lm", "synth", "understand", "caption"}
\* The MP3 encoder polls the flag too, and returns early with nothing.
CutShort == {"synth", "decode"}
\* understand_worker looks at the flag once more before it builds the result.
Rechecked == {"understand", "caption"}
\* These workers choose the final status by the flag.
CheckedLast == {"synth", "decode", "encode"}

VARIABLES
    born,      \* jobs created so far: 1 .. born
    pool,      \* g_jobs and g_job_order
    kind,      \* which endpoint made the job
    status,    \* Job::status
    cancel,    \* Job::cancel
    result,    \* Job::result_body and result_mime: "none", "whole" or "cut"
    submit,    \* the POST handler that made the job: "none", "created", "pushed"
    queue,     \* g_work_queue
    pc,        \* where worker_main is
    current,   \* the job it runs, or NoJob
    verdict,   \* the last status its function has chosen, "running" until then
    serving,   \* svr.listen has not returned
    stop,      \* g_work_stop
    fetch,     \* a GET ...&result=1 of the job: "none", "found", "ready"
    ask        \* the POST ...&cancel=1: "none", "found", "seen", "acked"

vars == <<born, pool, kind, status, cancel, result, submit, queue, pc, current,
          verdict, serving, stop, fetch, ask>>

jobVars == <<born, pool, kind>>
workVars == <<queue, pc, current, verdict>>
clientVars == <<fetch, ask>>

Created == 1 .. born

-----------------------------------------------------------------------------
Init ==
    /\ born = 0
    /\ pool = {}
    /\ kind = [j \in Jobs |-> "lm"]
    /\ status = [j \in Jobs |-> "running"]
    /\ cancel = [j \in Jobs |-> FALSE]
    /\ result = [j \in Jobs |-> "none"]
    /\ submit = [j \in Jobs |-> "none"]
    /\ queue = <<>>
    /\ pc = "idle"
    /\ current = NoJob
    /\ verdict = "running"
    /\ serving = TRUE
    /\ stop = FALSE
    /\ fetch = [j \in Jobs |-> "none"]
    /\ ask = [j \in Jobs |-> "none"]

\* The handler threads that are between two of their steps.
Handling(j) ==
    {h \in {"submit", "fetch", "ask"} :
        \/ h = "submit" /\ submit[j] = "created"
        \/ h = "fetch" /\ fetch[j] # "none"
        \/ h = "ask" /\ ask[j] \in {"found", "seen"}}

Busy == UNION {{j} \X Handling(j) : j \in Jobs}

\* A request is accepted while svr.listen runs and a pool thread is free.
Accepting == serving /\ Cardinality(Busy) < Threads

-----------------------------------------------------------------------------
(* The POST handlers.  Validation answers 4xx before any state changes, so a *)
(* handler is modelled from job_create on.                                   *)

\* The entries job_create drops: while the pool is over the limit, the oldest
\* finished one.  p is the pool with the new job in it.
Evicted(p) ==
    LET finished == {j \in p : status[j] # "running"}
    IN  {j \in finished :
            Cardinality({k \in finished : k < j}) < Cardinality(p) - MaxJobs}

\* job_create: one critical section of mtx_jobs.
JobCreate(k) ==
    /\ Accepting
    /\ born < Submissions
    /\ born' = born + 1
    /\ kind' = [kind EXCEPT ![born + 1] = k]
    /\ submit' = [submit EXCEPT ![born + 1] = "created"]
    /\ LET p == pool \cup {born + 1}
       IN  pool' = p \ Evicted(p)
    /\ UNCHANGED <<status, cancel, result, workVars, serving, stop, clientVars>>

\* Slip: the handler forgets to queue.
JobPushNothing(j) ==
    /\ submit[j] = "created"
    /\ submit' = [submit EXCEPT ![j] = "pushed"]
    /\ UNCHANGED <<jobVars, status, cancel, result, workVars, serving, stop,
                   clientVars>>

\* job_push and the reply that tells the client the id: the handler took no
\* lock since job_create, so another handler's push may come first.
JobPush(j) ==
    /\ submit[j] = "created"
    /\ submit' = [submit EXCEPT ![j] = "pushed"]
    /\ queue' = Append(queue, j)
    /\ UNCHANGED <<jobVars, status, cancel, result, pc, current, verdict, serving,
                   stop, clientVars>>

-----------------------------------------------------------------------------
(* The worker thread.                                                        *)

\* Slips: the worker leaves the job in the queue, or takes the newest one.
WorkerPeek ==
    /\ pc = "idle" /\ ~stop /\ queue # <<>>
    /\ current' = Head(queue)
    /\ pc' = "check"
    /\ UNCHANGED <<jobVars, status, cancel, result, submit, queue, verdict, serving,
                   stop, clientVars>>
WorkerPopNewest ==
    /\ pc = "idle" /\ ~stop /\ queue # <<>>
    /\ current' = queue[Len(queue)]
    /\ queue' = SubSeq(queue, 1, Len(queue) - 1)
    /\ pc' = "check"
    /\ UNCHANGED <<jobVars, status, cancel, result, submit, verdict, serving, stop,
                   clientVars>>

\* worker_main under mtx_work: the stop flag is looked at first.
WorkerPop ==
    /\ pc = "idle"
    /\ ~stop
    /\ queue # <<>>
    /\ current' = Head(queue)
    /\ queue' = Tail(queue)
    /\ pc' = "check"
    /\ UNCHANGED <<jobVars, status, cancel, result, submit, verdict, serving, stop,
                   clientVars>>

\* Slips: the stop flag is seen in mid-job, or only once the queue is empty.
WorkerExitAnywhere ==
    /\ stop
    /\ pc' = "exited"
    /\ UNCHANGED <<jobVars, status, cancel, result, submit, queue, current,
                   verdict, serving, stop, clientVars>>
WorkerExitDrained ==
    /\ pc = "idle" /\ stop /\ queue = <<>>
    /\ pc' = "exited"
    /\ UNCHANGED <<jobVars, status, cancel, result, submit, queue, current,
                   verdict, serving, stop, clientVars>>

WorkerExit ==
    /\ pc = "idle"
    /\ stop
    /\ pc' = "exited"
    /\ UNCHANGED <<jobVars, status, cancel, result, submit, queue, current,
                   verdict, serving, stop, clientVars>>

\* The worker function has looked at the flag, where it does, and chosen the
\* last status.
Choose(s) ==
    /\ verdict' = s
    /\ pc' = "settle"
    /\ UNCHANGED <<jobVars, status, cancel, result, submit, queue, current,
                   serving, stop, clientVars>>

\* The status is stored, whatever became of the flag meanwhile, and the
\* function returns to worker_main.
Settle ==
    /\ pc = "settle"
    /\ status' = [status EXCEPT ![current] = verdict]
    /\ verdict' = "running"
    /\ current' = NoJob
    /\ pc' = "idle"
    /\ UNCHANGED <<jobVars, cancel, result, submit, queue, serving, stop,
                   clientVars>>

\* The worker function goes on to its next step.
GoOn(step) ==
    /\ pc' = step
    /\ UNCHANGED <<jobVars, status, cancel, result, submit, queue, current,
                   verdict, serving, stop, clientVars>>

\* Slip: a worker function that does not look at the flag first.
CheckNothing == pc = "check" /\ GoOn("prepare")

\* The first thing every worker function does.
CheckCancel ==
    /\ pc = "check"
    /\ IF cancel[current] THEN Choose("cancelled") ELSE GoOn("prepare")

\* Names are resolved and the context loaded: a failure is FAILED whatever the
\* cancel flag says.
Prepare ==
    /\ pc = "prepare"
    /\ GoOn("generate") \/ Choose("failed")

FailureStatus(j) ==
    IF kind[j] \in Interruptible /\ cancel[j] THEN "cancelled" ELSE "failed"

\* The pipeline call.  It may fail of itself at any time; it stops for the
\* flag only when the flag is set, which FailureStatus then reports.
Generate ==
    /\ pc = "generate"
    /\ \/ Choose(FailureStatus(current))
       \/ GoOn(IF kind[current] \in Rechecked THEN "recheck" ELSE "encode")

\* understand_worker before the result: the flag again, and a caption model
\* that returned unusable text.
Recheck ==
    /\ pc = "recheck"
    /\ IF cancel[current]
       THEN Choose("cancelled")
       ELSE \/ GoOn("encode")
            \/ kind[current] = "caption" /\ Choose("failed")

\* The result is serialized or encoded and moved into the job: result_body,
\* then result_mime.  An MP3 encoder that saw the flag leaves its track out.
StoreResult ==
    /\ pc = "encode"
    /\ \/ result' = [result EXCEPT ![current] = "whole"]
       \/ /\ kind[current] \in CutShort
          /\ cancel[current]
          /\ result' = [result EXCEPT ![current] = "cut"]
    /\ pc' = "finish"
    /\ UNCHANGED <<jobVars, status, cancel, submit, queue, current, verdict,
                   serving, stop, clientVars>>

FinalStatus(j) ==
    IF kind[j] \in CheckedLast /\ cancel[j] THEN "cancelled" ELSE "done"

Finish ==
    /\ pc = "finish"
    /\ Choose(FinalStatus(current))

Worker ==
    \/ WorkerPop
    \/ WorkerExit
    \/ CheckCancel
    \/ Prepare
    \/ Generate
    \/ Recheck
    \/ StoreResult
    \/ Finish
    \/ Settle

-----------------------------------------------------------------------------
(* GET and POST /job.  job_find copies the shared pointer under mtx_jobs, so  *)
(* the handler keeps the job when job_create evicts it meanwhile.             *)

\* Only the client that was told the id asks for it.
Findable(j) == Accepting /\ submit[j] = "pushed" /\ j \in pool

FetchFind(j) ==
    /\ Findable(j)
    /\ fetch[j] = "none"
    /\ fetch' = [fetch EXCEPT ![j] = "found"]
    /\ UNCHANGED <<jobVars, status, cancel, result, submit, workVars, serving,
                   stop, ask>>

\* Slip: any finished job's result is handed out.
FetchFinished(j) ==
    /\ fetch[j] = "found"
    /\ fetch' = [fetch EXCEPT ![j] = IF status[j] # "running" THEN "ready" ELSE "none"]
    /\ UNCHANGED <<jobVars, status, cancel, result, submit, workVars, serving,
                   stop, ask>>

\* 404 "Result not ready" unless the status is DONE.
FetchStatus(j) ==
    /\ fetch[j] = "found"
    /\ fetch' = [fetch EXCEPT ![j] = IF status[j] = "done" THEN "ready" ELSE "none"]
    /\ UNCHANGED <<jobVars, status, cancel, result, submit, workVars, serving,
                   stop, ask>>

FetchResult(j) ==
    /\ fetch[j] = "ready"
    /\ fetch' = [fetch EXCEPT ![j] = "none"]
    /\ UNCHANGED <<jobVars, status, cancel, result, submit, workVars, serving,
                   stop, ask>>

CancelFind(j) ==
    /\ Findable(j)
    /\ ask[j] = "none"
    /\ ask' = [ask EXCEPT ![j] = "found"]
    /\ UNCHANGED <<jobVars, status, cancel, result, submit, workVars, serving,
                   stop, fetch>>

\* A finished job answers with its own status; a running one goes on.
CancelStatus(j) ==
    /\ ask[j] = "found"
    /\ ask' = [ask EXCEPT ![j] = IF status[j] = "running" THEN "seen" ELSE "none"]
    /\ UNCHANGED <<jobVars, status, cancel, result, submit, workVars, serving,
                   stop, fetch>>

\* The flag is stored and the client is told "cancelled".
CancelStore(j) ==
    /\ ask[j] = "seen"
    /\ ask' = [ask EXCEPT ![j] = "acked"]
    /\ cancel' = [cancel EXCEPT ![j] = TRUE]
    /\ UNCHANGED <<jobVars, status, result, submit, workVars, serving, stop,
                   fetch>>

-----------------------------------------------------------------------------
(* Shutdown.                                                                 *)

\* on_signal: svr.stop(), after which no request is accepted.
Signal ==
    /\ serving
    /\ serving' = FALSE
    /\ UNCHANGED <<jobVars, status, cancel, result, submit, workVars, stop,
                   clientVars>>

\* svr.listen returns once the handler threads are joined; main then sets
\* g_work_stop and notifies the worker.
StopWorker ==
    /\ ~serving
    /\ ~stop
    /\ Busy = {}
    /\ stop' = TRUE
    /\ UNCHANGED <<jobVars, status, cancel, result, submit, workVars, serving,
                   clientVars>>

\* worker.join() has returned and the process ends.
Exited ==
    /\ pc = "exited"
    /\ UNCHANGED vars

-----------------------------------------------------------------------------
Handler(j) ==
    \/ JobPush(j)
    \/ FetchStatus(j)
    \/ FetchResult(j)
    \/ CancelStatus(j)
    \/ CancelStore(j)

Next ==
    \/ \E k \in Kinds : JobCreate(k)
    \/ \E j \in Jobs : FetchFind(j) \/ CancelFind(j) \/ Handler(j)
    \/ Worker
    \/ Signal
    \/ StopWorker
    \/ Exited

\* The worker thread and a handler that has started run on; requests and
\* signals are the environment's.
Fairness ==
    /\ WF_vars(Worker)
    /\ \A j \in Jobs : WF_vars(Handler(j))
    /\ WF_vars(StopWorker)

Spec == Init /\ [][Next]_vars /\ Fairness

-----------------------------------------------------------------------------
(* JobServer implements JobService: the line is the worker's job followed by *)
(* the queue, and the service closes when main stops the worker: it then     *)
(* discards what still waits.                                                *)

Service == INSTANCE JobService WITH
    Room  <- MaxJobs,
    state <- [j \in Jobs |->
                 IF j > born THEN "unborn"
                 ELSE IF status[j] = "running" THEN "accepted" ELSE status[j]],
    known <- pool,
    line  <- (IF current = NoJob THEN <<>> ELSE <<current>>)
                 \o (IF stop THEN <<>> ELSE queue),
    open  <- ~stop

\* The implementation, with the fairness of both sides.
ImplementsService == Service!Spec

-----------------------------------------------------------------------------
(* Properties.                                                               *)

\* Every variable stays in its range.
TypeOK ==
    /\ born \in 0 .. Submissions
    /\ pool \in SUBSET Jobs
    /\ kind \in [Jobs -> AllKinds]
    /\ status \in [Jobs -> Statuses]
    /\ cancel \in [Jobs -> BOOLEAN]
    /\ result \in [Jobs -> {"none", "whole", "cut"}]
    /\ submit \in [Jobs -> {"none", "created", "pushed"}]
    /\ queue \in Seq(Jobs)
    /\ pc \in {"idle", "check", "prepare", "generate", "recheck", "encode",
               "finish", "settle", "exited"}
    /\ current \in Jobs \cup {NoJob}
    /\ verdict \in Statuses
    /\ serving \in BOOLEAN
    /\ stop \in BOOLEAN
    /\ fetch \in [Jobs -> {"none", "found", "ready"}]
    /\ ask \in [Jobs -> {"none", "found", "seen", "acked"}]

\* A job that is not finished can always be found, however many jobs came
\* after it: job_create never evicts a running one (ace-server.cpp:369-388).
RunningKept ==
    \A j \in Created : status[j] = "running" => j \in pool

\* Where a pushed job is: waiting, with the worker, or finished.
Waiting == {queue[i] : i \in DOMAIN queue}

\* No accepted job is lost or run twice: a pushed job waits in one place of
\* the queue, is the worker's current one, or has its final status, and
\* never two of these.
OnePlace ==
    /\ \A i, k \in DOMAIN queue : queue[i] = queue[k] => i = k
    /\ \A j \in Waiting \cup ({current} \ {NoJob}) :
          submit[j] = "pushed" /\ status[j] = "running"
    /\ current \notin Waiting
    /\ \A j \in Jobs :
          submit[j] = "pushed" /\ status[j] = "running" =>
              j \in Waiting \cup {current}

\* A pushed job is waiting, being done or finished, and until it is finished
\* a client can find it, whatever else is created and evicted meanwhile.
NeverLost == RunningKept /\ OnePlace

\* The ordering contract of struct Job: who sees "done" reads a whole result,
\* never one the encoder left short because of a cancel.
DoneIsWhole ==
    \A j \in Jobs : status[j] = "done" => result[j] = "whole"

\* The same from the client's side, over the window between the handler's
\* status load and its copy of the body, even if the job is evicted in it.
FetchedIsWhole ==
    \A j \in Jobs : fetch[j] = "ready" => result[j] = "whole"

\* A job is reported cancelled only if a client asked for it.
CancelledWasAsked ==
    \A j \in Jobs : status[j] = "cancelled" => ask[j] = "acked"

\* A final status is final.
StatusIsFinal ==
    [][\A j \in Jobs : status[j] # "running" => status'[j] = status[j]]_vars

\* A cancel the server acknowledged while the job still waited in the queue
\* is honoured: the job never runs (tests/test-caption-real.py:110).
QueuedCancelHonoured ==
    \A j \in Jobs :
        []((ask[j] = "acked" /\ j \in Waiting) => [](status[j] \notin {"done", "failed"}))

\* worker_main's comment: "on stop: finishes the current job, discards
\* pending ones" - a job the worker started is not left unfinished.
StopFinishesCurrent ==
    pc = "exited" =>
        /\ current = NoJob
        /\ \A j \in Jobs : submit[j] = "pushed" /\ status[j] = "running" => j \in Waiting

\* Every accepted job gets a final status unless the server is stopped.
EveryJobSettles ==
    \A j \in Jobs : submit[j] = "pushed" ~> (status[j] # "running" \/ ~serving)

\* After a signal the process comes to an end, whatever was in flight.
SignalEnds == ~serving ~> pc = "exited"
=============================================================================
