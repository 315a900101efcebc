-------------------------- MODULE JobServer_proofs --------------------------
(***************************************************************************)
(* Proofs about JobServer for every number of jobs, threads and pool size. *)
(***************************************************************************)
EXTENDS JobServer, FiniteSetTheorems, WellFoundedInduction, TLAPS

\* An invariant strong enough to be inductive.  Beside the properties proved
\* from it, it says what a job looks like before it is created, that a worker
\* function always has a job, and what each flag and step was preceded by.
Unborn ==
    /\ pool \subseteq Created
    /\ \A j \in Jobs \ Created :
          /\ submit[j] = "none"
          /\ status[j] = "running"
          /\ result[j] = "none"

Shape ==
    /\ current = NoJob <=> pc \in {"idle", "exited"}
    /\ \A j \in Jobs : submit[j] # "pushed" =>
          status[j] = "running" /\ ask[j] = "none" /\ fetch[j] = "none"

Results ==
    /\ pc = "finish" => result[current] # "none"
    /\ \A j \in Jobs : result[j] = "cut" => cancel[j] /\ kind[j] \in CutShort

\* The flag may be raised behind the worker's last look, but what was chosen by
\* that look stays right.
Verdicts ==
    /\ pc = "settle" <=> verdict # "running"
    /\ verdict = "done" => result[current] = "whole"
    /\ verdict = "cancelled" => cancel[current]

IInv ==
    /\ TypeOK
    /\ Unborn
    /\ Shape
    /\ Results
    /\ Verdicts
    /\ RunningKept
    /\ OnePlace
    /\ DoneIsWhole
    /\ \A j \in Jobs : fetch[j] = "ready" => status[j] = "done"
    /\ \A j \in Jobs : cancel[j] => ask[j] = "acked"
    /\ CancelledWasAsked

-----------------------------------------------------------------------------

LEMMA InitEstablishes == Init => IInv
<1> SUFFICES ASSUME Init PROVE IInv
    OBVIOUS
<1> USE SubmissionsAssumption DEF Init, Jobs
<1>1. TypeOK
  <2>1. queue \in Seq(Jobs) /\ born \in 0 .. Submissions /\ pool \in SUBSET Jobs
    OBVIOUS
  <2>2. /\ verdict \in Statuses
        /\ kind \in [Jobs -> AllKinds]
        /\ status \in [Jobs -> Statuses]
        /\ cancel \in [Jobs -> BOOLEAN]
        /\ result \in [Jobs -> {"none", "whole", "cut"}]
        /\ submit \in [Jobs -> {"none", "created", "pushed"}]
        /\ fetch \in [Jobs -> {"none", "found", "ready"}]
        /\ ask \in [Jobs -> {"none", "found", "seen", "acked"}]
    BY DEF Statuses, AllKinds
  <2> QED  BY <2>1, <2>2 DEF TypeOK, NoJob
<1>2. Unborn /\ Shape /\ Results /\ Verdicts /\ RunningKept
  BY DEF Unborn, Shape, Results, Verdicts, RunningKept, Created, NoJob
<1>3. OnePlace
  BY DEF OnePlace, Waiting, NoJob
<1>4. DoneIsWhole /\ CancelledWasAsked
  BY DEF DoneIsWhole, CancelledWasAsked
<1> QED  BY <1>1, <1>2, <1>3, <1>4 DEF IInv

\* A worker function that goes on to another of its steps.
LEMMA GoOnKeeps ==
  ASSUME IInv, current # NoJob, pc # "settle",
         NEW step \in {"prepare", "generate", "recheck", "encode"},
         GoOn(step)
  PROVE  IInv'
<1> USE DEF GoOn, jobVars, clientVars
<1>1. TypeOK'
  BY DEF IInv, TypeOK
<1>2. (Unborn /\ RunningKept)'
  BY DEF IInv, Unborn, RunningKept, Created
<1>3. (Shape /\ Results /\ Verdicts)'
  BY DEF IInv, Shape, Results, Verdicts
<1>4. OnePlace'
  BY DEF IInv, OnePlace, Waiting
<1>5. (DoneIsWhole /\ CancelledWasAsked)'
  BY DEF IInv, DoneIsWhole, CancelledWasAsked
<1> QED  BY <1>1, <1>2, <1>3, <1>4, <1>5 DEF IInv

\* A worker function that chooses a final status: "done" only with a whole
\* result, "cancelled" only with the flag set.
LEMMA ChooseKeeps ==
  ASSUME IInv, current # NoJob,
         NEW s \in {"done", "failed", "cancelled"},
         s = "done" => result[current] = "whole",
         s = "cancelled" => cancel[current],
         Choose(s)
  PROVE  IInv'
<1> USE DEF Choose, jobVars, clientVars
<1>1. TypeOK'
  BY DEF IInv, TypeOK, Statuses
<1>2. (Unborn /\ RunningKept)'
  BY DEF IInv, Unborn, RunningKept, Created
<1>3. (Shape /\ Results /\ Verdicts)'
  BY DEF IInv, Shape, Results, Verdicts
<1>4. OnePlace'
  BY DEF IInv, OnePlace, Waiting
<1>5. (DoneIsWhole /\ CancelledWasAsked)'
  BY DEF IInv, DoneIsWhole, CancelledWasAsked
<1> QED  BY <1>1, <1>2, <1>3, <1>4, <1>5 DEF IInv

\* The status that is stored is a final one of the job the worker has.
LEMMA SettleIs ==
  ASSUME IInv, Settle
  PROVE  /\ current # NoJob
         /\ verdict \in {"done", "failed", "cancelled"}
         /\ verdict = "done" => result[current] = "whole"
         /\ verdict = "cancelled" => cancel[current]
BY DEF IInv, Settle, Shape, Verdicts, TypeOK, Statuses

LEMMA SettleKeeps ==
  ASSUME IInv, Settle
  PROVE  IInv'
<1> DEFINE s == verdict
<1>a. /\ current # NoJob /\ s \in {"done", "failed", "cancelled"}
      /\ s = "done" => result[current] = "whole"
      /\ s = "cancelled" => cancel[current]
  BY SettleIs
<1> USE <1>a DEF Settle, jobVars, clientVars
<1>0. /\ current \in Jobs
      /\ submit[current] = "pushed"
      /\ status[current] = "running"
      /\ current \notin Waiting
      /\ \A j \in Jobs : status'[j] = IF j = current THEN s ELSE status[j]
  BY DEF IInv, TypeOK, OnePlace, Waiting
<1>1. TypeOK'
  BY <1>0 DEF IInv, TypeOK, Statuses
<1>2. (Unborn /\ RunningKept)'
  BY <1>0 DEF IInv, Unborn, RunningKept, Created, Jobs, TypeOK
<1>3. (Shape /\ Results /\ Verdicts)'
  BY <1>0 DEF IInv, Shape, Results, Verdicts, TypeOK
<1>4. OnePlace'
  <2>1. Waiting' = Waiting /\ current' = NoJob
    BY DEF Waiting
  <2>2. \A j \in Waiting : submit'[j] = "pushed" /\ status'[j] = "running"
    <3>1. Waiting \subseteq Jobs
      BY DEF IInv, TypeOK, Waiting
    <3> QED  BY <1>0, <3>1 DEF IInv, OnePlace
  <2>3. NoJob \notin Waiting
    <3>1. Waiting \subseteq Jobs
      BY DEF IInv, TypeOK, Waiting
    <3> QED  BY <3>1 DEF NoJob, Jobs
  <2>4. \A j \in Jobs : submit'[j] = "pushed" /\ status'[j] = "running" => j \in Waiting
    BY <1>0 DEF IInv, OnePlace
  <2>5. \A i, k \in DOMAIN queue : queue'[i] = queue'[k] => i = k
    BY DEF IInv, OnePlace
  <2> QED  BY <2>1, <2>2, <2>3, <2>4, <2>5 DEF OnePlace
<1>5. (DoneIsWhole /\ CancelledWasAsked)'
  BY <1>0 DEF IInv, DoneIsWhole, CancelledWasAsked
<1>6. (\A j \in Jobs : fetch[j] = "ready" => status[j] = "done")'
  BY <1>0 DEF IInv
<1> QED  BY <1>1, <1>2, <1>3, <1>4, <1>5, <1>6 DEF IInv

LEMMA CreateKeeps ==
  ASSUME IInv, NEW k \in Kinds, JobCreate(k)
  PROVE  IInv'
<1> USE SubmissionsAssumption, KindsAssumption DEF JobCreate, workVars, clientVars
<1> DEFINE new == born + 1
<1>0. /\ new \in Jobs \ Created
      /\ Created' = Created \cup {new}
      /\ \A j \in Jobs : submit'[j] = IF j = new THEN "created" ELSE submit[j]
      /\ \A j \in Jobs : kind'[j] = IF j = new THEN k ELSE kind[j]
  BY DEF IInv, TypeOK, Created, Jobs
<1>1. /\ pool' \subseteq pool \cup {new}
      /\ \A j \in pool \cup {new} : status[j] = "running" => j \in pool'
  BY DEF Evicted
<1>2. TypeOK'
  <2>1. pool' \in SUBSET Jobs /\ born' \in 0 .. Submissions
    BY <1>0, <1>1 DEF IInv, TypeOK
  <2> QED  BY <1>0, <2>1 DEF IInv, TypeOK
<1>3. (Unborn /\ RunningKept)'
  <2>1. Unborn'
    BY <1>0, <1>1 DEF IInv, Unborn
  <2>2. RunningKept'
    BY <1>0, <1>1 DEF IInv, Unborn, RunningKept
  <2> QED  BY <2>1, <2>2
<1>4. (Shape /\ Results /\ Verdicts)'
  BY <1>0 DEF IInv, Shape, Results, Verdicts, Unborn
<1>5. OnePlace'
  <2>1. Waiting' = Waiting
    BY DEF Waiting
  <2>2. submit[new] # "pushed"
    BY <1>0 DEF IInv, Unborn
  <2>3. new \notin Waiting /\ new # current
    BY <1>0, <2>2 DEF IInv, OnePlace, NoJob, Jobs
  <2> USE <2>1, <2>3
  <2> QED  BY <1>0, <2>1 DEF IInv, OnePlace, Waiting
<1>6. (DoneIsWhole /\ CancelledWasAsked)'
  BY DEF IInv, DoneIsWhole, CancelledWasAsked
<1> QED  BY <1>2, <1>3, <1>4, <1>5, <1>6 DEF IInv

LEMMA PushKeeps ==
  ASSUME IInv, NEW j \in Jobs, JobPush(j)
  PROVE  IInv'
<1> USE DEF JobPush, jobVars, clientVars
<1>0. /\ j \notin Waiting
      /\ j # current
      /\ status[j] = "running"
      /\ \A i \in Jobs : submit'[i] = IF i = j THEN "pushed" ELSE submit[i]
      /\ Waiting' = Waiting \cup {j}
  <2>1. Len(queue') = Len(queue) + 1
    BY DEF IInv, TypeOK
  <2>2. /\ \A i \in DOMAIN queue : queue'[i] = queue[i]
        /\ queue'[Len(queue) + 1] = j
        /\ DOMAIN queue' = DOMAIN queue \cup {Len(queue) + 1}
    BY DEF IInv, TypeOK
  <2>3. Waiting' = Waiting \cup {j}
    BY <2>2 DEF Waiting
  <2>4. submit \in [Jobs -> {"none", "created", "pushed"}] /\ submit[j] = "created"
    BY DEF IInv, TypeOK
  <2>5. \A i \in Jobs : submit'[i] = IF i = j THEN "pushed" ELSE submit[i]
    BY <2>4
  <2>6. status[j] = "running"
    BY <2>4 DEF IInv, Shape
  <2>7. j \notin Waiting
    BY <2>4 DEF IInv, OnePlace
  <2>8. j # current
    <3>1. j # NoJob
      BY DEF NoJob, Jobs
    <3> QED  BY <3>1, <2>4 DEF IInv, OnePlace
  <2> QED  BY <2>3, <2>5, <2>6, <2>7, <2>8
<1>1. TypeOK'
  BY DEF IInv, TypeOK
<1>2. (Unborn /\ RunningKept)'
  BY <1>0 DEF IInv, Unborn, RunningKept, Created
<1>3. (Shape /\ Results /\ Verdicts)'
  BY <1>0 DEF IInv, Shape, Results, Verdicts
<1>4. OnePlace'
  <2>1. (\A i, k \in DOMAIN queue : queue[i] = queue[k] => i = k)'
    BY <1>0 DEF IInv, OnePlace, Waiting, TypeOK
  <2> QED  BY <1>0, <2>1 DEF IInv, OnePlace
<1>5. (DoneIsWhole /\ CancelledWasAsked)'
  BY DEF IInv, DoneIsWhole, CancelledWasAsked
<1> QED  BY <1>1, <1>2, <1>3, <1>4, <1>5 DEF IInv

LEMMA PopKeeps ==
  ASSUME IInv, WorkerPop
  PROVE  IInv'
<1> USE DEF WorkerPop, jobVars, clientVars
<1>0. /\ current = NoJob
      /\ current' \in Jobs
      /\ queue' \in Seq(Jobs)
      /\ Waiting = Waiting' \cup {current'}
      /\ current' \notin Waiting'
      /\ \A i, k \in DOMAIN queue' : queue'[i] = queue'[k] => i = k
  <2>1. /\ DOMAIN queue' = 1 .. (Len(queue) - 1)
        /\ \A i \in DOMAIN queue' : queue'[i] = queue[i + 1]
        /\ DOMAIN queue = 1 .. Len(queue)
        /\ Len(queue) \in Nat \ {0}
        /\ current' = queue[1]
        /\ current' \in Jobs
        /\ queue' \in Seq(Jobs)
    BY DEF IInv, TypeOK
  <2>2. \A i, k \in DOMAIN queue : queue[i] = queue[k] => i = k
    BY DEF IInv, OnePlace
  <2>3. Waiting' \cup {current'} \subseteq Waiting
    BY <2>1 DEF Waiting
  <2>4. Waiting \subseteq Waiting' \cup {current'}
    <3> SUFFICES ASSUME NEW i \in DOMAIN queue, i # 1
                 PROVE  queue[i] \in Waiting'
      BY <2>1 DEF Waiting
    <3>1. i - 1 \in DOMAIN queue' /\ queue'[i - 1] = queue[i]
      BY <2>1
    <3> QED  BY <3>1 DEF Waiting
  <2>5. current' \notin Waiting'
    BY <2>1, <2>2 DEF Waiting
  <2>6. \A i, k \in DOMAIN queue' : queue'[i] = queue'[k] => i = k
    BY <2>1, <2>2
  <2>7. current = NoJob
    BY DEF IInv, Shape
  <2> QED  BY <2>1, <2>3, <2>4, <2>5, <2>6, <2>7
<1>1. TypeOK'
  BY <1>0 DEF IInv, TypeOK
<1>2. (Unborn /\ RunningKept)'
  BY DEF IInv, Unborn, RunningKept, Created
<1>3. (Shape /\ Results /\ Verdicts)'
  BY <1>0 DEF IInv, Shape, Results, Verdicts, NoJob, Jobs
<1>4. OnePlace'
  BY <1>0 DEF IInv, OnePlace, NoJob, Jobs
<1>5. (DoneIsWhole /\ CancelledWasAsked)'
  BY DEF IInv, DoneIsWhole, CancelledWasAsked
<1> QED  BY <1>1, <1>2, <1>3, <1>4, <1>5 DEF IInv

LEMMA StoreKeeps ==
  ASSUME IInv, StoreResult
  PROVE  IInv'
<1> USE DEF StoreResult, jobVars, clientVars
<1>0. /\ current \in Jobs
      /\ status[current] = "running"
      /\ submit[current] = "pushed"
      /\ \A j \in Jobs : j # current => result'[j] = result[j]
      /\ \/ result'[current] = "whole"
         \/ result'[current] = "cut" /\ cancel[current] /\ kind[current] \in CutShort
  BY DEF IInv, TypeOK, Shape, OnePlace
<1>1. TypeOK'
  BY DEF IInv, TypeOK
<1>2. (Unborn /\ RunningKept)'
  BY <1>0 DEF IInv, Unborn, RunningKept, Created, Jobs, TypeOK
<1>3. (Shape /\ Results /\ Verdicts)'
  BY <1>0 DEF IInv, Shape, Results, Verdicts, NoJob, Jobs
<1>4. OnePlace'
  BY DEF IInv, OnePlace, Waiting
<1>5. (DoneIsWhole /\ CancelledWasAsked)'
  BY <1>0 DEF IInv, DoneIsWhole, CancelledWasAsked
<1> QED  BY <1>1, <1>2, <1>3, <1>4, <1>5 DEF IInv

\* A client step changes only fetch, ask and cancel.
LEMMA ClientKeeps ==
  ASSUME IInv, NEW j \in Jobs,
         FetchFind(j) \/ FetchStatus(j) \/ FetchResult(j)
           \/ CancelFind(j) \/ CancelStatus(j) \/ CancelStore(j)
  PROVE  IInv'
<1> USE DEF FetchFind, FetchStatus, FetchResult, CancelFind, CancelStatus,
            CancelStore, Findable, jobVars, workVars
<1>1. TypeOK'
  <2>1. UNCHANGED <<born, pool, kind, status, result, submit, queue, pc, current, verdict,
                    serving, stop>>
    OBVIOUS
  <2>2. fetch \in [Jobs -> {"none", "found", "ready"}]
    BY DEF IInv, TypeOK
  <2>3. fetch' \in [Jobs -> {"none", "found", "ready"}]
    <3>1. \/ fetch' = fetch
          \/ \E s \in {"none", "found", "ready"} : fetch' = [fetch EXCEPT ![j] = s]
      OBVIOUS
    <3> QED  BY ONLY <2>2, <3>1
  <2>4. ask \in [Jobs -> {"none", "found", "seen", "acked"}]
    BY DEF IInv, TypeOK
  <2>5. ask' \in [Jobs -> {"none", "found", "seen", "acked"}]
    <3>1. \/ ask' = ask
          \/ \E s \in {"none", "found", "seen", "acked"} : ask' = [ask EXCEPT ![j] = s]
      OBVIOUS
    <3> QED  BY ONLY <2>4, <3>1
  <2>6. cancel \in [Jobs -> BOOLEAN]
    BY DEF IInv, TypeOK
  <2>7. cancel' \in [Jobs -> BOOLEAN]
    <3>1. cancel' = cancel \/ cancel' = [cancel EXCEPT ![j] = TRUE]
      OBVIOUS
    <3> QED  BY ONLY <2>6, <3>1
  <2> HIDE DEF FetchFind, FetchStatus, FetchResult, CancelFind, CancelStatus, CancelStore
  <2> QED  BY <2>1, <2>3, <2>5, <2>7 DEF IInv, TypeOK
<1>2. (Unborn /\ RunningKept)'
  BY DEF IInv, Unborn, RunningKept, Created
<1>3. Shape'
  BY DEF IInv, Shape, TypeOK
<1>4. (Results /\ Verdicts)'
  BY DEF IInv, Results, Verdicts, Shape, TypeOK
<1>5. OnePlace'
  BY DEF IInv, OnePlace, Waiting
<1>6. (DoneIsWhole /\ CancelledWasAsked)'
  BY DEF IInv, DoneIsWhole, CancelledWasAsked, TypeOK
<1>7. (\A i \in Jobs : fetch[i] = "ready" => status[i] = "done")'
  BY DEF IInv, TypeOK
<1>8. (\A i \in Jobs : cancel[i] => ask[i] = "acked")'
  BY DEF IInv, TypeOK
<1> QED  BY <1>1, <1>2, <1>3, <1>4, <1>5, <1>6, <1>7, <1>8 DEF IInv

\* Starting to stop, stopping, and a step that changes nothing.
LEMMA StopKeeps ==
  ASSUME IInv, Signal \/ StopWorker \/ WorkerExit \/ UNCHANGED vars
  PROVE  IInv'
<1> USE DEF Signal, StopWorker, WorkerExit, vars, jobVars, workVars, clientVars
<1>1. TypeOK'
  <2>1. /\ serving' \in BOOLEAN /\ stop' \in BOOLEAN
        /\ pc' = pc \/ pc' = "exited"
        /\ UNCHANGED <<born, pool, kind, status, cancel, result, submit, queue,
                       current, verdict, fetch, ask>>
    BY DEF IInv, TypeOK
  <2> HIDE DEF Signal, StopWorker, WorkerExit
  <2> QED  BY <2>1 DEF IInv, TypeOK
<1>2. (Unborn /\ RunningKept)'
  BY DEF IInv, Unborn, RunningKept, Created
<1>3. (Shape /\ Results /\ Verdicts)'
  BY DEF IInv, Shape, Results, Verdicts
<1>4. OnePlace'
  BY DEF IInv, OnePlace, Waiting
<1>5. (DoneIsWhole /\ CancelledWasAsked)'
  BY DEF IInv, DoneIsWhole, CancelledWasAsked
<1> QED  BY <1>1, <1>2, <1>3, <1>4, <1>5 DEF IInv

-----------------------------------------------------------------------------

LEMMA StepKeeps == IInv /\ [Next]_vars => IInv'
<1> SUFFICES ASSUME IInv, [Next]_vars PROVE IInv'
    OBVIOUS
<1>0. pc \notin {"idle", "exited"} => current # NoJob /\ current \in Jobs
  BY DEF IInv, Shape, TypeOK
<1>1. CASE \E k \in Kinds : JobCreate(k)
  BY <1>1, CreateKeeps
<1>2. CASE \E j \in Jobs : FetchFind(j) \/ CancelFind(j) \/ Handler(j)
  BY <1>2, PushKeeps, ClientKeeps DEF Handler
<1>3. CASE WorkerPop
  BY <1>3, PopKeeps
<1>4. CASE CheckCancel
  BY <1>0, <1>4, GoOnKeeps, ChooseKeeps DEF CheckCancel
<1>5. CASE Prepare
  BY <1>0, <1>5, GoOnKeeps, ChooseKeeps DEF Prepare
<1>6. CASE Generate
  <2>1. CASE Choose(FailureStatus(current))
    BY <1>0, <1>6, <2>1, ChooseKeeps DEF Generate, FailureStatus
  <2>2. CASE GoOn(IF kind[current] \in Rechecked THEN "recheck" ELSE "encode")
    BY <1>0, <1>6, <2>2, GoOnKeeps DEF Generate
  <2> QED  BY <1>6, <2>1, <2>2 DEF Generate
<1>7. CASE Recheck
  BY <1>0, <1>7, GoOnKeeps, ChooseKeeps DEF Recheck
<1>8. CASE StoreResult
  BY <1>8, StoreKeeps
<1>9. CASE Finish
  <2>1. result[current] \in {"whole", "cut"}
    BY <1>0, <1>9 DEF Finish, IInv, Results, TypeOK
  <2>2. FinalStatus(current) = "done" => result[current] = "whole"
    <3>1. result[current] = "cut" => cancel[current] /\ kind[current] \in CheckedLast
      BY <1>0, <1>9 DEF Finish, IInv, Results, CutShort, CheckedLast
    <3> QED  BY <2>1, <3>1 DEF FinalStatus
  <2>3. /\ FinalStatus(current) \in {"done", "failed", "cancelled"}
        /\ FinalStatus(current) = "cancelled" => cancel[current]
    BY DEF FinalStatus
  <2> QED  BY <1>0, <1>9, <2>2, <2>3, ChooseKeeps DEF Finish
<1>10. CASE Settle
  BY <1>10, SettleKeeps
<1>11. CASE Signal \/ StopWorker \/ WorkerExit \/ Exited \/ UNCHANGED vars
  BY <1>11, StopKeeps DEF Exited
<1> QED  BY <1>1, <1>2, <1>3, <1>4, <1>5, <1>6, <1>7, <1>8, <1>9, <1>10, <1>11
         DEF Next, Worker

\* The strengthened invariant holds in every reachable state.
THEOREM InductiveInvariant == Spec => []IInv
<1> QED  BY InitEstablishes, StepKeeps, PTL DEF Spec

\* The invariants the runs check, for every instance.
THEOREM Safety ==
  Spec => [](TypeOK /\ NeverLost /\ DoneIsWhole
               /\ FetchedIsWhole /\ CancelledWasAsked /\ StopFinishesCurrent)
<1>1. IInv => TypeOK /\ NeverLost /\ DoneIsWhole /\ CancelledWasAsked
  BY DEF IInv, NeverLost
<1>2. IInv => FetchedIsWhole
  BY DEF IInv, FetchedIsWhole, DoneIsWhole
<1>3. IInv => StopFinishesCurrent
  BY DEF IInv, StopFinishesCurrent, Shape, OnePlace, NoJob, Jobs
<1> QED  BY InductiveInvariant, <1>1, <1>2, <1>3, PTL

\* A final status is never changed: the worker only settles the running job
\* it holds.
THEOREM FinalStatusStays == Spec => StatusIsFinal
<1>1. IInv /\ [Next]_vars =>
        [\A j \in Jobs : status[j] # "running" => status'[j] = status[j]]_vars
  <2> SUFFICES ASSUME IInv, [Next]_vars, NEW j \in Jobs, status[j] # "running"
               PROVE  status'[j] = status[j]
      OBVIOUS
  <2>1. current # NoJob => status[current] = "running"
    BY DEF IInv, OnePlace
  <2>2. CASE Settle
    BY <2>1, <2>2 DEF Settle, IInv, Shape, TypeOK
  <2>3. CASE Worker
    BY <2>2, <2>3 DEF Worker, WorkerPop, WorkerExit, CheckCancel, Prepare,
                      Generate, Recheck, StoreResult, Finish, GoOn, Choose
  <2>4. CASE \E k \in Kinds : JobCreate(k)
    BY <2>4 DEF JobCreate
  <2>5. CASE \E i \in Jobs : FetchFind(i) \/ CancelFind(i) \/ Handler(i)
    BY <2>5 DEF FetchFind, CancelFind, Handler, JobPush, FetchStatus,
                FetchResult, CancelStatus, CancelStore
  <2>6. CASE Signal \/ StopWorker \/ Exited \/ UNCHANGED vars
    BY <2>6 DEF Signal, StopWorker, Exited, vars
  <2> QED  BY <2>3, <2>4, <2>5, <2>6 DEF Next
<1> QED  BY <1>1, InductiveInvariant, PTL DEF Spec, StatusIsFinal

-----------------------------------------------------------------------------
(* The service that JobService promises.                                     *)

LEMMA OldestOf ==
  ASSUME NEW T \in SUBSET Nat, T # {}
  PROVE  \E x \in T : \A y \in T : x <= y
<1>1. \E x \in T : \A y \in T : ~(<<y, x>> \in OpToRel(<, Nat))
  BY WFMin, NatLessThanWellFounded
<1>2. \A x, y \in Nat : <<y, x>> \in OpToRel(<, Nat) <=> y < x
  BY SMT DEF OpToRel
<1>3. ASSUME NEW x \in T, NEW y \in T, ~(<<y, x>> \in OpToRel(<, Nat)) PROVE ~(y < x)
  BY <1>2, <1>3
<1>4. \A x, y \in T : ~(y < x) => x <= y
  OBVIOUS
<1> QED
  BY <1>1, <1>3, <1>4

\* What job_create drops is finished and older than what it keeps, and is
\* enough: the pool is within its limit or only running jobs are left.
LEMMA EvictionFits ==
  ASSUME NEW p \in SUBSET Jobs
  PROVE  /\ \A f \in Evicted(p) : f \in p /\ status[f] # "running"
         /\ \A f \in Evicted(p), k \in p \ Evicted(p) : status[k] # "running" => f < k
         /\ \/ Cardinality(p \ Evicted(p)) <= MaxJobs
            \/ \A k \in p \ Evicted(p) : status[k] = "running"
<1> DEFINE F == {j \in p : status[j] # "running"}
           Older(j) == {k \in F : k < j}
           n == Cardinality(p) - MaxJobs
           E == {j \in F : Cardinality(Older(j)) < n}
<1>1. Evicted(p) = E
  BY DEF Evicted
<1>2. IsFiniteSet(p) /\ Cardinality(p) \in Nat /\ p \subseteq Nat
  <2>1. IsFiniteSet(Jobs)
    BY SubmissionsAssumption, FS_Interval DEF Jobs
  <2>2. IsFiniteSet(p)
    BY <2>1, FS_Subset
  <2> QED
    BY <2>2, FS_CardinalityType DEF Jobs
<1>3. n \in Int /\ MaxJobs \in Nat
  BY <1>2, MaxJobsAssumption
<1>4. ASSUME NEW T \in SUBSET p PROVE IsFiniteSet(T) /\ Cardinality(T) \in Nat
  BY <1>2, FS_Subset, FS_CardinalityType
<1>5. \A j \in p : Older(j) \in SUBSET p
  OBVIOUS
<1>6. ASSUME NEW i \in p, NEW j \in p, i <= j
      PROVE  Cardinality(Older(i)) <= Cardinality(Older(j))
  <2>1. Older(i) \in SUBSET Older(j)
    <3>1. \A k \in p : k < i => k < j
      BY <1>2, <1>6
    <3> QED
      BY <3>1, Zenon
  <2>2. IsFiniteSet(Older(j))
    BY <1>4, <1>5
  <2> HIDE DEF Older
  <2> QED
    BY <2>1, <2>2, FS_Subset
<1>7. ASSUME NEW f \in E, NEW k \in p \ E, status[k] # "running"
      PROVE  f < k
  <2>1. f \in p /\ k \in F /\ Cardinality(Older(f)) < n /\ ~(Cardinality(Older(k)) < n)
    BY <1>7
  <2>2. Cardinality(Older(f)) \in Nat /\ Cardinality(Older(k)) \in Nat
    BY <1>4, <1>5
  <2> HIDE DEF Older, E, F, n
  <2>3. ~(k <= f)
    BY <1>3, <1>6, <2>1, <2>2
  <2> QED
    BY <1>2, <2>1, <2>3
<1>8. ASSUME NEW k \in p \ E, status[k] # "running"
      PROVE  Cardinality(p \ E) <= MaxJobs
  <2> DEFINE Kept == F \ E
  <2>1. Kept \in SUBSET Nat /\ Kept # {}
    BY <1>2, <1>8
  <2>2. PICK x \in Kept : \A y \in Kept : x <= y
    <3> HIDE DEF Kept
    <3> QED
      BY <2>1, OldestOf
  <2>3. Older(x) \in SUBSET E
    <3>1. \A i \in F : i < x => i \notin Kept
      <4>1. \A i \in Kept : i \in Nat /\ x \in Nat /\ x <= i
        BY <2>1, <2>2
      <4> HIDE DEF Kept, F
      <4> QED
        BY <4>1
    <3> HIDE DEF F, E
    <3> QED
      BY <3>1, Zenon DEF Kept
  <2>4. ~(Cardinality(Older(x)) < n) /\ x \in p
    BY <2>2
  <2>5. IsFiniteSet(E) /\ Cardinality(E) \in Nat /\ Cardinality(Older(x)) \in Nat
    <3>1. E \in SUBSET p /\ Older(x) \in SUBSET p
      OBVIOUS
    <3> HIDE DEF E, Older
    <3> QED
      BY <1>4, <3>1
  <2>6. Cardinality(E) >= n
    <3> HIDE DEF E, Older, n
    <3>1. Cardinality(Older(x)) <= Cardinality(E)
      BY <2>3, <2>5, FS_Subset
    <3> QED
      BY <1>3, <2>4, <2>5, <3>1
  <2>7. Cardinality(p \ E) = Cardinality(p) - Cardinality(E)
    <3>1. p \cap E = E
      OBVIOUS
    <3> HIDE DEF E
    <3>2. Cardinality(p \ E) = Cardinality(p) - Cardinality(p \cap E)
      BY <1>2, FS_Difference
    <3> QED
      BY <3>1, <3>2
  <2> QED
    BY <1>2, <1>3, <2>5, <2>6, <2>7
<1>9. \A f \in E : f \in p /\ status[f] # "running"
  OBVIOUS
<1> HIDE DEF E
<1> QED
  BY <1>1, <1>7, <1>8, <1>9

\* What a step of the service leaves alone when the jobs and the line stay.
LEMMA ServiceStays ==
  ASSUME born' = born, pool' = pool, status' = status, stop' = stop,
         current' = current, queue' = queue
  PROVE  UNCHANGED Service!vars
BY DEF Service!vars

LEMMA SameCount ==
  ASSUME NEW S
  PROVE  Service!Cardinality(S) = Cardinality(S)
BY DEF Service!Cardinality, Service!IsFiniteSet, Cardinality, IsFiniteSet

LEMMA CreateServes ==
  ASSUME IInv, NEW k \in Kinds, JobCreate(k), NEW new, new = born + 1
  PROVE  new \in Jobs /\ Service!Accept(new)
<1> DEFINE p == pool \cup {new}
           E == Evicted(p)
           s == [j \in Jobs |-> IF j > born THEN "unborn"
                                ELSE IF status[j] = "running" THEN "accepted" ELSE status[j]]
           t == [j \in Jobs |-> IF j > new THEN "unborn"
                                ELSE IF status[j] = "running" THEN "accepted" ELSE status[j]]
<1>1. /\ new \in Jobs /\ born \in Nat /\ born < Submissions
      /\ born' = new /\ pool' = p \ E /\ status' = status /\ stop' = stop
      /\ current' = current /\ queue' = queue
  BY SubmissionsAssumption DEF JobCreate, workVars, IInv, TypeOK, Jobs
<1>2. /\ pool \in SUBSET Jobs /\ p \in SUBSET Jobs
      /\ \A j \in pool : j <= born
      /\ status \in [Jobs -> Statuses] /\ status[new] = "running"
  <2>1. pool \subseteq Created /\ \A j \in Jobs \ Created : status[j] = "running"
    BY DEF IInv, Unborn
  <2>2. new \in Jobs \ Created
    BY <1>1 DEF Created
  <2>3. pool \in SUBSET Jobs /\ status \in [Jobs -> Statuses]
    BY DEF IInv, TypeOK
  <2> QED
    BY <1>1, <2>1, <2>2, <2>3 DEF Created
<1> HIDE DEF p, E
<1>3. s[new] = "unborn" /\ t[new] = "accepted"
  BY <1>1, <1>2
<1>4. t = [s EXCEPT ![new] = "accepted"]
  <2>1. \A j \in Jobs : t[j] = IF j = new THEN "accepted" ELSE s[j]
    <3> SUFFICES ASSUME NEW j \in Jobs PROVE t[j] = IF j = new THEN "accepted" ELSE s[j]
      OBVIOUS
    <3>1. j \in Int /\ (j > new <=> j > born /\ j # new)
      BY <1>1 DEF Jobs
    <3> QED
      BY <1>1, <1>3, <3>1
  <2>2. [s EXCEPT ![new] = "accepted"] = [j \in Jobs |-> IF j = new THEN "accepted" ELSE s[j]]
    OBVIOUS
  <2>3. t = [j \in Jobs |-> t[j]]
    OBVIOUS
  <2> HIDE DEF s, t
  <2> QED
    BY <2>1, <2>2, <2>3
<1>5. \A j \in p : (s[j] \in {"done", "failed", "cancelled"}) <=> status[j] # "running"
  <2>1. ASSUME NEW j \in pool
        PROVE  (s[j] \in {"done", "failed", "cancelled"}) <=> status[j] # "running"
    <3>1. j \in Jobs /\ ~(j > born) /\ status[j] \in Statuses
      BY <1>1, <1>2, <2>1 DEF Jobs
    <3> QED
      BY <3>1 DEF Statuses
  <2>2. ~(s[new] \in {"done", "failed", "cancelled"}) /\ status[new] = "running"
    BY <1>2, <1>3
  <2> HIDE DEF s
  <2> QED
    BY <2>1, <2>2 DEF p
<1>6. /\ \A f \in E : f \in p /\ status[f] # "running"
      /\ \A f \in E, i \in p \ E : status[i] # "running" => f < i
      /\ \/ Cardinality(p \ E) <= MaxJobs
         \/ \A i \in p \ E : status[i] = "running"
  BY <1>2, EvictionFits DEF E
<1>7. E \in SUBSET {i \in pool : s[i] \in {"done", "failed", "cancelled"}}
  <2>1. \A f \in E : f \in pool /\ s[f] \in {"done", "failed", "cancelled"}
    <3> HIDE DEF s
    <3> QED
      BY <1>2, <1>5, <1>6 DEF p
  <2> HIDE DEF s
  <2> QED
    BY <2>1
<1>8. \A f \in E, i \in pool' : s[i] \in {"done", "failed", "cancelled"} => f < i
  <2> HIDE DEF s
  <2> QED
    BY <1>1, <1>5, <1>6
<1>9. Cardinality(pool') <= MaxJobs \/ \A i \in pool' : t[i] = "accepted"
  <2>1. \A i \in p \ E : status[i] = "running" => t[i] = "accepted"
    <3> SUFFICES ASSUME NEW i \in p, status[i] = "running" PROVE t[i] = "accepted"
      OBVIOUS
    <3>1. i \in Jobs /\ ~(i > new)
      BY <1>1, <1>2 DEF p, Jobs
    <3> QED
      BY <3>1
  <2> HIDE DEF t
  <2> QED
    BY <1>1, <1>6, <2>1
<1>10. pool' = (pool \cup {new}) \ E
  BY <1>1 DEF p
<1>11. Service!Accept(new)
  <2>1. [j \in Jobs |-> IF j > born THEN "unborn"
            ELSE IF status[j] = "running" THEN "accepted" ELSE status[j]]' = t
    BY <1>1
  <2>2. s = [j \in Jobs |-> IF j > born THEN "unborn"
                 ELSE IF status[j] = "running" THEN "accepted" ELSE status[j]]
    OBVIOUS
  <2>3. UNCHANGED <<(IF current = NoJob THEN <<>> ELSE <<current>>)
                       \o (IF stop THEN <<>> ELSE queue), ~stop>>
    BY <1>1
  <2> HIDE DEF s, t
  <2>4. \E forgotten \in SUBSET {i \in pool : s[i] \in Service!Settled} :
           /\ pool' = (pool \cup {new}) \ forgotten
           /\ \A f \in forgotten, i \in pool' : s[i] \in Service!Settled => f < i
    BY <1>7, <1>8, <1>10, Zenon DEF Service!Settled
  <2>5. /\ s[new] = "unborn"
        /\ t = [s EXCEPT ![new] = "accepted"]
        /\ Service!Cardinality(pool') <= MaxJobs \/ \A i \in pool' : t[i] = "accepted"
    BY <1>3, <1>4, <1>9, SameCount
  <2> QED
    BY <2>1, <2>2, <2>3, <2>4, <2>5, Zenon DEF Service!Accept
<1> QED
  BY <1>1, <1>11

LEMMA PushServes ==
  ASSUME IInv, NEW j \in Jobs, JobPush(j)
  PROVE  Service!JoinLine(j) \/ UNCHANGED Service!vars
<1>1. /\ born' = born /\ pool' = pool /\ status' = status /\ stop' = stop
      /\ current' = current /\ queue' = Append(queue, j) /\ submit[j] = "created"
  BY DEF JobPush, jobVars
<1>2. /\ status[j] = "running" /\ j <= born /\ j # current /\ j \notin Waiting
      /\ queue \in Seq(Jobs) /\ current \in Jobs \cup {NoJob}
  <2>1. j \in Created
    BY <1>1 DEF IInv, Unborn
  <2>2. \A i \in Waiting \cup ({current} \ {NoJob}) : submit[i] = "pushed"
    BY DEF IInv, OnePlace
  <2>3. j # NoJob
    BY DEF Jobs, NoJob
  <2>4. j # current /\ j \notin Waiting
    BY <1>1, <2>2, <2>3
  <2>5. queue \in Seq(Jobs) /\ current \in Jobs \cup {NoJob} /\ status[j] = "running"
    BY <1>1 DEF IInv, TypeOK, Shape
  <2> QED
    BY <2>1, <2>4, <2>5 DEF Created, Jobs
<1> DEFINE head == IF current = NoJob THEN <<>> ELSE <<current>>
           rest == IF stop THEN <<>> ELSE queue
           l == head \o rest
<1>3. head \in Seq(Jobs) /\ \A i \in DOMAIN head : head[i] = current
  BY <1>2
<1>4. CASE stop
  <2>1. l' = l
    BY <1>1, <1>4
  <2> QED
    BY <1>1, <1>4, <2>1 DEF Service!vars
<1>5. CASE ~stop
  <2>1. l' = head \o Append(queue, j) /\ l = head \o queue
    BY <1>1, <1>5
  <2> HIDE DEF head
  <2>2. head \o Append(queue, j) = Append(head \o queue, j)
    BY <1>2, <1>3
  <2>3. \A i \in DOMAIN (head \o queue) : (head \o queue)[i] # j
    <3> SUFFICES ASSUME NEW i \in DOMAIN (head \o queue) PROVE (head \o queue)[i] # j
      OBVIOUS
    <3>1. \A n \in DOMAIN queue : queue[n] # j
      BY <1>2 DEF Waiting
    <3>2. CASE i <= Len(head)
      <4>1. i \in DOMAIN head /\ (head \o queue)[i] = head[i]
        BY <1>2, <1>3, <3>2
      <4> QED
        BY <1>2, <1>3, <4>1
    <3>3. CASE ~(i <= Len(head))
      <4>1. i - Len(head) \in DOMAIN queue /\ (head \o queue)[i] = queue[i - Len(head)]
        BY <1>2, <1>3, <3>3
      <4> QED
        BY <3>1, <4>1
    <3> QED
      BY <3>2, <3>3
  <2>4. l' = Append(l, j) /\ \A i \in DOMAIN l : l[i] # j
    BY <2>1, <2>2, <2>3
  <2>5. (IF j > born THEN "unborn"
         ELSE IF status[j] = "running" THEN "accepted" ELSE status[j]) = "accepted"
    BY <1>2 DEF Jobs, IInv, TypeOK
  <2> HIDE DEF l
  <2>6. Service!JoinLine(j)
    BY <1>1, <1>5, <2>4, <2>5 DEF Service!JoinLine, l, head
  <2> QED
    BY <2>6
<1> QED
  BY <1>4, <1>5

LEMMA PopServes ==
  ASSUME IInv, WorkerPop
  PROVE  UNCHANGED Service!vars
<1>1. /\ born' = born /\ pool' = pool /\ status' = status /\ stop' = stop /\ ~stop
      /\ current = NoJob /\ current' = Head(queue) /\ queue' = Tail(queue) /\ queue # <<>>
  BY DEF WorkerPop, jobVars, IInv, Shape
<1>2. queue \in Seq(Jobs)
  BY DEF IInv, TypeOK
<1>3. Head(queue) # NoJob /\ <<Head(queue)>> \o Tail(queue) = queue /\ <<>> \o queue = queue
  <2>1. Head(queue) \in Jobs
    BY <1>1, <1>2
  <2>2. <<Head(queue)>> \o Tail(queue) = queue
    BY <1>1, <1>2
  <2> QED
    BY <1>2, <2>1, <2>2 DEF Jobs, NoJob
<1> QED
  BY <1>1, <1>3 DEF Service!vars

LEMMA SettleServes ==
  ASSUME IInv, current # NoJob, NEW s \in {"done", "failed", "cancelled"}, s = verdict, Settle
  PROVE  Service!Settle(s)
<1>1. /\ born' = born /\ pool' = pool /\ stop' = stop /\ queue' = queue /\ current' = NoJob
      /\ status' = [status EXCEPT ![current] = s]
  BY DEF Settle, jobVars
<1>2. /\ current \in Jobs /\ current \in Created /\ queue \in Seq(Jobs)
      /\ status \in [Jobs -> Statuses] /\ born \in Int
  <2>1. /\ current \in Jobs /\ queue \in Seq(Jobs) /\ status \in [Jobs -> Statuses] /\ born \in Int
    BY DEF IInv, TypeOK
  <2>2. submit[current] = "pushed"
    BY DEF IInv, OnePlace
  <2> QED
    BY <2>1, <2>2 DEF IInv, Unborn
<1> DEFINE rest == IF stop THEN <<>> ELSE queue
           f == [j \in Jobs |-> IF j > born THEN "unborn"
                                ELSE IF status[j] = "running" THEN "accepted" ELSE status[j]]
           g == [j \in Jobs |-> IF j > born THEN "unborn"
                                ELSE IF status'[j] = "running" THEN "accepted" ELSE status'[j]]
<1>3. rest \in Seq(Jobs)
  BY <1>2
<1>4. /\ <<current>> \o rest # <<>>
      /\ Head(<<current>> \o rest) = current
      /\ Tail(<<current>> \o rest) = rest
      /\ <<>> \o rest = rest
  <2> HIDE DEF rest
  <2> QED
    BY <1>2, <1>3
<1>5. g = [f EXCEPT ![current] = s]
  <2>1. \A j \in Jobs : g[j] = IF j = current THEN s ELSE f[j]
    <3>1. ~(current > born) /\ s # "running"
      BY <1>2 DEF Created
    <3> QED
      BY <1>1, <1>2, <3>1
  <2>2. [f EXCEPT ![current] = s] = [j \in Jobs |-> IF j = current THEN s ELSE f[j]]
    OBVIOUS
  <2>3. g = [j \in Jobs |-> g[j]]
    OBVIOUS
  <2> HIDE DEF f, g
  <2> QED
    BY <2>1, <2>2, <2>3
<1> HIDE DEF rest
<1>6. (IF current = NoJob THEN <<>> ELSE <<current>>) \o (IF stop THEN <<>> ELSE queue)
         = <<current>> \o rest
  BY DEF rest
<1>7. ((IF current = NoJob THEN <<>> ELSE <<current>>) \o (IF stop THEN <<>> ELSE queue))' = rest
  BY <1>1, <1>4 DEF rest
<1>8. f' = g
  BY <1>1
<1> HIDE DEF f, g
<1> QED
  BY <1>1, <1>4, <1>5, <1>6, <1>7, <1>8 DEF Service!Settle, f

LEMMA NextServes == IInv /\ [Next]_vars => [Service!Next]_(Service!vars)
<1> SUFFICES ASSUME IInv, [Next]_vars PROVE Service!Next \/ UNCHANGED Service!vars
    OBVIOUS
<1>0. pc \notin {"idle", "exited"} => current # NoJob /\ current \in Jobs
  BY DEF IInv, Shape, TypeOK
<1>a. ASSUME NEW s, Choose(s) PROVE UNCHANGED Service!vars
  BY <1>a, ServiceStays DEF Choose, jobVars
<1>b. ASSUME NEW step, GoOn(step) PROVE UNCHANGED Service!vars
  BY <1>b, ServiceStays DEF GoOn, jobVars
<1>1. CASE \E k \in Kinds : JobCreate(k)
  <2>1. PICK k \in Kinds : JobCreate(k)
    BY <1>1
  <2>2. PICK j : j = born + 1
    OBVIOUS
  <2>3. j \in Service!Jobs /\ Service!Accept(j)
    BY <2>1, <2>2, CreateServes DEF Jobs, Service!Jobs
  <2> QED
    BY <2>3, Zenon DEF Service!Next
<1>2. CASE \E j \in Jobs : FetchFind(j) \/ CancelFind(j) \/ Handler(j)
  <2>1. PICK j \in Jobs : FetchFind(j) \/ CancelFind(j) \/ Handler(j)
    BY <1>2
  <2>2. CASE JobPush(j)
    <3>1. j \in Service!Jobs
      BY DEF Jobs, Service!Jobs
    <3>2. Service!JoinLine(j) \/ UNCHANGED Service!vars
      BY <2>2, PushServes
    <3> QED
      BY <3>1, <3>2, Zenon DEF Service!Next
  <2>3. CASE FetchFind(j) \/ CancelFind(j) \/ FetchStatus(j) \/ FetchResult(j)
             \/ CancelStatus(j) \/ CancelStore(j)
    BY <2>3, ServiceStays DEF FetchFind, CancelFind, FetchStatus, FetchResult, CancelStatus,
                              CancelStore, jobVars, workVars
  <2> QED
    BY <2>1, <2>2, <2>3 DEF Handler
<1>3. CASE WorkerPop
  BY <1>3, PopServes
<1>4. CASE CheckCancel
  BY <1>4, <1>a, <1>b DEF CheckCancel
<1>5. CASE Prepare
  BY <1>5, <1>a, <1>b DEF Prepare
<1>6. CASE Generate
  BY <1>6, <1>a, <1>b DEF Generate
<1>7. CASE Recheck
  BY <1>7, <1>a, <1>b DEF Recheck
<1>8. CASE StoreResult
  BY <1>8, ServiceStays DEF StoreResult, jobVars
<1>9. CASE Finish
  BY <1>9, <1>a DEF Finish
<1>10. CASE Settle
  <2>1. current # NoJob /\ verdict \in {"done", "failed", "cancelled"}
    BY <1>10, SettleIs
  <2>2. PICK s \in {"done", "failed", "cancelled"} : s = verdict
    BY <2>1
  <2>3. Service!Settle(s)
    BY <1>10, <2>1, <2>2, SettleServes
  <2> QED
    BY <2>3, Zenon DEF Service!Next, Service!Settled
<1>11. CASE StopWorker
  <2>1. /\ born' = born /\ pool' = pool /\ status' = status /\ current' = current
        /\ queue' = queue /\ ~stop /\ stop'
    BY <1>11 DEF StopWorker, jobVars, workVars
  <2>2. queue \in Seq(Jobs) /\ current \in Jobs \cup {NoJob}
    BY DEF IInv, TypeOK
  <2>3. CASE current = NoJob
    <3>1. Service!Close
      BY <2>1, <2>2, <2>3 DEF Service!Close
    <3> QED
      BY <3>1 DEF Service!Next
  <2>4. CASE current # NoJob
    <3>1. <<current>> \o queue # <<>> /\ Head(<<current>> \o queue) = current
          /\ <<current>> \o <<>> = <<current>>
      BY <2>2, <2>4
    <3>2. Service!Close
      BY <2>1, <2>4, <3>1 DEF Service!Close
    <3> QED
      BY <3>2 DEF Service!Next
  <2> QED
    BY <2>3, <2>4
<1>12. CASE Signal \/ WorkerExit \/ Exited \/ UNCHANGED vars
  BY <1>12, ServiceStays DEF Signal, WorkerExit, Exited, vars, jobVars, workVars
<1> QED
  BY <1>1, <1>2, <1>3, <1>4, <1>5, <1>6, <1>7, <1>8, <1>9, <1>10, <1>11, <1>12 DEF Next, Worker

LEMMA InitServes == Init => Service!Init
<1> SUFFICES ASSUME Init PROVE Service!Init
    OBVIOUS
<1>1. \A j \in Jobs : j > born
  BY DEF Init, Jobs
<1>2. [j \in Jobs |-> IF j > born THEN "unborn"
          ELSE IF status[j] = "running" THEN "accepted" ELSE status[j]]
         = [j \in Service!Jobs |-> "unborn"]
  BY <1>1 DEF Jobs, Service!Jobs
<1> QED
  BY <1>2 DEF Init, Service!Init

\* Whatever handlers, worker, cancels and shutdown do, in whatever order, the
\* jobs are served as JobService says, but for its fairness.
THEOREM ServesJobs == Spec => Service!Init /\ [][Service!Next]_(Service!vars)
<1> QED  BY InitServes, NextServes, InductiveInvariant, PTL DEF Spec
=============================================================================
