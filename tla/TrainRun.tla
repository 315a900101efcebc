------------------------------ MODULE TrainRun ------------------------------
(***************************************************************************)
(* tools/ace-train.cpp: a training job as a chain of runs.  A run starts   *)
(* fresh or resumes a saved checkpoint, accumulates microbatches into      *)
(* optimizer updates, saves at its cadence and at the end, and may be      *)
(* cancelled through a file, fail, or be killed at any point.  A save      *)
(* either publishes its checkpoint or leaves what was there (Checkpoint).  *)
(***************************************************************************)
EXTENDS Naturals, Sequences

CONSTANTS Epochs,        \* command.epochs
          Batches,       \* plan.batches_per_epoch
          Accumulation,  \* command.accumulation
          EverySteps,    \* command.checkpoint_every_steps, 0 for never
          EveryEpochs,   \* command.checkpoint_every, 0 for never
          Targets,       \* the --steps the runs are given
          Runs,          \* bound: how many runs are started
          NoOrder,       \* an empty progress.order
          NoCheckpoint   \* the output has no checkpoint.current

ASSUME PlanAssumption ==
    /\ Epochs \in Nat \ {0} /\ Batches \in Nat \ {0} /\ Accumulation \in Nat \ {0}
    /\ EverySteps \in Nat /\ EveryEpochs \in Nat /\ Runs \in Nat

\* make_resume_plan.
UpdatesPerEpoch == (Batches + Accumulation - 1) \div Accumulation
TotalSteps == UpdatesPerEpoch * Epochs

ASSUME TargetsAssumption == Targets \subseteq 1 .. TotalSteps

VARIABLES
    pc,         \* where the run is, "down" between runs
    runs,       \* how many were started
    target,     \* stop_step
    epoch,      \* the loop's epoch
    cursor,     \* progress: epoch, next batch, batches counted, order
    acc,        \* the microbatches accumulated since the last update
    weights,    \* the updates that made the weights, each its microbatches
    stop,       \* the loop is to end
    cancelled,  \* cancellation.cancelled, sticky
    cancelFile, \* the host's cancellation file exists
    saved,      \* every checkpoint saved so far, in any directory
    root,       \* the one the output directory's pointer leads to
    report      \* the progress file

runVars == <<target, epoch, cursor, acc, weights, stop, cancelled>>
vars == <<pc, runs, runVars, cancelFile, saved, root, report>>

Start == [epoch |-> 0, next |-> 0, count |-> 0, order |-> NoOrder]
Step == Len(weights)

\* What ace_save_train_checkpoint stores of a run.
Here == [cursor |-> cursor, weights |-> weights]

\* ace_train_restore_progress: what a resume accepts.
Restorable(c) ==
    LET at == c.cursor
    IN  /\ at.epoch <= Epochs
        /\ at.next < Batches
        /\ at.next % Accumulation = 0
        /\ at.count = at.next
        /\ at.epoch = Epochs => at.next = 0
        /\ at.epoch * UpdatesPerEpoch + at.next \div Accumulation = Len(c.weights)
        /\ at.order = NoOrder => at.next = 0

Init ==
    /\ pc = "down" /\ runs = 0
    /\ target = 0 /\ epoch = 0 /\ cursor = Start /\ acc = <<>> /\ weights = <<>>
    /\ stop = FALSE /\ cancelled = FALSE /\ cancelFile = FALSE
    /\ saved = {} /\ root = NoCheckpoint
    /\ report = [status |-> "none", step |-> 0, target |-> 0, final |-> FALSE]

-----------------------------------------------------------------------------
(* The host.                                                                 *)

RequestCancel ==
    /\ ~cancelFile
    /\ cancelFile' = TRUE
    /\ UNCHANGED <<pc, runs, runVars, saved, root, report>>

\* It removes the file before it launches another job.
ClearCancel ==
    /\ pc = "down"
    /\ cancelFile
    /\ cancelFile' = FALSE
    /\ UNCHANGED <<pc, runs, runVars, saved, root, report>>

\* Killed; the progress file keeps what it said.
Kill ==
    /\ pc # "down"
    /\ pc' = "down"
    /\ UNCHANGED <<runs, runVars, cancelFile, saved, root, report>>

-----------------------------------------------------------------------------
\* A run that main and run_training let in: the output has no checkpoint or
\* its current one is the one resumed, and the target is not behind it.
Launch(c, t) ==
    /\ pc = "down"
    /\ runs < Runs
    /\ root \in {NoCheckpoint, c}
    /\ Restorable(c)
    /\ Len(c.weights) <= t
    /\ runs' = runs + 1
    /\ pc' = "prepare"
    /\ target' = t
    /\ cursor' = c.cursor /\ epoch' = c.cursor.epoch /\ weights' = c.weights
    /\ acc' = <<>> /\ stop' = FALSE /\ cancelled' = FALSE
    /\ report' = [status |-> "running", step |-> Len(c.weights), target |-> t, final |-> FALSE]
    /\ UNCHANGED <<cancelFile, saved, root>>

\* Without --resume, or with a PEFT adapter, whose optimizer, cursor and
\* schedule start from zero.
Fresh == [cursor |-> Start, weights |-> <<>>]

\* One of the polls between the validation and the training.
CancelEarly ==
    /\ pc = "prepare"
    /\ cancelFile
    /\ cancelled' = TRUE
    /\ pc' = "ending"
    /\ UNCHANGED <<runs, target, epoch, cursor, acc, weights, stop, cancelFile, saved, root, report>>

\* The last poll, and the beginning of train_adapter.
Prepared ==
    /\ pc = "prepare"
    /\ ~cancelFile
    /\ stop' = (Step >= target)
    /\ pc' = "epoch"
    /\ UNCHANGED <<runs, target, epoch, cursor, acc, weights, cancelled, cancelFile, saved, root, report>>

\* Slip: a resume begins its epoch again.
BeginEpochOver ==
    /\ pc = "epoch"
    /\ IF epoch < Epochs /\ ~stop
       THEN /\ cursor' = [cursor EXCEPT !.next = 0, !.count = 0, !.order = epoch]
            /\ pc' = "batch"
       ELSE pc' = "finish" /\ UNCHANGED cursor
    /\ UNCHANGED <<runs, target, epoch, acc, weights, stop, cancelled, cancelFile, saved, root, report>>

\* The order is the shuffle of the epoch's own seed, or the restored one in the
\* middle of an epoch.
BeginEpoch ==
    /\ pc = "epoch"
    /\ IF epoch < Epochs /\ ~stop
       THEN /\ cursor' = [cursor EXCEPT !.order = IF cursor.next > 0 THEN @ ELSE epoch]
            /\ pc' = "batch"
       ELSE pc' = "finish" /\ UNCHANGED cursor
    /\ UNCHANGED <<runs, target, epoch, acc, weights, stop, cancelled, cancelFile, saved, root, report>>

\* Slip: the cancellation is seen in the middle of an accumulation.
CancelAnywhere ==
    /\ pc = "batch"
    /\ cancelFile
    /\ cancelled' = TRUE /\ stop' = TRUE
    /\ pc' = "epoch_end"
    /\ UNCHANGED <<runs, target, epoch, cursor, acc, weights, cancelFile, saved, root, report>>

\* The poll at the top of the batch loop.
CancelBatch ==
    /\ pc = "batch"
    /\ acc = <<>> /\ cancelFile
    /\ cancelled' = TRUE /\ stop' = TRUE
    /\ pc' = "epoch_end"
    /\ UNCHANGED <<runs, target, epoch, cursor, acc, weights, cancelFile, saved, root, report>>

\* An update takes what is accumulated at the end of the epoch too.
Due(size, next) == size = Accumulation \/ next = 0

\* progress after a microbatch.
Advance(c) ==
    IF c.next + 1 = Batches THEN [Start EXCEPT !.epoch = epoch + 1]
    ELSE [c EXCEPT !.epoch = epoch, !.next = @ + 1, !.count = @ + 1]

\* One microbatch: its examples, window and noise are chosen by the order, the
\* epoch and the batch.
MicroBatch ==
    /\ pc = "batch"
    /\ acc # <<>> \/ ~cancelFile
    /\ acc' = Append(acc, <<cursor.order, epoch, cursor.next>>)
    /\ cursor' = Advance(cursor)
    /\ pc' = IF Due(Len(acc'), cursor'.next) THEN "update" ELSE "batch"
    /\ UNCHANGED <<runs, target, epoch, weights, stop, cancelled, cancelFile, saved, root, report>>

\* One optimizer update, the report of it, and the poll after it.
Update ==
    /\ pc = "update"
    /\ weights' = Append(weights, acc)
    /\ acc' = <<>>
    /\ report' = [report EXCEPT !.step = Step + 1]
    /\ stop' = (Step + 1 >= target \/ cancelFile)
    /\ cancelled' = (Step + 1 < target /\ cancelFile)
    /\ pc' = "updated"
    /\ UNCHANGED <<runs, target, epoch, cursor, cancelFile, saved, root>>

Every(n, k) == n > 0 /\ k % n = 0

\* The step checkpoint, and the end of the batch loop's body.
AfterUpdate ==
    /\ pc = "updated"
    /\ saved' = IF ~stop /\ Every(EverySteps, Step) THEN saved \cup {Here} ELSE saved
    /\ pc' = IF stop \/ cursor.next = 0 THEN "epoch_end" ELSE "batch"
    /\ UNCHANGED <<runs, runVars, cancelFile, root, report>>

\* The epoch checkpoint, unless the loop was left in mid-epoch.
EndEpoch ==
    /\ pc = "epoch_end"
    /\ IF cursor.epoch # epoch + 1 THEN pc' = "finish" /\ UNCHANGED <<epoch, saved>>
       ELSE /\ saved' = IF epoch + 1 # Epochs /\ Every(EveryEpochs, epoch + 1)
                        THEN saved \cup {Here} ELSE saved
            /\ epoch' = epoch + 1
            /\ pc' = "epoch"
    /\ UNCHANGED <<runs, target, cursor, acc, weights, stop, cancelled, cancelFile, root, report>>

\* The final save, which a run cancelled before its first update skips.
Finish ==
    /\ pc = "finish"
    /\ IF Step = 0 /\ cancelled THEN pc' = "ending" /\ UNCHANGED <<cursor, saved, root>>
       ELSE /\ cursor' = IF cursor.next = 0 THEN [cursor EXCEPT !.order = NoOrder] ELSE cursor
            /\ root' = [Here EXCEPT !.cursor = cursor']
            /\ saved' = saved \cup {root'}
            /\ pc' = "saved"
    /\ UNCHANGED <<runs, target, epoch, acc, weights, stop, cancelled, cancelFile, report>>

PublishFinal ==
    /\ pc = "saved"
    /\ report' = [report EXCEPT !.final = TRUE]
    /\ pc' = "ending"
    /\ UNCHANGED <<runs, runVars, cancelFile, saved, root>>

\* main's terminal report.
End ==
    /\ pc = "ending"
    /\ report' = [report EXCEPT !.status = IF cancelled THEN "cancelled" ELSE "completed"]
    /\ pc' = "down"
    /\ UNCHANGED <<runs, runVars, cancelFile, saved, root>>

\* Any step may fail, a save before or after it has published, an update before
\* or after it has counted its step.
Fail ==
    /\ pc # "down"
    /\ \E step \in {report.step} \cup (IF pc = "update" THEN {Step + 1} ELSE {}) :
          report' = [report EXCEPT !.status = "failed", !.step = step]
    /\ pc' = "down"
    /\ UNCHANGED <<runs, runVars, cancelFile, saved, root>>

Next ==
    \/ \E t \in Targets : Launch(Fresh, t)
    \/ \E c \in saved, t \in Targets : Launch(c, t)
    \/ CancelEarly
    \/ Prepared
    \/ BeginEpoch
    \/ CancelBatch
    \/ MicroBatch
    \/ Update
    \/ AfterUpdate
    \/ EndEpoch
    \/ Finish
    \/ PublishFinal
    \/ End
    \/ Fail
    \/ Kill
    \/ RequestCancel
    \/ ClearCancel

Spec == Init /\ [][Next]_vars

-----------------------------------------------------------------------------
(* Properties.                                                               *)

\* The microbatches of the u-th update of a job that is never interrupted.
Planned(u) ==
    LET e == (u - 1) \div UpdatesPerEpoch
        first == ((u - 1) % UpdatesPerEpoch) * Accumulation
        n == IF first + Accumulation <= Batches THEN Accumulation ELSE Batches - first
    IN  [i \in 1 .. n |-> <<e, e, first + i - 1>>]

OnPlan(w) ==
    /\ Len(w) <= TotalSteps
    /\ \A u \in 1 .. Len(w) : w[u] = Planned(u)

Orders == 0 .. Epochs - 1 \cup {NoOrder}
Cursors == [epoch : 0 .. Epochs, next : 0 .. Batches - 1, count : 0 .. Batches - 1, order : Orders]
Micros == (Nat \cup {NoOrder}) \X Nat \X Nat
Checkpoints == [cursor : Cursors, weights : Seq(Seq(Micros))]

ASSUME AbsenceAssumption == NoOrder \notin Nat /\ NoCheckpoint \notin Checkpoints

\* Every variable stays in its range.
TypeOK ==
    /\ pc \in {"down", "prepare", "epoch", "batch", "update", "updated", "epoch_end",
               "finish", "saved", "ending"}
    /\ runs \in 0 .. Runs
    /\ target \in 0 .. TotalSteps
    /\ epoch \in 0 .. Epochs
    /\ cursor \in Cursors
    /\ acc \in Seq(Micros) /\ Len(acc) <= Accumulation
    /\ weights \in Seq(Seq(Micros))
    /\ stop \in BOOLEAN /\ cancelled \in BOOLEAN /\ cancelFile \in BOOLEAN
    /\ saved \subseteq Checkpoints
    /\ root \in saved \cup {NoCheckpoint}
    /\ report \in [status : {"none", "running", "cancelled", "completed", "failed"},
                   step : 0 .. TotalSteps, target : 0 .. TotalSteps, final : BOOLEAN]

\* Every checkpoint the trainer writes is one it accepts: whatever the cadence
\* and wherever the cancellation came, "No half-applied update or partial
\* gradient accumulator is saved", and none to which no update was made
\* (TRAINING_JOB_CONTROL.md).
Resumable == \A c \in saved : Restorable(c) /\ c.weights # <<>>

\* However often a job is cancelled, killed and resumed, the updates that made
\* its weights are those of the uninterrupted job, none skipped, repeated or
\* made of other batches.
SameTrajectory == OnPlan(weights) /\ \A c \in saved : OnPlan(c.weights)

\* The progress file claims nothing that is not on the disk: final_adapter is
\* there once the output's pointer leads to the step reported, and a job is
\* only completed at its target.
ReportTruth ==
    /\ report.final => root # NoCheckpoint /\ Len(root.weights) = report.step
    /\ report.status = "completed" => report.final /\ report.step = report.target
=============================================================================
