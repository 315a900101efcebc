------------------------------ MODULE TrainJob ------------------------------
(***************************************************************************)
(* A training job with its files: the runs of TrainRun prepare and read    *)
(* their examples through PreprocessCache and tell their updates in        *)
(* TrainHistory.  The cache and the journal outlive a run.                 *)
(***************************************************************************)
EXTENDS TrainRun, PreprocessCache, TrainHistory

CONSTANT Shuffled  \* external: std::shuffle of the examples, for each epoch

ASSUME ShuffledAssumption ==
    \A e \in 0 .. Epochs - 1, b \in 1 .. Batches : Shuffled[e][b] \in Examples

jobVars == <<vars, cacheVars, historyVars>>

JobInit == Init /\ CacheInit /\ HistoryInit

Alone(A) == A /\ UNCHANGED <<cacheVars, historyVars>>

\* A run starts with its own view of the cache.
Started(c) == (\E t \in Targets : Launch(c, t)) /\ BeginPrepare /\ UNCHANGED historyVars

\* The loop over the chunks, which a cancellation ends.
PrepareExamples == pc = "prepare" /\ ~cancelFile /\ Prepare /\ UNCHANGED <<vars, historyVars>>

\* The examples are there, and the journal is opened at the restored step.
TrainingBegins == next = N /\ Prepared /\ Open(Step) /\ UNCHANGED cacheVars

\* The one example of the microbatch.
Example == Shuffled[cursor.order][cursor.next + 1]
TrainExample == MicroBatch /\ Get(Example) /\ UNCHANGED historyVars

\* The row is flushed before the progress file tells of the update.
UpdateTold == Update /\ AppendRow(Step + 1, acc) /\ UNCHANGED cacheVars

\* A run that ends at an update may have written of its row all, some or nothing.
Broken ==
    /\ Kill \/ Fail
    /\ IF pc = "update" THEN AppendCut(Step + 1, acc) ELSE UNCHANGED historyVars
    /\ UNCHANGED cacheVars

OtherTrainers == pc # "down" /\ Others /\ UNCHANGED <<vars, historyVars>>

JobNext ==
    \/ Started(Fresh)
    \/ \E c \in saved : Started(c)
    \/ PrepareExamples
    \/ TrainingBegins
    \/ TrainExample
    \/ UpdateTold
    \/ Broken
    \/ OtherTrainers
    \/ Alone(CancelEarly \/ BeginEpoch \/ CancelBatch \/ AfterUpdate \/ EndEpoch)
    \/ Alone(Finish \/ PublishFinal \/ End \/ RequestCancel \/ ClearCancel)

JobSpec == JobInit /\ [][JobNext]_jobVars

-----------------------------------------------------------------------------
Training == pc \in {"epoch", "batch", "update", "updated", "epoch_end", "finish", "saved"}

\* The progress file claims nothing that is not on the disk, and the journal
\* keeps all that was told: however often runs were killed in the middle of a
\* row, or began again before rows already written, a session has one row for
\* each of its updates, in order, and every update that made the weights is
\* told, by the last row that names it, as what it was made of
\* (TRAINING_HISTORY.md, "Resume and failure behavior"; train-history.h:25-70,
\* ace-train.cpp:846, 1057).
RecordsTrue ==
    /\ ReportTruth
    /\ Training =>
          /\ {journal[l].update : l \in RowsHere} = start + 1 .. Step
          /\ \A l, m \in RowsHere : l < m => journal[l].update < journal[m].update
          /\ \A u \in 1 .. Step :
                \E l \in RowsOf(u) : journal[l].of = weights[u] /\ \A m \in RowsOf(u) : m <= l
=============================================================================
