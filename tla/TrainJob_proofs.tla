--------------------------- MODULE TrainJob_proofs ---------------------------
(***************************************************************************)
(* Proofs about the training job of TrainRun, and about the same job with  *)
(* its files, TrainJob: for any number of epochs, batches and runs, any    *)
(* accumulation, cadence and targets.                                      *)
(***************************************************************************)
EXTENDS TrainJob, WellFoundedInduction, TLAPS

-----------------------------------------------------------------------------
(* The inductive invariant.                                                  *)

\* Cursor c stands where n updates of the plan end: at the k-th group of
\* batches of its epoch, its order restored if the epoch has begun.
Stands(c, n) ==
    /\ c \in Cursors
    /\ c.count = c.next
    /\ c.epoch = Epochs => c.next = 0
    /\ c.next > 0 => c.order = c.epoch
    /\ \E k \in 0 .. UpdatesPerEpoch - 1 :
          c.next = k * Accumulation /\ n = c.epoch * UpdatesPerEpoch + k

\* What a checkpoint is.
Sound(c) ==
    /\ c \in Checkpoints
    /\ Stands(c.cursor, Len(c.weights))
    /\ c.weights # <<>>
    /\ OnPlan(c.weights)

\* The cursor is still in the loop's epoch, or at the beginning of the next.
NextOrSame ==
    /\ epoch < Epochs
    /\ \/ cursor.epoch = epoch /\ cursor.next > 0
       \/ cursor.epoch = epoch + 1 /\ cursor.next = 0

\* What is accumulated are the first batches of the k-th group of the epoch.
Accumulating ==
    /\ epoch < Epochs /\ cursor.epoch = epoch /\ cursor.order = epoch
    /\ cursor.count = cursor.next
    /\ Len(acc) < Accumulation
    /\ \E k \in 0 .. UpdatesPerEpoch - 1 :
          /\ Step = epoch * UpdatesPerEpoch + k
          /\ cursor.next = k * Accumulation + Len(acc)
          /\ \A i \in 1 .. Len(acc) : acc[i] = <<epoch, epoch, k * Accumulation + i - 1>>

Settled == pc \in {"prepare", "epoch", "updated", "epoch_end", "finish"} =>
    acc = <<>> /\ Stands(cursor, Step)

Running == pc # "down" =>
    /\ target > 0 /\ Step <= target
    /\ report.status = "running" /\ report.step = Step /\ report.target = target
    /\ pc # "ending" => ~report.final

\* Before a loop is left there is work to do, and when it was left without a
\* cancellation there is none.
Stopping ==
    /\ pc = "prepare" => ~cancelled
    /\ pc \in {"epoch", "updated", "epoch_end"} =>
          /\ stop => cancelled \/ Step = target
          /\ ~stop => ~cancelled /\ Step < target
    /\ pc \in {"batch", "update"} => ~cancelled /\ Step < target
    /\ pc \in {"finish", "saved"} => cancelled \/ Step = target
    /\ pc = "saved" => root \in Checkpoints /\ root.weights = weights
    /\ pc = "ending" => cancelled \/ (report.final /\ Step = target)

Placed ==
    /\ pc \in {"prepare", "epoch"} => epoch = cursor.epoch
    /\ pc = "batch" => Accumulating
    /\ pc = "update" => acc = Planned(Step + 1) /\ Stands(cursor, Step + 1) /\ NextOrSame
    /\ pc = "updated" => Step > 0 /\ NextOrSame
    /\ pc = "epoch_end" =>
          /\ epoch < Epochs
          /\ \/ cursor.epoch = epoch /\ stop
             \/ cursor.epoch = epoch + 1 /\ cursor.next = 0 /\ Step > 0

SavedSound == \A c \in saved : Sound(c)

IInv ==
    /\ TypeOK
    /\ OnPlan(weights)
    /\ SavedSound
    /\ Settled
    /\ Running
    /\ Stopping
    /\ Placed
    /\ ReportTruth

-----------------------------------------------------------------------------
(* The arithmetic of the plan.                                               *)

\* Division by a positive number, by the equation that determines it.
LEMMA Division ==
  ASSUME NEW q \in Nat, NEW d \in Nat \ {0}, NEW r \in 0 .. d - 1
  PROVE  (q * d + r) \div d = q /\ (q * d + r) % d = r
<1> DEFINE n == q * d + r
           p == n \div d
           s == n % d
<1>1. n \in Nat /\ q * d \in Nat
  OBVIOUS
<1>2. p \in Int /\ s \in 0 .. d - 1 /\ n = d * p + s
  BY <1>1
<1> HIDE DEF n, p, s
<1>3. q * d + r = d * p + s
  BY <1>2 DEF n
<1>4. p <= q
  <2> SUFFICES ASSUME p >= q + 1 PROVE FALSE
    BY <1>2
  <2>1. d * p >= d * (q + 1)
    BY <1>2
  <2>2. d * (q + 1) = q * d + d
    OBVIOUS
  <2> QED
    BY <2>1, <2>2, <1>2, <1>3
<1>5. p >= q
  <2> SUFFICES ASSUME q >= p + 1 PROVE FALSE
    BY <1>2
  <2>1. d * q >= d * (p + 1)
    BY <1>2
  <2>2. d * (p + 1) = d * p + d
    BY <1>2
  <2> QED
    BY <2>1, <2>2, <1>2, <1>3
<1>6. p = q
  BY <1>2, <1>4, <1>5
<1>7. s = r
  BY <1>2, <1>3, <1>6
<1> QED
  BY <1>6, <1>7 DEF n, p, s

\* The updates of an epoch are as few as its batches can be counted in.
LEMMA PlanCounts ==
  /\ UpdatesPerEpoch \in Nat \ {0}
  /\ TotalSteps \in Nat \ {0}
  /\ (UpdatesPerEpoch - 1) * Accumulation < Batches
  /\ Batches <= UpdatesPerEpoch * Accumulation
<1> DEFINE n == Batches + Accumulation - 1
           u == n \div Accumulation
           r == n % Accumulation
<1>0. /\ Epochs \in Nat \ {0} /\ Batches \in Nat \ {0} /\ Accumulation \in Nat \ {0}
      /\ n \in Nat
  BY PlanAssumption
<1>1. u \in Int /\ r \in 0 .. Accumulation - 1 /\ n = Accumulation * u + r
  BY <1>0
<1> HIDE DEF u, r
<1>2. u >= 1
  <2> SUFFICES ASSUME u <= 0 PROVE FALSE
    BY <1>1
  <2>1. Accumulation * u <= 0
    BY <1>0, <1>1
  <2> QED
    BY <2>1, <1>0, <1>1
<1>3. UpdatesPerEpoch = u
  BY DEF UpdatesPerEpoch, u
<1>4. (u - 1) * Accumulation = Accumulation * u - Accumulation /\ u * Accumulation = Accumulation * u
  BY <1>0, <1>1
<1>5. u * Epochs \in Nat \ {0}
  BY <1>0, <1>1, <1>2
<1> QED
  BY <1>0, <1>1, <1>2, <1>3, <1>4, <1>5 DEF TotalSteps

\* The k-th group of batches of an epoch makes its k-th update.
LEMMA PlannedGroup ==
  ASSUME NEW e \in 0 .. Epochs - 1, NEW k \in 0 .. UpdatesPerEpoch - 1,
         NEW n \in Nat,
         n = IF k * Accumulation + Accumulation <= Batches
             THEN Accumulation ELSE Batches - k * Accumulation
  PROVE  /\ e * UpdatesPerEpoch + k \in Nat
         /\ e * UpdatesPerEpoch + k < TotalSteps
         /\ Planned(e * UpdatesPerEpoch + k + 1)
              = [i \in 1 .. n |-> <<e, e, k * Accumulation + i - 1>>]
<1> DEFINE d == UpdatesPerEpoch
           u == e * d + k + 1
<1>0. /\ Epochs \in Nat \ {0} /\ Batches \in Nat \ {0} /\ Accumulation \in Nat \ {0}
      /\ d \in Nat \ {0} /\ e \in Nat /\ k \in Nat
  BY PlanAssumption, PlanCounts
<1>1. (e * d + k) \div d = e /\ (e * d + k) % d = k
  BY <1>0, Division
<1>2. u - 1 = e * d + k /\ e * d + k \in Nat
  BY <1>0
<1>3. Planned(u) = [i \in 1 .. n |-> <<e, e, k * Accumulation + i - 1>>]
  BY <1>1, <1>2 DEF Planned
<1>4. e * d + k < TotalSteps
  <2>1. (e + 1) * d <= Epochs * d
    BY <1>0
  <2>2. (e + 1) * d = e * d + d /\ Epochs * d = TotalSteps
    BY <1>0 DEF TotalSteps
  <2> QED
    BY <1>0, <2>1, <2>2
<1> QED
  BY <1>2, <1>3, <1>4

\* Where updates of the plan end, a resume accepts the cursor.
LEMMA StandsRestorable ==
  ASSUME NEW c \in Checkpoints, Stands(c.cursor, Len(c.weights))
  PROVE  Restorable(c)
<1> DEFINE at == c.cursor
           n == Len(c.weights)
<1>0. /\ Epochs \in Nat \ {0} /\ Batches \in Nat \ {0} /\ Accumulation \in Nat \ {0}
      /\ UpdatesPerEpoch \in Nat \ {0} /\ NoOrder \notin Nat
      /\ at \in Cursors /\ n \in Nat
  BY PlanAssumption, PlanCounts, AbsenceAssumption DEF Checkpoints
<1>1. PICK k \in 0 .. UpdatesPerEpoch - 1 :
         at.next = k * Accumulation /\ n = at.epoch * UpdatesPerEpoch + k
  BY DEF Stands
<1>2. (k * Accumulation + 0) \div Accumulation = k /\ (k * Accumulation + 0) % Accumulation = 0
  BY <1>0, Division
<1>3. k * Accumulation + 0 = k * Accumulation
  BY <1>0
<1>4. at.next \div Accumulation = k /\ at.next % Accumulation = 0
  BY <1>1, <1>2, <1>3
<1>5. at.epoch \in 0 .. Epochs /\ at.next \in 0 .. Batches - 1
  BY <1>0 DEF Cursors
<1>6. at.order = NoOrder => at.next = 0
  BY <1>0, <1>5 DEF Stands
<1>7. /\ at.epoch <= Epochs /\ at.next < Batches /\ at.count = at.next
      /\ at.epoch = Epochs => at.next = 0
  BY <1>0, <1>5 DEF Stands
<1> QED
  BY <1>1, <1>4, <1>6, <1>7 DEF Restorable

\* A job begins where no update has been made.
LEMMA StartStands == Start \in Cursors /\ Stands(Start, 0) /\ Start.epoch = 0
<1>1. /\ Epochs \in Nat \ {0} /\ Batches \in Nat \ {0} /\ Accumulation \in Nat \ {0}
      /\ UpdatesPerEpoch \in Nat \ {0}
  BY PlanAssumption, PlanCounts
<1>2. Start \in Cursors
  BY <1>1 DEF Start, Cursors, Orders
<1>3. /\ Start.next = 0 * Accumulation /\ 0 = Start.epoch * UpdatesPerEpoch + 0
      /\ 0 \in 0 .. UpdatesPerEpoch - 1
  BY <1>1 DEF Start
<1>4. Start.count = Start.next /\ Start.next = 0 /\ Start.epoch = 0
  BY DEF Start
<1> QED
  BY <1>2, <1>3, <1>4 DEF Stands

\* Only the end of the last epoch has no update after it.
LEMMA StandsAtEnd ==
  ASSUME NEW c, NEW n \in Nat, Stands(c, n), c.epoch = Epochs
  PROVE  n = TotalSteps
<1>0. /\ Epochs \in Nat \ {0} /\ Accumulation \in Nat \ {0} /\ UpdatesPerEpoch \in Nat \ {0}
  BY PlanAssumption, PlanCounts
<1>1. PICK k \in 0 .. UpdatesPerEpoch - 1 :
         c.next = k * Accumulation /\ n = c.epoch * UpdatesPerEpoch + k
  BY DEF Stands
<1>2. k * Accumulation = 0
  BY <1>1 DEF Stands
<1>3. k = 0
  BY <1>0, <1>2
<1> QED
  BY <1>0, <1>1, <1>3 DEF TotalSteps

-----------------------------------------------------------------------------
(* The invariant, action by action.                                          *)

LEMMA InitInvariant == Init => IInv
<1> SUFFICES ASSUME Init PROVE IInv
  OBVIOUS
<1>0. /\ Epochs \in Nat \ {0} /\ Batches \in Nat \ {0} /\ Accumulation \in Nat \ {0}
      /\ Runs \in Nat /\ TotalSteps \in Nat \ {0} /\ UpdatesPerEpoch \in Nat \ {0}
  BY PlanAssumption, PlanCounts
<1>1. TypeOK
  <2>1. report \in [status : {"none", "running", "cancelled", "completed", "failed"},
                    step : 0 .. TotalSteps, target : 0 .. TotalSteps, final : BOOLEAN]
    BY <1>0 DEF Init
  <2>2. acc \in Seq(Micros) /\ Len(acc) <= Accumulation /\ weights \in Seq(Seq(Micros))
    BY <1>0 DEF Init
  <2>3. saved \subseteq Checkpoints /\ root \in saved \cup {NoCheckpoint}
    BY DEF Init
  <2>4. /\ pc = "down" /\ runs \in 0 .. Runs /\ target \in 0 .. TotalSteps
        /\ epoch \in 0 .. Epochs /\ cursor \in Cursors
    BY <1>0, StartStands DEF Init
  <2>5. stop \in BOOLEAN /\ cancelled \in BOOLEAN /\ cancelFile \in BOOLEAN
    BY DEF Init
  <2> QED
    BY <2>1, <2>2, <2>3, <2>4, <2>5 DEF TypeOK
<1>2. OnPlan(weights)
  BY <1>0 DEF Init, OnPlan
<1>3. SavedSound /\ Settled /\ Running /\ Stopping /\ Placed /\ ReportTruth
  BY DEF Init, SavedSound, Settled, Running, Stopping, Placed, ReportTruth
<1> QED
  BY <1>1, <1>2, <1>3 DEF IInv

\* A run starts from nothing or from a checkpoint.
LEMMA LaunchKeeps ==
  ASSUME IInv, NEW c, c \in saved \/ c = Fresh, NEW t \in Targets, Launch(c, t)
  PROVE  IInv'
<1>0. /\ pc' = "prepare" /\ runs' = runs + 1 /\ runs < Runs /\ target' = t
      /\ cursor' = c.cursor /\ epoch' = c.cursor.epoch /\ weights' = c.weights
      /\ acc' = <<>> /\ stop' = FALSE /\ cancelled' = FALSE
      /\ report' = [status |-> "running", step |-> Len(c.weights), target |-> t, final |-> FALSE]
      /\ UNCHANGED <<cancelFile, saved, root>>
      /\ Len(c.weights) <= t
  BY DEF Launch
<1>1. c \in Checkpoints /\ Stands(c.cursor, Len(c.weights)) /\ OnPlan(c.weights)
  <2>1. CASE c \in saved
    BY <2>1 DEF IInv, SavedSound, Sound
  <2>2. CASE c = Fresh
    <3>1. c.cursor = Start /\ c.weights = <<>> /\ c = [cursor |-> Start, weights |-> <<>>]
      BY <2>2 DEF Fresh
    <3>2. c \in Checkpoints /\ Stands(c.cursor, Len(c.weights))
      BY <3>1, StartStands DEF Checkpoints
    <3>3. OnPlan(c.weights)
      BY <3>1, PlanCounts DEF OnPlan
    <3> QED
      BY <3>2, <3>3
  <2> QED
    BY <2>1, <2>2
<1>2. c.cursor \in Cursors /\ c.weights \in Seq(Seq(Micros)) /\ c.cursor.epoch \in 0 .. Epochs
  BY <1>1 DEF Checkpoints, Cursors
<1>3. t \in 1 .. TotalSteps /\ Len(c.weights) \in 0 .. TotalSteps
  BY <1>0, <1>2, TargetsAssumption, PlanCounts
<1>4. TypeOK'
  <2>1. acc' \in Seq(Micros) /\ Len(acc') <= Accumulation
    BY <1>0, PlanAssumption
  <2>2. report' \in [status : {"none", "running", "cancelled", "completed", "failed"},
                     step : 0 .. TotalSteps, target : 0 .. TotalSteps, final : BOOLEAN]
    BY <1>0, <1>3
  <2>3. runs' \in 0 .. Runs
    BY <1>0, PlanAssumption DEF IInv, TypeOK
  <2> QED
    BY <1>0, <1>2, <1>3, <2>1, <2>2, <2>3 DEF IInv, TypeOK
<1>5. OnPlan(weights')
  BY <1>0, <1>1
<1>6. SavedSound'
  BY <1>0 DEF IInv, SavedSound
<1>7. Settled' /\ Placed'
  BY <1>0, <1>1 DEF Settled, Placed, Step
<1>8. Running'
  BY <1>0, <1>3 DEF Running, Step
<1>9. Stopping'
  BY <1>0 DEF Stopping, Step
<1>10. ReportTruth'
  BY <1>0 DEF ReportTruth
<1> QED
  BY <1>4, <1>5, <1>6, <1>7, <1>8, <1>9, <1>10, Zenon DEF IInv

\* The run is cancelled, or begins, with nothing done.
LEMMA PrepareKeeps == IInv /\ (CancelEarly \/ Prepared) => IInv'
<1> SUFFICES ASSUME IInv, CancelEarly \/ Prepared PROVE IInv'
  OBVIOUS
<1>0. /\ pc = "prepare" /\ pc' \in {"ending", "epoch"}
      /\ UNCHANGED <<runs, target, epoch, cursor, acc, weights, cancelFile, saved, root, report>>
      /\ pc' = "ending" => cancelled' = TRUE /\ stop' = stop
      /\ pc' = "epoch" => cancelled' = cancelled /\ (stop' <=> Step >= target)
      /\ stop' \in BOOLEAN /\ cancelled' \in BOOLEAN
  <2>1. (Step >= target) \in BOOLEAN
    OBVIOUS
  <2>2. stop \in BOOLEAN /\ cancelled \in BOOLEAN
    BY DEF IInv, TypeOK
  <2> QED
    BY <2>1, <2>2, Zenon DEF CancelEarly, Prepared
<1>1. /\ ~cancelled /\ Step <= target /\ target > 0 /\ acc = <<>> /\ Stands(cursor, Step)
      /\ epoch = cursor.epoch /\ Step \in Nat /\ target \in Nat /\ ~report.final
      /\ report.status = "running" /\ report.step = Step /\ report.target = target
  BY <1>0, PlanCounts DEF IInv, Settled, Running, Stopping, Placed, TypeOK, Step
<1>2. TypeOK'
  BY <1>0 DEF IInv, TypeOK
<1>3. OnPlan(weights') /\ SavedSound' /\ ReportTruth'
  BY <1>0 DEF IInv, SavedSound, ReportTruth
<1>4. Settled'
  BY <1>0, <1>1 DEF Settled, Step
<1>5. Running'
  BY <1>0, <1>1 DEF Running, Step
<1>6. Stopping'
  BY <1>0, <1>1 DEF Stopping, Step
<1>7. Placed'
  BY <1>0, <1>1 DEF Placed, Step
<1> QED
  BY <1>2, <1>3, <1>4, <1>5, <1>6, <1>7, Zenon DEF IInv

\* What the types say of the parts that are counted.
LEMMA Counted ==
  ASSUME TypeOK
  PROVE  /\ Epochs \in Nat \ {0} /\ Batches \in Nat \ {0} /\ Accumulation \in Nat \ {0}
         /\ UpdatesPerEpoch \in Nat \ {0} /\ TotalSteps \in Nat \ {0}
         /\ Step \in Nat /\ target \in Nat /\ epoch \in 0 .. Epochs /\ Len(acc) \in Nat
         /\ cursor.epoch \in 0 .. Epochs /\ cursor.next \in 0 .. Batches - 1
         /\ cursor = [epoch |-> cursor.epoch, next |-> cursor.next,
                      count |-> cursor.count, order |-> cursor.order]
         /\ report = [status |-> report.status, step |-> report.step,
                      target |-> report.target, final |-> report.final]
<1>1. cursor \in Cursors
  BY DEF TypeOK
<1>2. /\ cursor.epoch \in 0 .. Epochs /\ cursor.next \in 0 .. Batches - 1
      /\ cursor = [epoch |-> cursor.epoch, next |-> cursor.next,
                   count |-> cursor.count, order |-> cursor.order]
  BY <1>1 DEF Cursors
<1>3. report = [status |-> report.status, step |-> report.step,
                target |-> report.target, final |-> report.final]
  BY DEF TypeOK
<1> QED
  BY SMTT(30), <1>2, <1>3, PlanAssumption, PlanCounts DEF TypeOK, Step

\* An epoch begins where the cursor is, or the loop is over.
LEMMA BeginEpochKeeps == IInv /\ BeginEpoch => IInv'
<1> SUFFICES ASSUME IInv, BeginEpoch PROVE IInv'
  OBVIOUS
<1>0. /\ pc = "epoch"
      /\ UNCHANGED <<runs, target, epoch, acc, weights, stop, cancelled, cancelFile, saved, root, report>>
  BY DEF BeginEpoch
<1>a. /\ TypeOK /\ OnPlan(weights) /\ SavedSound /\ ReportTruth
      /\ acc = <<>> /\ Stands(cursor, Step) /\ epoch = cursor.epoch
      /\ target > 0 /\ Step <= target
      /\ report.status = "running" /\ report.step = Step /\ report.target = target
      /\ ~report.final
      /\ stop => cancelled \/ Step = target
      /\ ~stop => ~cancelled /\ Step < target
  BY <1>0 DEF IInv, Settled, Running, Stopping, Placed
<1>b. OnPlan(weights') /\ SavedSound' /\ ReportTruth' /\ Step' = Step
  BY <1>0, <1>a DEF SavedSound, ReportTruth, Step
<1>1. CASE epoch < Epochs /\ ~stop
  <2>0. /\ pc' = "batch"
        /\ cursor' = [cursor EXCEPT !.order = IF cursor.next > 0 THEN @ ELSE epoch]
    BY <1>1 DEF BeginEpoch
  <2>1. cursor' = [epoch |-> cursor.epoch, next |-> cursor.next, count |-> cursor.count, order |-> epoch]
    <3>1. cursor.next > 0 => cursor.order = epoch
      BY <1>a DEF Stands
    <3>2. ~(cursor.next > 0) => cursor' = [cursor EXCEPT !.order = epoch]
      BY <2>0
    <3>3. cursor.next > 0 => cursor' = cursor
      BY <2>0, <1>a, Counted
    <3> QED
      BY <3>1, <3>2, <3>3, <1>a, Counted
  <2>2. cursor' \in Cursors
    BY <2>1, <1>1, <1>a, Counted DEF TypeOK, Cursors, Orders
  <2>3. TypeOK'
    BY <1>0, <1>a, <2>0, <2>2 DEF TypeOK
  <2>4. Settled'
    BY <2>0 DEF Settled
  <2>5. Running'
    BY <1>0, <1>a, <1>b, <2>0 DEF Running
  <2>6. Stopping'
    BY <1>0, <1>1, <1>a, <1>b, <2>0 DEF Stopping
  <2>7. Accumulating'
    <3>1. PICK k \in 0 .. UpdatesPerEpoch - 1 :
             cursor.next = k * Accumulation /\ Step = cursor.epoch * UpdatesPerEpoch + k
      BY <1>a DEF Stands
    <3>2. Len(acc') = 0
      BY <1>0, <1>a
    <3>3. cursor.count = cursor.next
      BY <1>a DEF Stands
    <3>4. /\ Step' = epoch' * UpdatesPerEpoch + k
          /\ cursor'.next = k * Accumulation + Len(acc')
          /\ \A i \in 1 .. Len(acc') : acc'[i] = <<epoch', epoch', k * Accumulation + i - 1>>
      BY <3>1, <3>2, <1>0, <1>a, <1>b, <2>1, Counted
    <3>5. /\ epoch' < Epochs /\ cursor'.epoch = epoch' /\ cursor'.order = epoch'
          /\ cursor'.count = cursor'.next /\ Len(acc') < Accumulation
      BY <3>2, <3>3, <1>0, <1>1, <1>a, <2>1, Counted
    <3> QED
      BY <3>4, <3>5 DEF Accumulating
  <2>8. Placed'
    BY <2>0, <2>7 DEF Placed
  <2> QED
    BY <1>b, <2>3, <2>4, <2>5, <2>6, <2>8, Zenon DEF IInv
<1>2. CASE ~(epoch < Epochs /\ ~stop)
  <2>0. pc' = "finish" /\ cursor' = cursor
    BY <1>2 DEF BeginEpoch
  <2>1. cancelled \/ Step = target
    <3>1. CASE stop
      BY <3>1, <1>a
    <3>2. CASE epoch = Epochs
      BY <3>2, <1>a, Counted, StandsAtEnd DEF TypeOK
    <3> QED
      BY <3>1, <3>2, <1>2, <1>a, Counted
  <2>2. TypeOK'
    BY <1>0, <1>a, <2>0 DEF TypeOK
  <2>3. Settled'
    BY <1>0, <1>a, <1>b, <2>0 DEF Settled
  <2>4. Running'
    BY <1>0, <1>a, <1>b, <2>0 DEF Running
  <2>5. Stopping' /\ Placed'
    BY <1>0, <1>b, <2>0, <2>1 DEF Stopping, Placed
  <2> QED
    BY <1>b, <2>2, <2>3, <2>4, <2>5, Zenon DEF IInv
<1> QED
  BY <1>1, <1>2

\* A poll between two updates leaves the loop.
LEMMA CancelBatchKeeps == IInv /\ CancelBatch => IInv'
<1> SUFFICES ASSUME IInv, CancelBatch PROVE IInv'
  OBVIOUS
<1>0. /\ pc = "batch" /\ pc' = "epoch_end" /\ acc = <<>>
      /\ cancelled' = TRUE /\ stop' = TRUE
      /\ UNCHANGED <<runs, target, epoch, cursor, acc, weights, cancelFile, saved, root, report>>
  BY DEF CancelBatch
<1>a. /\ TypeOK /\ OnPlan(weights) /\ SavedSound /\ ReportTruth /\ Accumulating
      /\ target > 0 /\ Step <= target
      /\ report.status = "running" /\ report.step = Step /\ report.target = target
      /\ ~report.final
  BY <1>0 DEF IInv, Running, Placed
<1>b. OnPlan(weights') /\ SavedSound' /\ ReportTruth' /\ Step' = Step
  BY <1>0, <1>a DEF SavedSound, ReportTruth, Step
<1>1. Stands(cursor, Step)
  <2>1. PICK k \in 0 .. UpdatesPerEpoch - 1 :
           /\ Step = epoch * UpdatesPerEpoch + k
           /\ cursor.next = k * Accumulation + Len(acc)
    BY <1>a DEF Accumulating
  <2>2. cursor.next = k * Accumulation /\ Step = cursor.epoch * UpdatesPerEpoch + k
    BY <1>0, <1>a, <2>1, Counted DEF Accumulating
  <2>3. /\ cursor \in Cursors /\ cursor.count = cursor.next /\ cursor.order = cursor.epoch
        /\ cursor.epoch # Epochs
    BY <1>a, Counted DEF Accumulating, TypeOK
  <2> QED
    BY <2>2, <2>3 DEF Stands
<1>2. TypeOK'
  BY <1>0, <1>a DEF TypeOK
<1>3. Settled'
  BY <1>0, <1>1, <1>b DEF Settled
<1>4. Running'
  BY <1>0, <1>a, <1>b DEF Running
<1>5. Stopping' /\ Placed'
  BY <1>0, <1>a DEF Stopping, Placed, Accumulating
<1> QED
  BY <1>b, <1>2, <1>3, <1>4, <1>5, Zenon DEF IInv

\* A microbatch continues the group or completes the planned update.
LEMMA MicroBatchKeeps == IInv /\ MicroBatch => IInv'
<1> SUFFICES ASSUME IInv, MicroBatch PROVE IInv'
  OBVIOUS
<1>0. /\ pc = "batch"
      /\ acc' = Append(acc, <<cursor.order, epoch, cursor.next>>)
      /\ cursor' = Advance(cursor)
      /\ pc' = IF Due(Len(acc'), cursor'.next) THEN "update" ELSE "batch"
      /\ UNCHANGED <<runs, target, epoch, weights, stop, cancelled, cancelFile, saved, root, report>>
  BY DEF MicroBatch
<1>a. /\ TypeOK /\ OnPlan(weights) /\ SavedSound /\ ReportTruth /\ Accumulating
      /\ target > 0 /\ Step <= target /\ ~cancelled /\ Step < target
      /\ report.status = "running" /\ report.step = Step /\ report.target = target
      /\ ~report.final
  BY <1>0 DEF IInv, Running, Placed, Stopping
<1>b. OnPlan(weights') /\ SavedSound' /\ ReportTruth' /\ Step' = Step
  BY <1>0, <1>a DEF SavedSound, ReportTruth, Step
<1>c. /\ Epochs \in Nat \ {0} /\ Batches \in Nat \ {0} /\ Accumulation \in Nat \ {0}
      /\ UpdatesPerEpoch \in Nat \ {0}
      /\ Step \in Nat /\ epoch \in 0 .. Epochs - 1 /\ Len(acc) \in 0 .. Accumulation - 1
      /\ cursor.next \in 0 .. Batches - 1 /\ cursor.epoch = epoch /\ cursor.order = epoch
      /\ cursor.count = cursor.next
      /\ acc \in Seq(Micros)
  BY SMTT(30), <1>a, Counted DEF Accumulating, TypeOK
<1>d. PICK k \in 0 .. UpdatesPerEpoch - 1 :
         /\ Step = epoch * UpdatesPerEpoch + k
         /\ cursor.next = k * Accumulation + Len(acc)
         /\ \A i \in 1 .. Len(acc) : acc[i] = <<epoch, epoch, k * Accumulation + i - 1>>
  BY <1>a DEF Accumulating
<1> DEFINE p == k * Accumulation
           l == Len(acc) + 1
<1>e. p \in Nat /\ k \in Nat /\ l \in Nat /\ p + l = cursor.next + 1
  BY <1>c, <1>d
<1>1. /\ acc' \in Seq(Micros) /\ Len(acc') = l
      /\ \A i \in 1 .. l : acc'[i] = <<epoch, epoch, p + i - 1>>
  <2>1. <<epoch, epoch, cursor.next>> \in Micros
    BY <1>c DEF Micros
  <2>2. acc' = Append(acc, <<epoch, epoch, cursor.next>>)
    BY <1>0, <1>c
  <2>3. acc' \in Seq(Micros) /\ Len(acc') = l
    BY <2>1, <2>2, <1>c
  <2>4. ASSUME NEW i \in 1 .. l PROVE acc'[i] = <<epoch, epoch, p + i - 1>>
    <3>1. CASE i \in 1 .. Len(acc)
      BY <3>1, <2>2, <1>c, <1>d
    <3>2. CASE i = l
      <4>1. acc'[i] = <<epoch, epoch, cursor.next>>
        BY <3>2, <2>1, <2>2, <1>c
      <4>2. p + i - 1 = cursor.next
        BY <3>2, <1>c, <1>e
      <4> QED
        BY <4>1, <4>2
    <3> QED
      BY <3>1, <3>2, <1>c
  <2> QED
    BY <2>3, <2>4
<1>2. acc' = [i \in 1 .. l |-> <<epoch, epoch, p + i - 1>>]
  <2>1. acc' = [i \in 1 .. Len(acc') |-> acc'[i]]
    BY <1>1
  <2> HIDE DEF p, l
  <2>2. acc' = [i \in 1 .. l |-> acc'[i]]
    BY <1>1, <2>1
  <2> QED
    BY <1>1, <2>2
<1>f. ASSUME l = IF p + Accumulation <= Batches THEN Accumulation ELSE Batches - p
      PROVE  acc' = Planned(Step' + 1)
  <2>1. Planned(epoch * UpdatesPerEpoch + k + 1) = [i \in 1 .. l |-> <<epoch, epoch, p + i - 1>>]
    <3>1. epoch \in 0 .. Epochs - 1 /\ k \in 0 .. UpdatesPerEpoch - 1 /\ l \in Nat
      BY <1>c, <1>e
    <3> HIDE DEF l
    <3> QED
      BY ONLY <3>1, <1>f, PlannedGroup
  <2>2. Step' + 1 = epoch * UpdatesPerEpoch + k + 1
    BY <1>b, <1>d
  <2> HIDE DEF p, l
  <2> QED
    BY ONLY <2>1, <2>2, <1>2
<1>3. CASE p + l = Batches
  <2>1. cursor' = [Start EXCEPT !.epoch = epoch + 1] /\ cursor'.next = 0
    BY <1>0, <1>3, <1>c, <1>e DEF Advance, Start
  <2>2. pc' = "update"
    BY <1>0, <2>1 DEF Due
  <2>3. k = UpdatesPerEpoch - 1
    <3>1. SUFFICES ASSUME k + 1 <= UpdatesPerEpoch - 1 PROVE FALSE
      BY <1>c
    <3>2. (k + 1) * Accumulation <= (UpdatesPerEpoch - 1) * Accumulation
      BY <3>1, <1>c, <1>e
    <3>3. (k + 1) * Accumulation = p + Accumulation
      BY <1>c, <1>e
    <3> HIDE DEF p
    <3>4. (UpdatesPerEpoch - 1) * Accumulation \in Int
      BY <1>c
    <3> QED
      BY <3>2, <3>3, <3>4, <1>3, <1>c, <1>e, PlanCounts
  <2>4. l = IF p + Accumulation <= Batches THEN Accumulation ELSE Batches - p
    BY <1>3, <1>c, <1>e
  <2>5. acc' = Planned(Step' + 1)
    BY <2>4, <1>f
  <2>6. cursor' \in Cursors /\ cursor'.epoch = epoch + 1 /\ cursor'.count = 0
    <3>1. cursor' = [epoch |-> epoch + 1, next |-> 0, count |-> 0, order |-> NoOrder]
      BY <2>1 DEF Start
    <3>2. epoch + 1 \in 0 .. Epochs /\ 0 \in 0 .. Batches - 1 /\ NoOrder \in Orders
      BY <1>c DEF Orders
    <3> QED
      BY <3>1, <3>2 DEF Cursors
  <2>7. Stands(cursor', Step' + 1)
    <3>1. cursor'.next = 0 * Accumulation /\ 0 \in 0 .. UpdatesPerEpoch - 1
      BY <2>1, <1>c
    <3>2. Step' + 1 = cursor'.epoch * UpdatesPerEpoch + 0
      <4> DEFINE a == epoch * UpdatesPerEpoch
                 b == (epoch + 1) * UpdatesPerEpoch
      <4>1. b = a + UpdatesPerEpoch /\ a \in Int /\ UpdatesPerEpoch \in Int
        BY <1>c
      <4>2. Step' + 1 = a + k + 1
        BY <1>b, <1>d
      <4>3. cursor'.epoch * UpdatesPerEpoch = b
        BY <2>6
      <4> HIDE DEF a, b
      <4>4. Step' + 1 = b + 0
        BY ONLY <4>1, <4>2, <2>3
      <4> QED
        BY ONLY <4>3, <4>4
    <3> QED
      BY <3>1, <3>2, <2>1, <2>6 DEF Stands
  <2>8. NextOrSame'
    BY <2>1, <2>6, <1>0, <1>c DEF NextOrSame
  <2>9. TypeOK'
    BY <1>0, <1>1, <1>a, <1>c, <2>2, <2>6 DEF TypeOK
  <2>10. Settled' /\ Placed'
    BY <2>2, <2>5, <2>7, <2>8 DEF Settled, Placed
  <2>11. Running' /\ Stopping'
    BY <1>0, <1>a, <1>b, <2>2 DEF Running, Stopping
  <2> QED
    BY <1>b, <2>9, <2>10, <2>11, Zenon DEF IInv
<1>4. CASE p + l # Batches
  <2>0. p + l < Batches
    BY <1>4, <1>c, <1>e
  <2>1. cursor' = [cursor EXCEPT !.epoch = epoch, !.next = @ + 1, !.count = @ + 1]
    BY <1>0, <1>4, <1>c, <1>e DEF Advance
  <2>2. /\ cursor'.epoch = epoch /\ cursor'.order = epoch
        /\ cursor'.next = p + l /\ cursor'.count = p + l /\ cursor' \in Cursors
    <3>1. cursor' = [epoch |-> epoch, next |-> p + l, count |-> p + l, order |-> epoch]
      BY <2>1, <1>a, <1>c, <1>e, Counted
    <3>2. p + l \in 0 .. Batches - 1 /\ epoch \in Orders /\ epoch \in 0 .. Epochs
      BY <2>0, <1>c, <1>e DEF Orders
    <3> HIDE DEF p, l
    <3> QED
      BY <3>1, <3>2 DEF Cursors
  <2>3. CASE l = Accumulation
    <3>1. pc' = "update"
      BY <2>3, <1>0, <1>1 DEF Due
    <3>2. l = IF p + Accumulation <= Batches THEN Accumulation ELSE Batches - p
      BY <2>0, <2>3, <1>c, <1>e
    <3>3. acc' = Planned(Step' + 1)
      BY <3>2, <1>f
    <3>4. (k + 1) * Accumulation = p + l
      BY <2>3, <1>c, <1>e
    <3>5. k + 1 <= UpdatesPerEpoch - 1
      <4> SUFFICES ASSUME k + 1 >= UpdatesPerEpoch PROVE FALSE
        BY <1>c, <1>e
      <4>1. (k + 1) * Accumulation >= UpdatesPerEpoch * Accumulation
        BY <1>c, <1>e
      <4>2. UpdatesPerEpoch * Accumulation \in Nat
        BY <1>c
      <4> QED
        BY <4>1, <4>2, <3>4, <2>0, <1>c, <1>e, PlanCounts
    <3>6. Step' + 1 = cursor'.epoch * UpdatesPerEpoch + (k + 1)
      BY <1>b, <1>c, <1>d, <1>e, <2>2
    <3>7. Stands(cursor', Step' + 1)
      <4>1. k + 1 \in 0 .. UpdatesPerEpoch - 1
        BY <3>5, <1>c, <1>e
      <4>2. cursor'.epoch # Epochs
        BY <2>2, <1>c
      <4> HIDE DEF p, l
      <4> QED
        BY <4>1, <4>2, <2>2, <3>4, <3>6 DEF Stands
    <3>8. NextOrSame'
      BY <2>2, <1>0, <1>c, <1>e DEF NextOrSame
    <3>9. TypeOK'
      BY <1>0, <1>1, <1>a, <1>c, <3>1, <2>2 DEF TypeOK
    <3>10. Settled' /\ Placed'
      BY <3>1, <3>3, <3>7, <3>8 DEF Settled, Placed
    <3>11. Running' /\ Stopping'
      BY <1>0, <1>a, <1>b, <3>1 DEF Running, Stopping
    <3> QED
      BY <1>b, <3>9, <3>10, <3>11, Zenon DEF IInv
  <2>4. CASE l # Accumulation
    <3>1. pc' = "batch"
      BY <2>4, <2>2, <1>0, <1>1, <1>c, <1>e DEF Due
    <3>2. Accumulating'
      <4>1. /\ Step' = epoch' * UpdatesPerEpoch + k
            /\ cursor'.next = k * Accumulation + Len(acc')
            /\ \A i \in 1 .. Len(acc') : acc'[i] = <<epoch', epoch', k * Accumulation + i - 1>>
        BY <1>0, <1>1, <1>b, <1>d, <2>2
      <4>2. /\ epoch' < Epochs /\ cursor'.epoch = epoch' /\ cursor'.order = epoch'
            /\ cursor'.count = cursor'.next /\ Len(acc') < Accumulation
        BY <1>0, <1>1, <1>c, <1>e, <2>2, <2>4
      <4> QED
        BY <4>1, <4>2 DEF Accumulating
    <3>3. TypeOK'
      BY <1>0, <1>1, <1>a, <1>c, <3>1, <2>2 DEF TypeOK
    <3>4. Settled' /\ Placed'
      BY <3>1, <3>2 DEF Settled, Placed
    <3>5. Running' /\ Stopping'
      BY <1>0, <1>a, <1>b, <3>1 DEF Running, Stopping
    <3> QED
      BY <1>b, <3>3, <3>4, <3>5, Zenon DEF IInv
  <2> QED
    BY <2>3, <2>4
<1> QED
  BY <1>3, <1>4

\* The update is the next of the plan.
LEMMA UpdateKeeps == IInv /\ Update => IInv'
<1> SUFFICES ASSUME IInv, Update PROVE IInv'
  OBVIOUS
<1>0. /\ pc = "update" /\ pc' = "updated" /\ acc' = <<>>
      /\ weights' = Append(weights, acc)
      /\ report' = [report EXCEPT !.step = Step + 1]
      /\ UNCHANGED <<runs, target, epoch, cursor, cancelFile, saved, root>>
  BY DEF Update
<1>a. /\ TypeOK /\ OnPlan(weights) /\ SavedSound /\ ReportTruth
      /\ acc = Planned(Step + 1) /\ Stands(cursor, Step + 1) /\ NextOrSame
      /\ target > 0 /\ ~cancelled /\ Step < target
      /\ report.status = "running" /\ report.step = Step /\ report.target = target
      /\ ~report.final
  BY <1>0 DEF IInv, Running, Placed, Stopping
<1>b. /\ stop' \in BOOLEAN /\ cancelled' \in BOOLEAN
      /\ stop' <=> (Step + 1 >= target \/ cancelFile)
      /\ cancelled' <=> (Step + 1 < target /\ cancelFile)
  <2>1. /\ (Step + 1 >= target \/ cancelFile) \in BOOLEAN
        /\ (Step + 1 < target /\ cancelFile) \in BOOLEAN
    OBVIOUS
  <2> QED
    BY <2>1, Zenon DEF Update
<1>c. /\ Accumulation \in Nat \ {0} /\ Step \in Nat /\ target \in 0 .. TotalSteps /\ TotalSteps \in Nat
      /\ weights \in Seq(Seq(Micros)) /\ acc \in Seq(Micros) /\ Step = Len(weights)
  BY <1>a, Counted DEF TypeOK, Step
<1>1. /\ weights' \in Seq(Seq(Micros)) /\ Step' = Step + 1
      /\ weights'[Step + 1] = acc
      /\ \A u \in 1 .. Step : weights'[u] = weights[u]
  BY <1>0, <1>c DEF Step
<1>2. OnPlan(weights')
  <2>1. ASSUME NEW u \in 1 .. Step + 1 PROVE weights'[u] = Planned(u)
    <3>1. CASE u = Step + 1
      BY <3>1, <1>1, <1>a
    <3>2. CASE u \in 1 .. Step
      BY <3>2, <1>1, <1>a, <1>c DEF OnPlan
    <3> QED
      BY <3>1, <3>2, <1>c
  <2> QED
    BY <2>1, <1>1, <1>a, <1>c DEF OnPlan, Step
<1>3. /\ report' = [status |-> "running", step |-> Step + 1, target |-> target, final |-> report.final]
      /\ ~report'.final
  BY <1>0, <1>a, Counted
<1>4. TypeOK'
  <2>1. /\ report' \in [status : {"none", "running", "cancelled", "completed", "failed"},
                      step : 0 .. TotalSteps, target : 0 .. TotalSteps, final : BOOLEAN]
    BY <1>3, <1>a, <1>c DEF TypeOK
  <2>2. acc' \in Seq(Micros) /\ Len(acc') <= Accumulation
    BY <1>0, <1>c
  <2> QED
    BY <1>0, <1>1, <1>a, <1>b, <2>1, <2>2 DEF TypeOK
<1>5. SavedSound' /\ ReportTruth'
  BY <1>0, <1>3, <1>a DEF SavedSound, ReportTruth
<1>6. Settled' /\ Placed'
  BY <1>0, <1>1, <1>a, <1>c DEF Settled, Placed, NextOrSame
<1>7. Running'
  BY <1>0, <1>1, <1>3, <1>a, <1>c DEF Running
<1>8. Stopping'
  BY <1>0, <1>1, <1>a, <1>b, <1>c DEF Stopping
<1> QED
  BY <1>2, <1>4, <1>5, <1>6, <1>7, <1>8, Zenon DEF IInv

\* What is saved where updates of the plan end is a checkpoint.
LEMMA HereSound ==
  ASSUME TypeOK, OnPlan(weights), Step > 0,
         NEW at \in Cursors, Stands(at, Step)
  PROVE  Sound([cursor |-> at, weights |-> weights])
<1>1. weights \in Seq(Seq(Micros)) /\ weights # <<>>
  BY DEF TypeOK, Step
<1> QED
  BY <1>1 DEF Sound, Checkpoints, Step

\* The step checkpoint.
LEMMA AfterUpdateKeeps == IInv /\ AfterUpdate => IInv'
<1> SUFFICES ASSUME IInv, AfterUpdate PROVE IInv'
  OBVIOUS
<1>0. /\ pc = "updated"
      /\ saved' = saved \/ saved' = saved \cup {Here}
      /\ pc' = IF stop \/ cursor.next = 0 THEN "epoch_end" ELSE "batch"
      /\ UNCHANGED <<runs, target, epoch, cursor, acc, weights, stop, cancelled, cancelFile, root, report>>
  BY DEF AfterUpdate, runVars
<1>a. /\ TypeOK /\ OnPlan(weights) /\ SavedSound /\ ReportTruth
      /\ Step > 0 /\ NextOrSame /\ acc = <<>> /\ Stands(cursor, Step)
      /\ target > 0 /\ Step <= target
      /\ stop => cancelled \/ Step = target
      /\ ~stop => ~cancelled /\ Step < target
      /\ report.status = "running" /\ report.step = Step /\ report.target = target
      /\ ~report.final
  BY <1>0 DEF IInv, Settled, Running, Placed, Stopping
<1>b. OnPlan(weights') /\ ReportTruth' /\ Step' = Step
  BY <1>0, <1>a DEF ReportTruth, Step
<1>1. Sound(Here)
  <2>1. cursor \in Cursors
    BY <1>a DEF TypeOK
  <2> QED
    BY <1>a, <2>1, HereSound DEF Here
<1>2. SavedSound'
  BY <1>0, <1>1, <1>a DEF SavedSound
<1>3. TypeOK'
  <2>1. saved' \subseteq Checkpoints /\ root' \in saved' \cup {NoCheckpoint}
    BY <1>0, <1>1, <1>a DEF TypeOK, Sound
  <2> QED
    BY <1>0, <1>a, <2>1 DEF TypeOK
<1>4. Running'
  BY <1>0, <1>a, <1>b DEF Running
<1>5. CASE stop \/ cursor.next = 0
  <2>1. pc' = "epoch_end"
    BY <1>0, <1>5
  <2>2. Settled'
    BY <2>1, <1>0, <1>a, <1>b DEF Settled
  <2>3. Stopping'
    BY <2>1, <1>0, <1>a, <1>b DEF Stopping
  <2>4. Placed'
    BY <2>1, <1>0, <1>5, <1>a, <1>b DEF Placed, NextOrSame
  <2> QED
    BY <1>b, <1>2, <1>3, <1>4, <2>2, <2>3, <2>4, Zenon DEF IInv
<1>6. CASE ~(stop \/ cursor.next = 0)
  <2>1. pc' = "batch"
    BY <1>0, <1>6
  <2>2. epoch < Epochs /\ cursor.epoch = epoch /\ cursor.order = epoch /\ cursor.count = cursor.next
    BY <1>6, <1>a, Counted DEF NextOrSame, Stands
  <2>3. PICK k \in 0 .. UpdatesPerEpoch - 1 :
           cursor.next = k * Accumulation /\ Step = cursor.epoch * UpdatesPerEpoch + k
    BY <1>a DEF Stands
  <2>4. Len(acc) = 0
    BY <1>a
  <2>5. /\ Step' = epoch' * UpdatesPerEpoch + k
        /\ cursor'.next = k * Accumulation + Len(acc')
        /\ \A i \in 1 .. Len(acc') : acc'[i] = <<epoch', epoch', k * Accumulation + i - 1>>
    BY <2>2, <2>3, <2>4, <1>0, <1>a, <1>b, Counted
  <2>6. Len(acc') < Accumulation
    BY <2>4, <1>0, <1>a, Counted
  <2>7. Accumulating'
    BY <2>2, <2>5, <2>6, <1>0 DEF Accumulating
  <2>8. Settled' /\ Stopping' /\ Placed'
    BY <2>1, <2>7, <1>0, <1>6, <1>a, <1>b DEF Settled, Stopping, Placed
  <2> QED
    BY <1>b, <1>2, <1>3, <1>4, <2>8, Zenon DEF IInv
<1> QED
  BY <1>5, <1>6

\* The epoch checkpoint.
LEMMA EndEpochKeeps == IInv /\ EndEpoch => IInv'
<1> SUFFICES ASSUME IInv, EndEpoch PROVE IInv'
  OBVIOUS
<1>0. /\ pc = "epoch_end"
      /\ UNCHANGED <<runs, target, cursor, acc, weights, stop, cancelled, cancelFile, root, report>>
  BY DEF EndEpoch
<1>a. /\ TypeOK /\ OnPlan(weights) /\ SavedSound /\ ReportTruth
      /\ acc = <<>> /\ Stands(cursor, Step) /\ epoch < Epochs
      /\ \/ cursor.epoch = epoch /\ stop
         \/ cursor.epoch = epoch + 1 /\ cursor.next = 0 /\ Step > 0
      /\ target > 0 /\ Step <= target
      /\ stop => cancelled \/ Step = target
      /\ ~stop => ~cancelled /\ Step < target
      /\ report.status = "running" /\ report.step = Step /\ report.target = target
      /\ ~report.final
  BY <1>0 DEF IInv, Settled, Running, Placed, Stopping
<1>b. OnPlan(weights') /\ ReportTruth' /\ Step' = Step
  BY <1>0, <1>a DEF ReportTruth, Step
<1>1. CASE cursor.epoch # epoch + 1
  <2>1. pc' = "finish" /\ UNCHANGED <<epoch, saved>>
    BY <1>1 DEF EndEpoch
  <2>2. SavedSound' /\ TypeOK'
    BY <2>1, <1>0, <1>a DEF SavedSound, TypeOK
  <2>3. Settled' /\ Placed'
    BY <2>1, <1>0, <1>a, <1>b DEF Settled, Placed
  <2>4. Running' /\ Stopping'
    BY <2>1, <1>0, <1>1, <1>a, <1>b DEF Running, Stopping
  <2> QED
    BY <1>b, <2>2, <2>3, <2>4, Zenon DEF IInv
<1>2. CASE cursor.epoch = epoch + 1
  <2>1. pc' = "epoch" /\ epoch' = epoch + 1 /\ (saved' = saved \/ saved' = saved \cup {Here})
    BY <1>2 DEF EndEpoch
  <2>2. Step > 0
    BY <1>2, <1>a, Counted
  <2>3. Sound(Here)
    <3>1. cursor \in Cursors
      BY <1>a DEF TypeOK
    <3> QED
      BY <1>a, <2>2, <3>1, HereSound DEF Here
  <2>4. SavedSound'
    BY <1>a, <2>1, <2>3 DEF SavedSound
  <2>5. TypeOK'
    <3>1. saved' \subseteq Checkpoints /\ root' \in saved' \cup {NoCheckpoint}
      BY <1>0, <2>1, <2>3, <1>a DEF TypeOK, Sound
    <3>2. epoch' \in 0 .. Epochs
      BY <2>1, <1>a, Counted
    <3> QED
      BY <1>0, <1>a, <2>1, <3>1, <3>2 DEF TypeOK
  <2>6. Settled' /\ Placed'
    BY <2>1, <1>0, <1>2, <1>a, <1>b DEF Settled, Placed
  <2>7. Running' /\ Stopping'
    BY <2>1, <1>0, <1>a, <1>b DEF Running, Stopping
  <2> QED
    BY <1>b, <2>4, <2>5, <2>6, <2>7, Zenon DEF IInv
<1> QED
  BY <1>1, <1>2

\* The final save, after an update.
LEMMA FinishKeeps == IInv /\ Finish => IInv'
<1> SUFFICES ASSUME IInv, Finish PROVE IInv'
  OBVIOUS
<1>0. /\ pc = "finish"
      /\ UNCHANGED <<runs, target, epoch, acc, weights, stop, cancelled, cancelFile, report>>
  BY DEF Finish
<1>a. /\ TypeOK /\ OnPlan(weights) /\ SavedSound /\ ReportTruth
      /\ acc = <<>> /\ Stands(cursor, Step)
      /\ target > 0 /\ Step <= target /\ (cancelled \/ Step = target)
      /\ report.status = "running" /\ report.step = Step /\ report.target = target
      /\ ~report.final
  BY <1>0 DEF IInv, Settled, Running, Stopping
<1>b. OnPlan(weights') /\ Step' = Step
  BY <1>0, <1>a DEF Step
<1>1. CASE Step = 0 /\ cancelled
  <2>1. pc' = "ending" /\ UNCHANGED <<cursor, saved, root>>
    BY <1>1 DEF Finish
  <2>2. SavedSound' /\ TypeOK' /\ ReportTruth'
    BY <2>1, <1>0, <1>a DEF SavedSound, TypeOK, ReportTruth
  <2>3. Settled' /\ Placed' /\ Running' /\ Stopping'
    BY <2>1, <1>0, <1>1, <1>a, <1>b DEF Settled, Placed, Running, Stopping
  <2> QED
    BY <1>b, <2>2, <2>3, Zenon DEF IInv
<1>2. CASE ~(Step = 0 /\ cancelled)
  <2>1. /\ pc' = "saved"
        /\ cursor' = IF cursor.next = 0 THEN [cursor EXCEPT !.order = NoOrder] ELSE cursor
        /\ root' = [Here EXCEPT !.cursor = cursor']
        /\ saved' = saved \cup {root'}
    BY <1>2 DEF Finish
  <2>2. Step > 0
    BY <1>2, <1>a, Counted
  <2>3. cursor' \in Cursors /\ Stands(cursor', Step)
    <3>1. CASE cursor.next = 0
      <4>1. /\ cursor' = [epoch |-> cursor.epoch, next |-> cursor.next,
                          count |-> cursor.count, order |-> NoOrder]
        BY <3>1, <2>1, <1>a, Counted
      <4>2. cursor' \in Cursors
        BY <4>1, <1>a DEF TypeOK, Cursors, Orders
      <4>3. cursor'.epoch = cursor.epoch /\ cursor'.next = cursor.next /\ cursor'.count = cursor.count
        BY <4>1
      <4> QED
        BY <4>2, <4>3, <3>1, <1>a DEF Stands
    <3>2. CASE cursor.next # 0
      BY <3>2, <2>1, <1>a DEF TypeOK
    <3> QED
      BY <3>1, <3>2
  <2>4. root' = [cursor |-> cursor', weights |-> weights]
    BY <2>1 DEF Here
  <2>5. Sound(root')
    BY <2>2, <2>3, <2>4, <1>a, HereSound
  <2>6. SavedSound'
    BY <2>1, <2>5, <1>a DEF SavedSound
  <2>7. TypeOK'
    <3>1. saved' \subseteq Checkpoints /\ root' \in saved' \cup {NoCheckpoint}
      BY <2>1, <2>5, <1>a DEF TypeOK, Sound
    <3> QED
      BY <1>0, <1>a, <2>1, <2>3, <3>1 DEF TypeOK
  <2>8. Settled' /\ Placed' /\ ReportTruth'
    BY <2>1, <1>0, <1>a DEF Settled, Placed, ReportTruth
  <2>9. Running'
    BY <2>1, <1>0, <1>a, <1>b DEF Running
  <2>10. Stopping'
    <3>1. root' \in Checkpoints /\ root'.weights = weights'
      BY <2>4, <2>5, <1>0 DEF Sound
    <3> QED
      BY <3>1, <2>1, <1>0, <1>a, <1>b DEF Stopping
  <2> QED
    BY <1>b, <2>6, <2>7, <2>8, <2>9, <2>10, Zenon DEF IInv
<1> QED
  BY <1>1, <1>2

\* The final report, and the terminal one.
LEMMA ReportKeeps == IInv /\ (PublishFinal \/ End) => IInv'
<1> SUFFICES ASSUME IInv, PublishFinal \/ End PROVE IInv'
  OBVIOUS
<1>0. UNCHANGED <<runs, target, epoch, cursor, acc, weights, stop, cancelled, cancelFile, saved, root>>
  BY DEF PublishFinal, End, runVars
<1>a. /\ TypeOK /\ OnPlan(weights) /\ SavedSound /\ ReportTruth
  BY DEF IInv
<1>b. OnPlan(weights') /\ SavedSound' /\ Step' = Step
  BY <1>0, <1>a DEF SavedSound, Step
<1>1. CASE PublishFinal
  <2>1. /\ pc = "saved" /\ pc' = "ending"
        /\ report' = [report EXCEPT !.final = TRUE]
    BY <1>1 DEF PublishFinal
  <2>2. /\ target > 0 /\ Step <= target /\ (cancelled \/ Step = target)
        /\ report.status = "running" /\ report.step = Step /\ report.target = target
        /\ root \in Checkpoints /\ root.weights = weights
    BY <2>1 DEF IInv, Running, Stopping
  <2>3. report' = [status |-> "running", step |-> Step, target |-> target, final |-> TRUE]
    BY <2>1, <2>2, <1>a, Counted
  <2>4. TypeOK'
    <3>1. report' \in [status : {"none", "running", "cancelled", "completed", "failed"},
                       step : 0 .. TotalSteps, target : 0 .. TotalSteps, final : BOOLEAN]
      BY <2>2, <2>3, <1>a, Counted DEF TypeOK
    <3> QED
      BY <2>1, <3>1, <1>0, <1>a DEF TypeOK
  <2>5. ReportTruth'
    BY <2>2, <2>3, <1>0, AbsenceAssumption DEF ReportTruth, Step
  <2>6. Settled' /\ Placed'
    BY <2>1 DEF Settled, Placed
  <2>7. Running' /\ Stopping'
    BY <2>1, <2>2, <2>3, <1>0, <1>b DEF Running, Stopping
  <2> QED
    BY <1>b, <2>4, <2>5, <2>6, <2>7, Zenon DEF IInv
<1>2. CASE End
  <2>1. /\ pc = "ending" /\ pc' = "down"
        /\ report' = [report EXCEPT !.status = IF cancelled THEN "cancelled" ELSE "completed"]
    BY <1>2 DEF End
  <2>2. /\ report.step = Step /\ report.target = target
        /\ cancelled \/ (report.final /\ Step = target)
    BY <2>1 DEF IInv, Running, Stopping
  <2>3. report' = [status |-> IF cancelled THEN "cancelled" ELSE "completed",
                   step |-> report.step, target |-> report.target, final |-> report.final]
    BY <2>1, <1>a, Counted
  <2>4. TypeOK'
    <3>1. report' \in [status : {"none", "running", "cancelled", "completed", "failed"},
                       step : 0 .. TotalSteps, target : 0 .. TotalSteps, final : BOOLEAN]
      BY <2>3, <1>a DEF TypeOK
    <3> QED
      BY <2>1, <3>1, <1>0, <1>a DEF TypeOK
  <2>5. ReportTruth'
    BY <2>2, <2>3, <1>0, <1>a DEF ReportTruth
  <2>6. Settled' /\ Placed' /\ Running' /\ Stopping'
    BY <2>1 DEF Settled, Placed, Running, Stopping
  <2> QED
    BY <1>b, <2>4, <2>5, <2>6, Zenon DEF IInv
<1> QED
  BY <1>1, <1>2

\* A run ends anywhere, and what it leaves is what it had.
LEMMA BrokenKeeps == IInv /\ (Fail \/ Kill) => IInv'
<1> SUFFICES ASSUME IInv, Fail \/ Kill PROVE IInv'
  OBVIOUS
<1>0. /\ UNCHANGED <<runs, target, epoch, cursor, acc, weights, stop, cancelled, cancelFile, saved, root>>
      /\ pc # "down" /\ pc' = "down"
  BY DEF Fail, Kill, runVars
<1>a. /\ TypeOK /\ OnPlan(weights) /\ SavedSound /\ ReportTruth
      /\ pc = "update" => ~report.final /\ Step < target
  BY DEF IInv, Running, Stopping
<1>b. OnPlan(weights') /\ SavedSound'
  BY <1>0, <1>a DEF SavedSound
<1>1. TypeOK' /\ ReportTruth'
  <2>1. CASE Kill
    <3>1. report' = report
      BY <2>1 DEF Kill
    <3> QED
      BY <3>1, <1>0, <1>a DEF TypeOK, ReportTruth
  <2>2. CASE Fail
    <3>1. PICK step \in {report.step} \cup (IF pc = "update" THEN {Step + 1} ELSE {}) :
             report' = [report EXCEPT !.status = "failed", !.step = step]
      BY <2>2 DEF Fail
    <3>2. report' = [status |-> "failed", step |-> step, target |-> report.target, final |-> report.final]
      BY <3>1, <1>a, Counted
    <3>3. step \in 0 .. TotalSteps
      <4>1. /\ report.step \in 0 .. TotalSteps
            /\ target \in 0 .. TotalSteps /\ TotalSteps \in Nat /\ Step \in Nat
        BY <1>a, Counted DEF TypeOK
      <4>2. step = report.step \/ (pc = "update" /\ step = Step + 1)
        BY <3>1
      <4>3. CASE step = report.step
        BY <4>1, <4>3
      <4>4. CASE pc = "update" /\ step = Step + 1
        BY <4>1, <4>4, <1>a
      <4> QED
        BY <4>2, <4>3, <4>4
    <3>4. report' \in [status : {"none", "running", "cancelled", "completed", "failed"},
                       step : 0 .. TotalSteps, target : 0 .. TotalSteps, final : BOOLEAN]
      BY <3>2, <3>3, <1>a DEF TypeOK
    <3>5. TypeOK'
      BY <3>4, <1>0, <1>a DEF TypeOK
    <3>6. report.final => step = report.step
      BY <3>1, <1>a
    <3>7. ReportTruth'
      BY <3>2, <3>6, <1>0, <1>a DEF ReportTruth
    <3> QED
      BY <3>5, <3>7
  <2> QED
    BY <2>1, <2>2
<1>2. Settled' /\ Placed' /\ Running' /\ Stopping'
  BY <1>0 DEF Settled, Placed, Running, Stopping
<1> QED
  BY <1>b, <1>1, <1>2, Zenon DEF IInv

\* The host's file is only looked at.
LEMMA HostKeeps ==
  ASSUME IInv, UNCHANGED <<pc, runs, runVars, saved, root, report>>,
         cancelFile' \in BOOLEAN
  PROVE  IInv'
<1>0. UNCHANGED <<pc, runs, target, epoch, cursor, acc, weights, stop, cancelled, saved, root, report>>
  BY DEF runVars
<1>1. TypeOK'
  BY <1>0 DEF IInv, TypeOK
<1>2. OnPlan(weights') /\ SavedSound' /\ ReportTruth' /\ Step' = Step
  BY <1>0 DEF IInv, SavedSound, ReportTruth, Step
<1>3. Settled' /\ Running'
  BY <1>0, <1>2 DEF IInv, Settled, Running
<1>4. Stopping'
  BY <1>0, <1>2 DEF IInv, Stopping
<1>5. Placed'
  BY <1>0, <1>2 DEF IInv, Placed, Accumulating, NextOrSame
<1> QED
  BY <1>1, <1>2, <1>3, <1>4, <1>5, Zenon DEF IInv

LEMMA StepKeeps == IInv /\ [Next]_vars => IInv'
<1> SUFFICES ASSUME IInv, [Next]_vars PROVE IInv'
  OBVIOUS
<1>1. ASSUME NEW t \in Targets, Launch(Fresh, t) PROVE IInv'
  BY <1>1, LaunchKeeps
<1>2. ASSUME NEW c \in saved, NEW t \in Targets, Launch(c, t) PROVE IInv'
  BY <1>2, LaunchKeeps
<1>3. CASE CancelEarly \/ Prepared
  BY <1>3, PrepareKeeps
<1>4. CASE BeginEpoch
  BY <1>4, BeginEpochKeeps
<1>5. CASE CancelBatch
  BY <1>5, CancelBatchKeeps
<1>6. CASE MicroBatch
  BY <1>6, MicroBatchKeeps
<1>7. CASE Update
  BY <1>7, UpdateKeeps
<1>8. CASE AfterUpdate
  BY <1>8, AfterUpdateKeeps
<1>9. CASE EndEpoch
  BY <1>9, EndEpochKeeps
<1>10. CASE Finish
  BY <1>10, FinishKeeps
<1>11. CASE PublishFinal \/ End
  BY <1>11, ReportKeeps
<1>12. CASE Fail \/ Kill
  BY <1>12, BrokenKeeps
<1>13. CASE RequestCancel \/ ClearCancel
  BY <1>13, HostKeeps DEF RequestCancel, ClearCancel
<1>14. CASE UNCHANGED vars
  <2>1. UNCHANGED <<pc, runs, runVars, saved, root, report>> /\ cancelFile' \in BOOLEAN
    BY <1>14 DEF vars, IInv, TypeOK
  <2> QED
    BY <2>1, HostKeeps
<1> QED
  BY <1>1, <1>2, <1>3, <1>4, <1>5, <1>6, <1>7, <1>8, <1>9, <1>10, <1>11, <1>12, <1>13, <1>14
     DEF Next

-----------------------------------------------------------------------------
(* The job with its files takes the steps of TrainRun.                       *)

LEMMA JobStepIsStep == [JobNext]_jobVars => [Next]_vars
<1> SUFFICES ASSUME [JobNext]_jobVars PROVE [Next]_vars
  OBVIOUS
<1>1. CASE UNCHANGED jobVars
  BY <1>1 DEF jobVars
<1>2. ASSUME NEW c, c \in saved \/ c = Fresh, Started(c) PROVE Next
  BY <1>2 DEF Started, Next
<1>3. CASE PrepareExamples \/ OtherTrainers
  BY <1>3 DEF PrepareExamples, OtherTrainers
<1>4. CASE TrainingBegins \/ TrainExample \/ UpdateTold \/ Broken
  BY <1>4 DEF TrainingBegins, TrainExample, UpdateTold, Broken, Next
<1>5. CASE Alone(CancelEarly \/ BeginEpoch \/ CancelBatch \/ AfterUpdate \/ EndEpoch)
  BY <1>5 DEF Alone, Next
<1>6. CASE Alone(Finish \/ PublishFinal \/ End \/ RequestCancel \/ ClearCancel)
  BY <1>6 DEF Alone, Next
<1> QED
  BY <1>1, <1>2, <1>3, <1>4, <1>5, <1>6 DEF JobNext

\* The strengthened invariant: where the cursor stands, what is accumulated, how
\* the loop is to end and what the progress file says, place by place
\* (ace-train.cpp's train_adapter and run_training).
THEOREM TrainRunInvariant == Spec => []IInv
<1>1. Init => IInv
  BY InitInvariant
<1>2. IInv /\ [Next]_vars => IInv'
  BY StepKeeps
<1> QED
  BY <1>1, <1>2, PTL DEF Spec

THEOREM TrainJobInvariant == JobSpec => []IInv
<1>1. JobInit => IInv
  BY InitInvariant DEF JobInit
<1>2. IInv /\ [JobNext]_jobVars => IInv'
  BY JobStepIsStep, StepKeeps
<1> QED
  BY <1>1, <1>2, PTL DEF JobSpec

LEMMA InvariantImplies == IInv => Resumable /\ SameTrajectory /\ ReportTruth
<1> SUFFICES ASSUME IInv PROVE Resumable /\ SameTrajectory /\ ReportTruth
  OBVIOUS
<1>1. ASSUME NEW c \in saved PROVE Restorable(c) /\ c.weights # <<>> /\ OnPlan(c.weights)
  BY StandsRestorable DEF IInv, SavedSound, Sound
<1> QED
  BY <1>1 DEF IInv, Resumable, SameTrajectory

\* However many runs a job is made of, and wherever each was cancelled, killed
\* or failed: every checkpoint saved is one that a resume accepts, and the
\* updates that made the weights are those of the uninterrupted job.
THEOREM TrainJobSafety == JobSpec => [](Resumable /\ SameTrajectory)
<1>1. IInv => Resumable /\ SameTrajectory
  BY InvariantImplies
<1> QED
  BY <1>1, TrainJobInvariant, PTL

-----------------------------------------------------------------------------
(* The journal.                                                              *)

Rows == [whole : {TRUE}, session : Nat, start : Nat, update : Nat, of : Seq(Micros)]
Lines == {Piece} \cup Rows

\* Only the last line can be a piece.
JournalOK ==
    /\ journal \in Seq(Lines)
    /\ session \in Nat /\ start \in Nat
    /\ \A l \in 1 .. Len(journal) - 1 : journal[l].whole

\* A row tells what the plan has for its update.
RowsPlanned ==
    \A l \in DOMAIN journal :
        journal[l].whole => /\ journal[l].of = Planned(journal[l].update)
                            /\ journal[l].session <= session

\* Some row of update u is the last of them.
Told(u) == \E l \in RowsOf(u) : \A m \in RowsOf(u) : m <= l

AllTold ==
    /\ pc # "down" => \A u \in 1 .. Step : Told(u)
    /\ \A c \in saved : \A u \in 1 .. Len(c.weights) : Told(u)

SessionTold == Training =>
    /\ ~EndsTorn
    /\ start <= Step
    /\ \A l \in RowsHere : journal[l].update \in start + 1 .. Step
    /\ \A u \in start + 1 .. Step : \E l \in RowsHere : journal[l].update = u
    /\ \A l, m \in RowsHere : l < m => journal[l].update < journal[m].update

HInv == JournalOK /\ RowsPlanned /\ AllTold /\ SessionTold

\* The steps that neither make an update nor begin anything.
Quiet ==
    \/ CancelEarly \/ BeginEpoch \/ CancelBatch \/ MicroBatch \/ AfterUpdate \/ EndEpoch
    \/ Finish \/ PublishFinal \/ End \/ RequestCancel \/ ClearCancel \/ Kill \/ Fail
    \/ UNCHANGED vars

LEMMA QuietSteps ==
  ASSUME TypeOK, Quiet
  PROVE  /\ weights' = weights
         /\ Training' => Training
         /\ pc' # "down" => pc # "down"
         /\ \A c \in saved' : c \in saved \/ (c.weights = weights /\ pc # "down")
<1>1. CASE CancelEarly \/ BeginEpoch \/ CancelBatch \/ MicroBatch
  BY <1>1 DEF CancelEarly, BeginEpoch, CancelBatch, MicroBatch, Training
<1>2. CASE AfterUpdate \/ EndEpoch
  BY <1>2 DEF AfterUpdate, EndEpoch, Training, runVars, Here
<1>3. CASE Finish
  <2>1. /\ pc = "finish" /\ weights' = weights /\ pc' \in {"ending", "saved"}
        /\ saved' = saved \/ saved' = saved \cup {root'}
        /\ saved' = saved \/ root' = [Here EXCEPT !.cursor = cursor']
    BY <1>3 DEF Finish
  <2> QED
    BY <2>1 DEF Here, Training
<1>4. CASE PublishFinal \/ End \/ RequestCancel \/ ClearCancel
  BY <1>4 DEF PublishFinal, End, RequestCancel, ClearCancel, Training, runVars
<1>5. CASE Kill \/ Fail
  BY <1>5 DEF Kill, Fail, Training, runVars
<1>6. CASE UNCHANGED vars
  BY <1>6 DEF vars, Training, runVars
<1> QED
  BY <1>1, <1>2, <1>3, <1>4, <1>5, <1>6 DEF Quiet

LEMMA ToldStays ==
  ASSUME NEW u, Told(u), RowsOf(u)' = RowsOf(u)
  PROVE  Told(u)'
BY DEF Told

\* Nothing is written, and the run goes on, ends, or another is launched from
\* what was told.
LEMMA SilentKeeps ==
  ASSUME TypeOK, HInv, UNCHANGED historyVars,
         \/ Quiet
         \/ \E c, t : (c \in saved \/ c = Fresh) /\ Launch(c, t)
  PROVE  HInv'
<1>0. journal' = journal /\ session' = session /\ start' = start
  BY DEF historyVars
<1>1. JournalOK' /\ RowsPlanned'
  BY <1>0 DEF HInv, JournalOK, RowsPlanned
<1>2. ASSUME NEW u, Told(u) PROVE Told(u)'
  BY <1>0, <1>2, ToldStays DEF RowsOf
<1>3. CASE Quiet
  <2>1. /\ weights' = weights
        /\ Training' => Training
        /\ pc' # "down" => pc # "down"
        /\ \A c \in saved' : c \in saved \/ (c.weights = weights /\ pc # "down")
    BY <1>3, QuietSteps
  <2>2. Step' = Step
    BY <2>1 DEF Step
  <2>3. ASSUME NEW c \in saved', NEW u \in 1 .. Len(c.weights) PROVE Told(u)'
    BY <2>1, <1>2 DEF HInv, AllTold, Step
  <2>4. AllTold'
    BY <2>1, <2>2, <2>3, <1>2 DEF HInv, AllTold
  <2>5. SessionTold'
    BY <2>1, <2>2, <1>0 DEF HInv, SessionTold, RowsHere, EndsTorn
  <2> QED
    BY <1>1, <2>4, <2>5, Zenon DEF HInv
<1>4. ASSUME NEW c, NEW t, c \in saved \/ c = Fresh, Launch(c, t) PROVE HInv'
  <2>1. pc' = "prepare" /\ weights' = c.weights /\ saved' = saved
    BY <1>4 DEF Launch
  <2>2. ASSUME NEW u \in 1 .. Len(c.weights) PROVE Told(u)'
    <3>1. CASE c \in saved
      BY <3>1, <1>2 DEF HInv, AllTold
    <3>2. CASE c = Fresh
      BY <3>2 DEF Fresh
    <3> QED
      BY <3>1, <3>2, <1>4
  <2>3. AllTold'
    BY <2>1, <2>2, <1>2 DEF HInv, AllTold, Step
  <2>4. SessionTold'
    BY <2>1 DEF SessionTold, Training
  <2> QED
    BY <1>1, <2>3, <2>4, Zenon DEF HInv
<1> QED
  BY <1>3, <1>4

\* A sequence with one element more, and with one less.
LEMMA OneMore ==
  ASSUME NEW S, NEW s \in Seq(S), NEW e \in S, NEW t, t = Append(s, e)
  PROVE  /\ t \in Seq(S) /\ Len(t) = Len(s) + 1 /\ Len(s) \in Nat
         /\ DOMAIN s = 1 .. Len(s) /\ DOMAIN t = 1 .. Len(s) + 1
         /\ t[Len(s) + 1] = e
         /\ \A l \in 1 .. Len(s) : t[l] = s[l]
OBVIOUS

LEMMA OneLess ==
  ASSUME NEW S, NEW s \in Seq(S), s # <<>>, NEW t, t = Front(s)
  PROVE  /\ t \in Seq(S) /\ Len(t) = Len(s) - 1 /\ Len(s) \in Nat \ {0}
         /\ \A l \in 1 .. Len(s) - 1 : t[l] = s[l]
<1>1. Len(s) \in Nat \ {0}
  OBVIOUS
<1> DEFINE n == Len(s) - 1
<1>2. t = SubSeq(s, 1, n)
  BY DEF Front
<1>3. n \in Nat /\ n <= Len(s)
  BY <1>1
<1> HIDE DEF n
<1>4. t \in Seq(S) /\ Len(t) = n
  BY <1>1, <1>2, <1>3
<1>5. \A l \in 1 .. n : t[l] = s[l]
  BY <1>1, <1>2, <1>3
<1> QED
  BY <1>1, <1>4, <1>5 DEF n

\* A run begins its session behind the last whole line.
LEMMA OpenKeeps == IInv /\ HInv /\ TrainingBegins => HInv'
<1> SUFFICES ASSUME IInv, HInv, TrainingBegins PROVE HInv'
  OBVIOUS
<1>0. /\ pc = "prepare" /\ pc' = "epoch" /\ weights' = weights /\ saved' = saved
      /\ session' = session + 1 /\ start' = Step
      /\ journal' = IF EndsTorn THEN Front(journal) ELSE journal
      /\ Step \in Nat
  BY Counted DEF TrainingBegins, Prepared, Open, IInv
<1>a. /\ journal \in Seq(Lines) /\ session \in Nat
      /\ \A l \in 1 .. Len(journal) - 1 : journal[l].whole
  BY DEF HInv, JournalOK
<1>1. /\ journal' \in Seq(Lines) /\ Len(journal') <= Len(journal)
      /\ \A l \in 1 .. Len(journal') : journal'[l] = journal[l] /\ journal'[l].whole
      /\ \A l \in 1 .. Len(journal) : journal[l].whole => l <= Len(journal')
  <2>1. CASE EndsTorn
    <3>1. /\ journal' = Front(journal) /\ journal # <<>> /\ ~journal[Len(journal)].whole
      BY <2>1, <1>0 DEF EndsTorn, Last
    <3>2. /\ journal' \in Seq(Lines) /\ Len(journal') = Len(journal) - 1
          /\ Len(journal) \in Nat \ {0}
          /\ \A l \in 1 .. Len(journal') : journal'[l] = journal[l]
      BY <3>1, <1>a, OneLess
    <3>3. ASSUME NEW l \in 1 .. Len(journal), journal[l].whole PROVE l <= Len(journal')
      BY <3>1, <3>2, <3>3, <1>a
    <3> QED
      BY <3>2, <3>3, <1>a
  <2>2. CASE ~EndsTorn
    <3>1. journal' = journal
      BY <2>2, <1>0
    <3>2. ASSUME NEW l \in 1 .. Len(journal) PROVE journal[l].whole
      <4>1. CASE l \in 1 .. Len(journal) - 1
        BY <4>1, <1>a
      <4>2. CASE l = Len(journal)
        BY <2>2, <4>2, <1>a DEF EndsTorn, Last
      <4> QED
        BY <4>1, <4>2, <1>a
    <3> QED
      BY <3>1, <3>2, <1>a
  <2> QED
    BY <2>1, <2>2
<1>2. /\ DOMAIN journal = 1 .. Len(journal) /\ DOMAIN journal' = 1 .. Len(journal')
      /\ Len(journal) \in Nat /\ Len(journal') \in Nat
  BY <1>1, <1>a
<1>3. JournalOK'
  BY <1>0, <1>1, <1>2, <1>a DEF JournalOK
<1>4. RowsPlanned'
  <2>1. ASSUME NEW l \in 1 .. Len(journal')
        PROVE  journal'[l].of = Planned(journal'[l].update) /\ journal'[l].session <= session + 1
    <3>1. l \in DOMAIN journal /\ journal'[l] = journal[l] /\ journal[l].whole
      BY <1>1, <1>2
    <3>2. journal[l].of = Planned(journal[l].update) /\ journal[l].session <= session
      BY <3>1 DEF HInv, RowsPlanned
    <3>3. journal[l].session \in Nat
      <4>1. journal[l] \in Lines /\ journal[l] # Piece
        BY <3>1, <1>a DEF Piece
      <4>2. journal[l] \in Rows
        BY <4>1 DEF Lines
      <4> QED
        BY <4>2 DEF Rows
    <3> QED
      BY <3>1, <3>2, <3>3, <1>a
  <2> QED
    BY <2>1, <1>0, <1>2 DEF RowsPlanned
<1>5. ASSUME NEW u, Told(u) PROVE Told(u)'
  <2>1. RowsOf(u)' = RowsOf(u)
    BY <1>1, <1>2 DEF RowsOf
  <2> QED
    BY <1>5, <2>1, ToldStays
<1>6. AllTold'
  BY <1>0, <1>5 DEF HInv, AllTold, Step
<1>7. SessionTold'
  <2>1. RowsHere' = {}
    <3>1. ASSUME NEW l \in RowsHere' PROVE FALSE
      <4>1. l \in 1 .. Len(journal') /\ journal'[l].session = session + 1
        BY <1>0, <1>2 DEF RowsHere
      <4>2. l \in DOMAIN journal /\ journal[l].whole /\ journal[l].session = session + 1
        BY <4>1, <1>1, <1>2
      <4> QED
        BY <4>2, <1>a DEF HInv, RowsPlanned
    <3> QED
      BY <3>1
  <2>2. ~EndsTorn'
    BY <1>1, <1>2 DEF EndsTorn, Last
  <2>3. Step' = Step
    BY <1>0 DEF Step
  <2> QED
    BY <1>0, <2>1, <2>2, <2>3 DEF SessionTold
<1> QED
  BY <1>3, <1>4, <1>6, <1>7, Zenon DEF HInv

\* What a row does to the journal of a run that trains: it is its last line and
\* the last row of its update, and hides no other.
LEMMA RowAdded ==
  ASSUME HInv, IInv, pc = "update", NEW s, s = Step + 1,
         journal' = Added(Row(Step + 1, acc)), session' = session, start' = start
  PROVE  /\ JournalOK' /\ RowsPlanned'
         /\ ~EndsTorn'
         /\ journal' = Append(journal, Row(Step + 1, acc))
         /\ Told(s)'
         /\ \A u : Told(u) => Told(u)'
<1> DEFINE row == Row(Step + 1, acc)
           n == Len(journal) + 1
<1>a. /\ journal \in Seq(Lines) /\ session \in Nat /\ start \in Nat
      /\ Step \in Nat /\ acc \in Seq(Micros) /\ acc = Planned(Step + 1)
      /\ ~EndsTorn
  BY Counted DEF HInv, JournalOK, SessionTold, Training, IInv, TypeOK, Placed
<1>0. journal' = Append(journal, row)
  BY <1>a DEF Added
<1>1. /\ row.whole = TRUE /\ row.session = session /\ row.update = Step + 1 /\ row.of = acc
      /\ row \in Lines
  BY <1>a DEF Row, Lines, Rows
<1>n. n = Len(journal) + 1 /\ n - 1 = Len(journal) /\ n - 1 \in Nat /\ n \in Nat
  BY <1>a
<1> HIDE DEF row, n
<1>2. /\ journal' \in Seq(Lines) /\ Len(journal') = n /\ n \in Nat
      /\ DOMAIN journal' = 1 .. n /\ DOMAIN journal = 1 .. n - 1
      /\ journal'[n] = row
      /\ \A l \in 1 .. n - 1 : journal'[l] = journal[l]
  <2>1. /\ journal' \in Seq(Lines) /\ Len(journal') = n
        /\ DOMAIN journal' = 1 .. n /\ DOMAIN journal = 1 .. Len(journal)
        /\ journal'[n] = row
        /\ \A l \in 1 .. Len(journal) : journal'[l] = journal[l]
    BY <1>n, <1>0, <1>1, <1>a, OneMore
  <2> QED
    BY <2>1, <1>n
<1>3. ASSUME NEW l \in 1 .. n - 1 PROVE journal[l].whole
  <2>1. CASE l = n - 1
    <3>1. l = Len(journal) /\ journal # <<>>
      BY <2>1, <1>n
    <3> QED
      BY <3>1, <1>a, Zenon DEF EndsTorn, Last
  <2>2. CASE l \in 1 .. n - 2
    <3>1. l \in 1 .. Len(journal) - 1
      BY <2>2, <1>n
    <3> QED
      BY <3>1 DEF HInv, JournalOK
  <2> QED
    BY <2>1, <2>2, <1>2, <1>n
<1>4. JournalOK'
  <2>1. \A l \in 1 .. Len(journal') - 1 : journal'[l].whole
    BY <1>2, <1>3
  <2> QED
    BY <1>2, <1>a, <2>1 DEF JournalOK
<1>5. RowsPlanned'
  <2>1. ASSUME NEW l \in 1 .. n
        PROVE  journal'[l].of = Planned(journal'[l].update) /\ journal'[l].session <= session
    <3>1. CASE l = n
      BY <3>1, <1>1, <1>2, <1>a
    <3>2. CASE l \in 1 .. n - 1
      BY <3>2, <1>2, <1>3 DEF HInv, RowsPlanned
    <3> QED
      BY <3>1, <3>2, <1>2
  <2> QED
    BY <2>1, <1>2 DEF RowsPlanned
<1>6. ~EndsTorn'
  BY <1>1, <1>2 DEF EndsTorn, Last
<1>7. Told(s)'
  <2>1. n \in RowsOf(s)'
    BY <1>1, <1>2, <1>n DEF RowsOf
  <2>2. \A m \in RowsOf(s)' : m <= n
    BY <1>2, <1>n DEF RowsOf
  <2> QED
    BY <2>1, <2>2 DEF Told
<1>8. ASSUME NEW u, Told(u) PROVE Told(u)'
  <2>1. CASE u = s
    BY <2>1, <1>7
  <2>2. CASE u # s
    <3>1. RowsOf(u)' = RowsOf(u)
      BY <2>2, <1>1, <1>2 DEF RowsOf
    <3> QED
      BY <3>1, <1>8, ToldStays
  <2> QED
    BY <2>1, <2>2
<1> QED
  BY <1>0, <1>4, <1>5, <1>6, <1>7, <1>8 DEF row

\* Update and its row.
LEMMA UpdateToldKeeps ==
  ASSUME IInv, HInv, UpdateTold, NEW s, s = Step + 1
  PROVE  HInv'
<1> DEFINE n == Len(journal) + 1
           row == Row(s, acc)
<1>0. /\ pc = "update" /\ pc' = "updated" /\ saved' = saved
      /\ weights' = Append(weights, acc)
      /\ journal' = Added(row) /\ session' = session /\ start' = start
  BY DEF UpdateTold, Update, AppendRow
<1>a. /\ Step \in Nat /\ weights \in Seq(Seq(Micros)) /\ acc \in Seq(Micros)
      /\ start \in Nat /\ session \in Nat /\ journal \in Seq(Lines)
      /\ start <= Step
      /\ \A l \in RowsHere : journal[l].update \in start + 1 .. Step
      /\ \A u \in start + 1 .. Step : \E l \in RowsHere : journal[l].update = u
      /\ \A l, m \in RowsHere : l < m => journal[l].update < journal[m].update
  BY <1>0, Counted DEF IInv, TypeOK, HInv, JournalOK, SessionTold, Training
<1>b. Step' = s
  BY <1>0, <1>a DEF Step
<1>1. /\ JournalOK' /\ RowsPlanned'
      /\ ~EndsTorn'
      /\ journal' = Append(journal, row)
      /\ Told(s)'
      /\ \A u : Told(u) => Told(u)'
  BY <1>0, RowAdded
<1>2. /\ row.whole = TRUE /\ row.session = session /\ row.update = s
      /\ row \in Lines
  BY <1>a DEF Row, Lines, Rows
<1> HIDE DEF row
<1>3. /\ Len(journal') = n /\ n \in Nat /\ n - 1 = Len(journal)
      /\ DOMAIN journal' = 1 .. n /\ DOMAIN journal = 1 .. n - 1
      /\ journal'[n] = row
      /\ \A l \in 1 .. n - 1 : journal'[l] = journal[l]
  <2>1. n \in Nat /\ n - 1 = Len(journal)
    BY <1>a
  <2>2. /\ Len(journal') = n
        /\ DOMAIN journal' = 1 .. n /\ DOMAIN journal = 1 .. Len(journal)
        /\ journal'[n] = row
        /\ \A l \in 1 .. Len(journal) : journal'[l] = journal[l]
    BY <1>1, <1>2, <1>a, OneMore
  <2> HIDE DEF n
  <2> QED
    BY <2>1, <2>2
<1> HIDE DEF n
<1>4. RowsHere' = RowsHere \cup {n}
  BY <1>0, <1>2, <1>3 DEF RowsHere
<1>5. \A l \in RowsHere : l \in 1 .. n - 1 /\ journal'[l] = journal[l]
  BY <1>3 DEF RowsHere
<1>6. journal'[n].update = s /\ s = Step + 1
  BY <1>2, <1>3
<1>7. AllTold'
  <2>1. ASSUME NEW u \in 1 .. s PROVE Told(u)'
    <3>1. CASE u = s
      BY <3>1, <1>1
    <3>2. CASE u \in 1 .. Step
      BY <3>2, <1>0, <1>1 DEF HInv, AllTold
    <3> QED
      BY <3>1, <3>2, <1>a, <1>6
  <2>2. ASSUME NEW c \in saved', NEW u \in 1 .. Len(c.weights) PROVE Told(u)'
    BY <1>0, <1>1 DEF HInv, AllTold
  <2> QED
    BY <2>1, <2>2, <1>b DEF AllTold
<1>8. SessionTold'
  <2>1. start' <= Step'
    BY <1>0, <1>a, <1>b, <1>6
  <2>2. ASSUME NEW l \in RowsHere' PROVE journal'[l].update \in start' + 1 .. Step'
    <3>0. /\ start' = start /\ Step' = Step + 1
          /\ start \in Nat /\ Step \in Nat /\ start <= Step
      BY <1>0, <1>6, <1>a, <1>b
    <3>1. CASE l = n
      <4>1. journal'[l].update = Step + 1
        BY <3>1, <1>6
      <4> QED
        BY ONLY <3>0, <4>1
    <3>2. CASE l \in RowsHere
      <4>1. journal'[l].update \in start + 1 .. Step
        BY <3>2, <1>5, <1>a
      <4> QED
        BY ONLY <3>0, <4>1
    <3> QED
      BY <3>1, <3>2, <1>4
  <2>3. ASSUME NEW u \in start' + 1 .. Step' PROVE \E l \in RowsHere' : journal'[l].update = u
    <3>1. CASE u = s
      BY <3>1, <1>4, <1>6
    <3>2. CASE u # s
      <4>1. u \in start + 1 .. Step
        BY <3>2, <1>0, <1>6, <1>a, <1>b
      <4>2. PICK l \in RowsHere : journal[l].update = u
        BY <4>1, <1>a
      <4> QED
        BY <4>2, <1>4, <1>5
    <3> QED
      BY <3>1, <3>2
  <2>4. ASSUME NEW l \in RowsHere', NEW m \in RowsHere', l < m
        PROVE  journal'[l].update < journal'[m].update
    <3>1. m \in RowsHere => m \in 1 .. n - 1
      BY <1>5
    <3>2. l # n
      BY <2>4, <3>1, <1>3, <1>4
    <3>3. l \in RowsHere
      BY <3>2, <1>4
    <3>4. CASE m = n
      <4>1. journal'[l].update \in start + 1 .. Step
        BY <3>3, <1>5, <1>a
      <4>2. journal'[m].update = Step + 1 /\ start \in Nat /\ Step \in Nat
        BY <3>4, <1>6, <1>a
      <4> QED
        BY ONLY <4>1, <4>2
    <3>5. CASE m \in RowsHere
      <4>1. journal[l].update < journal[m].update
        BY <3>3, <3>5, <2>4, <1>a
      <4> QED
        BY <3>3, <3>5, <4>1, <1>5
    <3> QED
      BY <3>4, <3>5, <1>4
  <2> QED
    BY <2>1, <2>2, <2>3, <2>4, <1>1 DEF SessionTold
<1> QED
  BY <1>1, <1>7, <1>8, Zenon DEF HInv

\* A run that ends at an update may leave its row, or a piece of it.
LEMMA BrokenTellKeeps ==
  ASSUME IInv, HInv, Broken, NEW s, s = Step + 1
  PROVE  HInv'
<1>0. /\ pc' = "down" /\ saved' = saved
  BY DEF Broken, Kill, Fail, runVars
<1>1. CASE UNCHANGED historyVars
  <2>1. Quiet
    BY DEF Broken, Quiet
  <2> QED
    BY <1>1, <2>1, SilentKeeps DEF IInv
<1>2. CASE pc = "update" /\ AppendCut(s, acc)
  <2>0. /\ session' = session /\ start' = start
        /\ journal' \in {journal, Added(Piece), Added(Row(s, acc))}
    BY <1>2 DEF AppendCut
  <2>1. SessionTold'
    BY <1>0 DEF SessionTold, Training
  <2>2. ASSUME \A u : Told(u) => Told(u)' PROVE AllTold'
    BY <1>0, <2>2 DEF HInv, AllTold
  <2>3. CASE journal' = Added(Row(s, acc))
    <3>1. JournalOK' /\ RowsPlanned' /\ \A u : Told(u) => Told(u)'
      BY <1>2, <2>0, <2>3, RowAdded
    <3> QED
      BY <3>1, <2>1, <2>2, Zenon DEF HInv
  <2>4. CASE journal' = journal
    <3>1. UNCHANGED historyVars
      BY <2>0, <2>4 DEF historyVars
    <3> QED
      BY <3>1, <1>1
  <2>5. CASE journal' = Added(Piece)
    <3> DEFINE n == Len(journal) + 1
    <3>a. /\ journal \in Seq(Lines) /\ session \in Nat /\ start \in Nat /\ ~EndsTorn
      BY <1>2 DEF HInv, JournalOK, SessionTold, Training
    <3>1. journal' = Append(journal, Piece) /\ Piece \in Lines /\ ~Piece.whole
      BY <2>5, <3>a DEF Added, Lines, Piece
    <3>2. /\ journal' \in Seq(Lines) /\ Len(journal') = n /\ n \in Nat /\ n - 1 = Len(journal)
          /\ DOMAIN journal' = 1 .. n /\ DOMAIN journal = 1 .. n - 1
          /\ journal'[n] = Piece
          /\ \A l \in 1 .. n - 1 : journal'[l] = journal[l]
      <4>1. n \in Nat /\ n - 1 = Len(journal)
        BY <3>a
      <4>2. /\ journal' \in Seq(Lines) /\ Len(journal') = n
            /\ DOMAIN journal' = 1 .. n /\ DOMAIN journal = 1 .. Len(journal)
            /\ journal'[n] = Piece
            /\ \A l \in 1 .. Len(journal) : journal'[l] = journal[l]
        BY <3>1, <3>a, OneMore
      <4> HIDE DEF n
      <4> QED
        BY <4>1, <4>2
    <3> HIDE DEF n
    <3>3. ASSUME NEW l \in 1 .. n - 1 PROVE journal[l].whole
      <4>1. CASE l = n - 1
        <5>1. l = Len(journal) /\ journal # <<>>
          BY <4>1, <3>2, <3>a
        <5> QED
          BY <5>1, <3>a, Zenon DEF EndsTorn, Last
      <4>2. CASE l \in 1 .. n - 2
        <5>1. l \in 1 .. Len(journal) - 1
          BY <4>2, <3>2
        <5> QED
          BY <5>1 DEF HInv, JournalOK
      <4> QED
        BY <4>1, <4>2, <3>2
    <3>4. JournalOK'
      <4>1. \A l \in 1 .. Len(journal') - 1 : journal'[l].whole
        BY <3>2, <3>3
      <4> QED
        BY <4>1, <3>2, <3>a, <2>0 DEF JournalOK
    <3>5. RowsPlanned'
      <4>1. ASSUME NEW l \in 1 .. n, journal'[l].whole
            PROVE  journal'[l].of = Planned(journal'[l].update) /\ journal'[l].session <= session
        <5>1. l \in 1 .. n - 1
          BY <4>1, <3>1, <3>2
        <5> QED
          BY <5>1, <3>2, <3>3 DEF HInv, RowsPlanned
      <4> QED
        BY <4>1, <2>0, <3>2 DEF RowsPlanned
    <3>6. ASSUME NEW u, Told(u) PROVE Told(u)'
      <4>1. RowsOf(u)' = RowsOf(u)
        BY <3>1, <3>2 DEF RowsOf
      <4> QED
        BY <3>6, <4>1, ToldStays
    <3> QED
      BY <3>4, <3>5, <3>6, <2>1, <2>2, Zenon DEF HInv
  <2> QED
    BY <2>0, <2>3, <2>4, <2>5
<1> QED
  BY <1>1, <1>2 DEF Broken

LEMMA JobStepKeeps == IInv /\ HInv /\ [JobNext]_jobVars => HInv'
<1> SUFFICES ASSUME IInv, HInv, [JobNext]_jobVars PROVE HInv'
  OBVIOUS
<1>t. TypeOK
  BY DEF IInv
<1>1. ASSUME NEW c, c \in saved \/ c = Fresh, Started(c) PROVE HInv'
  BY <1>1, <1>t, SilentKeeps DEF Started
<1>2. CASE PrepareExamples \/ OtherTrainers
  BY <1>2, <1>t, SilentKeeps DEF PrepareExamples, OtherTrainers, Quiet
<1>3. CASE TrainingBegins
  BY <1>3, OpenKeeps
<1>4. CASE TrainExample
  BY <1>4, <1>t, SilentKeeps DEF TrainExample, Quiet
<1>5. CASE UpdateTold
  BY <1>5, UpdateToldKeeps
<1>6. CASE Broken
  BY <1>6, BrokenTellKeeps
<1>7. CASE Alone(CancelEarly \/ BeginEpoch \/ CancelBatch \/ AfterUpdate \/ EndEpoch)
  BY <1>7, <1>t, SilentKeeps DEF Alone, Quiet
<1>8. CASE Alone(Finish \/ PublishFinal \/ End \/ RequestCancel \/ ClearCancel)
  BY <1>8, <1>t, SilentKeeps DEF Alone, Quiet
<1>9. CASE UNCHANGED jobVars
  BY <1>9, <1>t, SilentKeeps DEF jobVars, Quiet
<1> QED
  BY <1>1, <1>2, <1>3, <1>4, <1>5, <1>6, <1>7, <1>8, <1>9 DEF JobNext

LEMMA JobInitTold == JobInit => HInv
<1> SUFFICES ASSUME JobInit PROVE HInv
  OBVIOUS
<1>1. /\ pc = "down" /\ saved = {} /\ journal = <<>> /\ session = 0 /\ start = 0
  BY DEF JobInit, Init, HistoryInit
<1>2. JournalOK /\ RowsPlanned /\ AllTold /\ SessionTold
  BY <1>1 DEF JournalOK, RowsPlanned, AllTold, SessionTold, Training
<1> QED
  BY <1>2 DEF HInv

LEMMA ToldIsTrue == IInv /\ HInv => RecordsTrue
<1> SUFFICES ASSUME IInv, HInv PROVE RecordsTrue
  OBVIOUS
<1>1. ReportTruth
  BY DEF IInv
<1>2. ASSUME Training PROVE {journal[l].update : l \in RowsHere} = start + 1 .. Step
  BY <1>2 DEF HInv, SessionTold
<1>3. ASSUME Training, NEW l \in RowsHere, NEW m \in RowsHere, l < m
      PROVE  journal[l].update < journal[m].update
  BY <1>3 DEF HInv, SessionTold
<1>4. ASSUME Training, NEW u \in 1 .. Step
      PROVE  \E l \in RowsOf(u) : journal[l].of = weights[u] /\ \A m \in RowsOf(u) : m <= l
  <2>1. pc # "down"
    BY <1>4 DEF Training
  <2>2. PICK l \in RowsOf(u) : \A m \in RowsOf(u) : m <= l
    BY <2>1 DEF HInv, AllTold, Told
  <2>3. journal[l].of = Planned(u)
    BY <2>2 DEF RowsOf, HInv, RowsPlanned
  <2>4. weights[u] = Planned(u)
    BY DEF IInv, OnPlan, Step
  <2> QED
    BY <2>2, <2>3, <2>4
<1> QED
  BY <1>1, <1>2, <1>3, <1>4 DEF RecordsTrue

\* However often runs were killed in the middle of a row, or went back behind
\* rows already written: the progress file claims nothing that is not there,
\* and the journal tells every update that made the weights, by the last row
\* that names it, as what it was made of.
THEOREM JobRecords == JobSpec => []RecordsTrue
<1>1. JobInit => HInv
  BY JobInitTold
<1>2. IInv /\ HInv /\ [JobNext]_jobVars => HInv'
  BY JobStepKeeps
<1>3. IInv /\ HInv => RecordsTrue
  BY ToldIsTrue
<1> QED
  BY <1>1, <1>2, <1>3, TrainJobInvariant, PTL DEF JobSpec

-----------------------------------------------------------------------------
(* The preprocess cache.                                                     *)

LEMMA LeastNatural ==
  ASSUME NEW T \in SUBSET Nat, T # {}
  PROVE  \E x \in T : \A y \in T : x <= y
<1>1. \E x \in T : \A y \in T : ~(<<y, x>> \in OpToRel(<, Nat))
  BY WFMin, NatLessThanWellFounded
<1>2. \A x, y \in Nat : <<y, x>> \in OpToRel(<, Nat) <=> y < x
  BY SMT DEF OpToRel
<1>3. ASSUME NEW x \in T, NEW y \in T, ~(<<y, x>> \in OpToRel(<, Nat)) PROVE ~(y < x)
  BY <1>2, <1>3, Zenon
<1>4. PICK x \in T : \A y \in T : ~(y < x)
  BY <1>1, <1>3, Zenon
<1>5. \A y \in T : x <= y
  BY <1>4
<1> QED
  BY <1>5

LEMMA MaxOfBounded ==
  ASSUME NEW S \in SUBSET Nat, S # {}, NEW b \in Nat, \A x \in S : x <= b
  PROVE  Max(S) \in S /\ \A y \in S : y <= Max(S)
<1> DEFINE U == {u \in Nat : \A x \in S : x <= u}
<1>1. PICK u \in U : \A v \in U : u <= v
  <2>1. U \in SUBSET Nat /\ U # {}
    OBVIOUS
  <2> HIDE DEF U
  <2> QED
    BY <2>1, LeastNatural
<1>2. u \in S
  <2> SUFFICES ASSUME u \notin S PROVE FALSE
    OBVIOUS
  <2>1. \A x \in S : x < u
    OBVIOUS
  <2>2. u - 1 \in U
    <3>1. u \in Nat
      OBVIOUS
    <3>2. u - 1 \in Nat
      <4>1. PICK x \in S : TRUE
        OBVIOUS
      <4>2. x \in Nat /\ x < u
        BY <2>1
      <4> QED
        BY <3>1, <4>2
    <3>3. \A x \in S : x <= u - 1
      BY <2>1, <3>1
    <3> QED
      BY <3>2, <3>3
  <2> QED
    BY <2>2, <1>1
<1>3. \E x \in S : \A y \in S : x >= y
  BY <1>2
<1> QED
  BY <1>3 DEF Max

\* The longest conditioning of the dataset.
LEMMA LongestExists ==
  LET M == Max({Length[j] : j \in Examples})
  IN  /\ M \in Nat
      /\ \A j \in Examples : Length[j] \in Nat \ {0} /\ Length[j] <= M
      /\ \E j \in Examples : Length[j] = M
<1>0. N \in Nat \ {0} /\ \A j \in Examples : Length[j] \in Nat \ {0}
  BY CacheAssumption
<1> DEFINE Bounded(n) == \E b \in Nat : \A j \in Examples : j < n => Length[j] <= b
           T == {n \in Nat : ~Bounded(n)}
<1>1. Bounded(0)
  BY <1>0 DEF Examples
<1>2. ASSUME NEW n \in Nat, Bounded(n) PROVE Bounded(n + 1)
  <2>1. PICK b \in Nat : \A j \in Examples : j < n => Length[j] <= b
    BY <1>2
  <2>2. CASE n \in Examples
    <3> DEFINE c == b + Length[n]
    <3>1. c \in Nat /\ \A j \in Examples : j < n + 1 => Length[j] <= c
      BY <2>1, <2>2, <1>0 DEF Examples
    <3> QED
      BY <3>1
  <2>3. CASE n \notin Examples
    <3>1. \A j \in Examples : j < n + 1 => j < n
      BY <2>3 DEF Examples
    <3> QED
      BY <2>1, <3>1
  <2> QED
    BY <2>2, <2>3
<1>3. Bounded(N)
  <2> HIDE DEF Bounded
  <2> SUFFICES ASSUME T # {} PROVE FALSE
    BY <1>0
  <2>1. PICK n \in T : \A m \in T : n <= m
    BY LeastNatural
  <2>2. n # 0
    BY <1>1
  <2>3. n - 1 \in Nat /\ n - 1 \notin T
    BY <2>1, <2>2
  <2>4. Bounded((n - 1) + 1)
    BY <2>3, <1>2
  <2> QED
    BY <2>1, <2>4
<1>4. PICK b \in Nat : \A j \in Examples : Length[j] <= b
  BY <1>0, <1>3 DEF Examples
<1> DEFINE S == {Length[j] : j \in Examples}
<1>5. S \in SUBSET Nat /\ S # {} /\ \A x \in S : x <= b
  BY <1>0, <1>4 DEF Examples
<1>6. Max(S) \in S /\ \A y \in S : y <= Max(S)
  <2> HIDE DEF S
  <2> QED
    BY <1>5, MaxOfBounded
<1> QED
  BY <1>0, <1>5, <1>6

-----------------------------------------------------------------------------
LEMMA ExampleFacts ==
  /\ N \in Nat \ {0} /\ ChunkSize \in Nat \ {0} /\ Seed \in Nat
  /\ \A i \in Examples :
        /\ i \in Nat /\ i < N
        /\ First(i) \in Nat /\ First(i) <= i
        /\ i < Until(i) /\ Until(i) \in 0 .. N
<1>0. N \in Nat \ {0} /\ ChunkSize \in Nat \ {0} /\ Seed \in Nat
  BY CacheAssumption
<1>1. ASSUME NEW i \in Examples
      PROVE  /\ i \in Nat /\ i < N
             /\ First(i) \in Nat /\ First(i) <= i
             /\ i < Until(i) /\ Until(i) \in 0 .. N
  <2> DEFINE q == i \div ChunkSize
             r == i % ChunkSize
  <2>1. i \in Nat /\ i < N
    BY <1>0 DEF Examples
  <2>2. q \in Int /\ r \in 0 .. ChunkSize - 1 /\ i = ChunkSize * q + r
    BY <1>0, <2>1
  <2>3. First(i) = q * ChunkSize
    BY DEF First
  <2> HIDE DEF q, r
  <2>4. q >= 0
    <3> SUFFICES ASSUME q <= -1 PROVE FALSE
      BY <2>2
    <3>1. ChunkSize * q <= ChunkSize * (-1)
      BY <1>0, <2>2
    <3>2. ChunkSize * (-1) = -ChunkSize
      BY <1>0
    <3> QED
      BY <3>1, <3>2, <1>0, <2>1, <2>2
  <2>5. q * ChunkSize = ChunkSize * q /\ q * ChunkSize \in Nat
    BY <1>0, <2>2, <2>4
  <2>6. First(i) \in Nat /\ First(i) <= i /\ i < First(i) + ChunkSize
    BY <1>0, <2>2, <2>3, <2>5
  <2> QED
    BY <1>0, <2>1, <2>6 DEF Until
<1> QED
  BY <1>0, <1>1

\* A file that is taken is the one that was made of the example.
LEMMA ReadableIsMade ==
  ASSUME NEW i \in Examples, Raw(i) \in EntriesAt(Name[i]), Readable(i)
  PROVE  Raw(i) = Made(i)
<1>1. i \in Nat
  BY ExampleFacts
<1>2. Raw(i).whole /\ Raw(i).identity = Identity(i)
  BY DEF Readable
<1>3. Raw(i) # NoEntry
  BY <1>2 DEF NoEntry
<1>4. Raw(i) # OfOther
  <2>1. OfOther.identity.source = -1
    BY DEF OfOther
  <2>2. Identity(i).source = i
    BY DEF Identity
  <2> QED
    BY <2>1, <2>2, <1>1, <1>2
<1>5. PICK j \in Examples : Raw(i) = Made(j)
  BY <1>3, <1>4 DEF EntriesAt
<1>6. Made(j).identity = Identity(j)
  BY DEF Made
<1>7. Identity(j).source = j /\ Identity(i).source = i
  BY DEF Identity
<1> QED
  BY <1>2, <1>5, <1>6, <1>7

Directory == /\ files = [n \in Names |-> files[n]]
             /\ \A i \in Examples : Raw(i) \in EntriesAt(Name[i])

\* What has been prepared has been observed, and only what is there.
Observed ==
    /\ next \in 0 .. N /\ missed \in BOOLEAN /\ (missed => next < N)
    /\ longest \in Nat
    /\ \E j \in Examples : longest <= Length[j]
    /\ \A j \in Examples : j < next => Length[j] <= longest

InMemory ==
    /\ lru \in Seq({Uncached(i) : i \in Examples})
    /\ pc = "prepare" => lru = <<>>
    /\ Training => next = N

CInv == Directory /\ Observed /\ InMemory

LEMMA DiskIsUncached ==
  ASSUME CInv, next = N, NEW i \in Examples, Readable(i)
  PROVE  FromDisk(i) = Uncached(i)
<1>0. Raw(i) = Made(i)
  BY ReadableIsMade DEF CInv, Directory
<1> DEFINE M == Max({Length[j] : j \in Examples})
<1>1. longest = M
  <2>1. /\ M \in Nat
        /\ \A j \in Examples : Length[j] \in Nat \ {0} /\ Length[j] <= M
        /\ \E j \in Examples : Length[j] = M
    BY LongestExists
  <2> HIDE DEF M
  <2>2. M <= longest
    BY <2>1, ExampleFacts DEF CInv, Observed
  <2>3. longest <= M /\ longest \in Nat
    BY <2>1 DEF CInv, Observed
  <2> QED
    BY <2>1, <2>2, <2>3
<1>2. (Seed + First(i)) + (i - First(i)) = Seed + i
  BY ExampleFacts
<1>3. /\ Raw(i).identity = Identity(i) /\ Raw(i).seed = Seed + i /\ Raw(i).frames = Frames[i]
  BY <1>0, <1>2 DEF Made
<1> QED
  BY <1>1, <1>3 DEF FromDisk, Uncached

LEMMA SlotIsIndex ==
  ASSUME NEW i, Kept(i)
  PROVE  Slot(i) \in DOMAIN lru /\ lru[Slot(i)].index = i
BY DEF Kept, Slot

LEMMA CacheImplies == CInv => ExamplesOwn
<1> SUFFICES ASSUME CInv, next = N, NEW i \in Examples, Kept(i) \/ Readable(i)
             PROVE  Given(i) = Uncached(i)
  BY DEF ExamplesOwn
<1>1. CASE Kept(i)
  <2>1. Slot(i) \in DOMAIN lru /\ lru[Slot(i)].index = i /\ Given(i) = lru[Slot(i)]
    BY <1>1, SlotIsIndex DEF Given
  <2>2. lru[Slot(i)] \in {Uncached(j) : j \in Examples}
    BY <2>1 DEF CInv, InMemory
  <2>3. PICK j \in Examples : lru[Slot(i)] = Uncached(j)
    BY <2>2
  <2>4. Uncached(j).index = j
    BY DEF Uncached
  <2> QED
    BY <2>1, <2>3, <2>4
<1>2. CASE ~Kept(i)
  BY <1>2, DiskIsUncached DEF Given
<1> QED
  BY <1>1, <1>2

LEMMA CacheInitKeeps == JobInit => CInv
<1> SUFFICES ASSUME JobInit PROVE CInv
  OBVIOUS
<1>0. /\ pc = "down" /\ next = 0 /\ missed = FALSE /\ longest = 0 /\ lru = <<>>
  BY DEF JobInit, Init, CacheInit
<1>1. Directory
  <2>1. /\ files \in [Names -> UNION {EntriesAt(n) : n \in Names}]
        /\ \A n \in Names : files[n] \in EntriesAt(n)
    BY DEF JobInit, CacheInit
  <2>2. ASSUME NEW i \in Examples PROVE Raw(i) \in EntriesAt(Name[i])
    BY <2>1 DEF Raw, Names
  <2>3. files = [n \in Names |-> files[n]]
    <3> DEFINE Entries == UNION {EntriesAt(n) : n \in Names}
    <3>1. files \in [Names -> Entries]
      BY <2>1
    <3> HIDE DEF Entries
    <3> QED
      BY <3>1
  <2> QED
    BY <2>2, <2>3 DEF Directory
<1>2. Observed
  <2>1. N \in Nat \ {0} /\ 0 \in Examples /\ Length[0] \in Nat \ {0}
    BY CacheAssumption DEF Examples
  <2>2. \A j \in Examples : ~(j < 0)
    BY ExampleFacts
  <2>3. next \in 0 .. N /\ longest \in Nat
    BY <1>0, <2>1
  <2>m. missed \in BOOLEAN /\ ~missed
    BY <1>0, Zenon
  <2>4. longest <= Length[0]
    BY <1>0, <2>1
  <2>5. \A j \in Examples : ~(j < next)
    BY <1>0, <2>2, Zenon
  <2>6. next \in 0 .. N /\ missed \in BOOLEAN /\ (missed => next < N)
    BY <2>3, <2>m, Zenon
  <2>7. longest \in Nat /\ \E j \in Examples : longest <= Length[j]
    BY <2>1, <2>3, <2>4
  <2>8. \A j \in Examples : j < next => Length[j] <= longest
    BY <2>5
  <2> QED
    BY <2>6, <2>7, <2>8 DEF Observed
<1>3. InMemory
  BY <1>0 DEF InMemory, Training
<1> QED
  BY <1>1, <1>2, <1>3 DEF CInv

\* The cache is not touched.
LEMMA CacheUntouched ==
  ASSUME CInv, UNCHANGED cacheVars,
         pc' = "prepare" => pc = "prepare",
         Training' => Training \/ next = N
  PROVE  CInv'
<1>0. /\ files' = files /\ next' = next /\ missed' = missed /\ longest' = longest /\ lru' = lru
  BY DEF cacheVars
<1>1. Directory'
  BY <1>0 DEF CInv, Directory, Raw
<1>2. Observed'
  BY <1>0 DEF CInv, Observed
<1>3. InMemory'
  BY <1>0 DEF CInv, InMemory
<1> QED
  BY <1>1, <1>2, <1>3 DEF CInv

\* Others change files, to what can be under their names.
LEMMA OthersKeep == CInv /\ OtherTrainers => CInv'
<1> SUFFICES ASSUME CInv, OtherTrainers PROVE CInv'
  OBVIOUS
<1>0. /\ pc' = pc /\ next' = next /\ missed' = missed /\ longest' = longest /\ lru' = lru
  BY DEF OtherTrainers, Others, vars
<1>1. PICK n \in Names : \E entry \in EntriesAt(n) : files' = [files EXCEPT ![n] = entry]
  BY DEF OtherTrainers, Others
<1>e. PICK entry \in EntriesAt(n) : files' = [files EXCEPT ![n] = entry]
  BY <1>1
<1>2. Directory'
  <2>1. files = [m \in Names |-> files[m]]
    BY DEF CInv, Directory
  <2>2. files' = [m \in Names |-> IF m = n THEN entry ELSE files[m]]
    BY <1>e, <2>1
  <2>3. ASSUME NEW i \in Examples PROVE Raw(i)' \in EntriesAt(Name[i])
    <3>1. Name[i] \in Names /\ Raw(i) \in EntriesAt(Name[i])
      BY DEF CInv, Directory, Names
    <3>2. files'[Name[i]] = IF Name[i] = n THEN entry ELSE files[Name[i]]
      BY <2>2, <3>1
    <3>3. files'[Name[i]] \in EntriesAt(Name[i])
      BY <1>e, <3>1, <3>2 DEF Raw
    <3> QED
      BY <3>3 DEF Raw
  <2>4. files' = [m \in Names |-> files'[m]]
    BY <2>2
  <2> QED
    BY <2>3, <2>4 DEF Directory
<1>3. Observed'
  BY <1>0 DEF CInv, Observed
<1>4. InMemory'
  BY <1>0 DEF CInv, InMemory, Training
<1> QED
  BY <1>2, <1>3, <1>4 DEF CInv

\* A run that starts forgets what another had in memory.
LEMMA BeginKeeps ==
  ASSUME CInv, NEW c, Started(c)
  PROVE  CInv'
<1>0. /\ pc' = "prepare" /\ files' = files
      /\ next' = 0 /\ missed' = FALSE /\ longest' = 0 /\ lru' = <<>>
  BY DEF Started, Launch, BeginPrepare
<1>1. Directory'
  BY <1>0 DEF CInv, Directory, Raw
<1>2. Observed'
  <2>1. N \in Nat \ {0} /\ 0 \in Examples /\ Length[0] \in Nat \ {0}
    BY CacheAssumption DEF Examples
  <2>2. \A j \in Examples : ~(j < 0)
    BY ExampleFacts
  <2>3. next' \in 0 .. N /\ longest' \in Nat
    BY <1>0, <2>1
  <2>m. missed' \in BOOLEAN /\ ~missed'
    BY <1>0, Zenon
  <2>4. longest' <= Length[0]
    BY <1>0, <2>1
  <2>5. \A j \in Examples : ~(j < next')
    BY <1>0, <2>2, Zenon
  <2> QED
    BY <2>1, <2>3, <2>m, <2>4, <2>5, Zenon DEF Observed
<1>3. InMemory'
  BY <1>0 DEF InMemory, Training
<1> QED
  BY <1>1, <1>2, <1>3 DEF CInv

\* Observing lengths of the dataset is exact.
LEMMA ObserveIsMax ==
  ASSUME Observed, NEW S, S \subseteq {Length[j] : j \in Examples}, Observe(S)
  PROVE  /\ longest' \in Nat
         /\ \E j \in Examples : longest' <= Length[j]
         /\ longest <= longest'
         /\ \A x \in S : x <= longest'
<1> DEFINE M == Max({Length[j] : j \in Examples})
           T == {longest} \cup S
<1>1. /\ M \in Nat
      /\ \A j \in Examples : Length[j] \in Nat \ {0} /\ Length[j] <= M
  BY LongestExists
<1>2. longest' = Max(T)
  BY DEF Observe
<1> HIDE DEF M
<1>3. T \in SUBSET Nat /\ T # {} /\ \A x \in T : x <= M
  <2>1. longest \in Nat /\ longest <= M
    BY <1>1 DEF Observed
  <2> QED
    BY <1>1, <2>1
<1>4. longest \in T /\ \A x \in S : x \in T
  OBVIOUS
<1>5. \A x \in T : \E j \in Examples : x <= Length[j]
  <2>1. ASSUME NEW x \in S PROVE \E j \in Examples : x <= Length[j]
    <3>1. PICK j \in Examples : x = Length[j]
      OBVIOUS
    <3> QED
      BY <3>1, <1>1
  <2> QED
    BY <2>1 DEF Observed
<1> HIDE DEF T
<1>6. longest' \in T /\ \A y \in T : y <= longest'
  BY <1>1, <1>2, <1>3, MaxOfBounded
<1> QED
  BY <1>3, <1>4, <1>5, <1>6

\* A chunk is looked up.
LEMMA LookUpKeeps == CInv /\ PrepareExamples /\ LookUp => CInv'
<1> SUFFICES ASSUME CInv, PrepareExamples, LookUp PROVE CInv'
  OBVIOUS
<1>0. /\ pc = "prepare" /\ pc' = pc /\ files' = files /\ lru' = lru /\ next < N
      /\ lru = <<>>
  BY DEF PrepareExamples, LookUp, vars, CInv, InMemory
<1> DEFINE S == {Raw(i).length : i \in {j \in Chunk(next) : Readable(j)}}
<1>1. next \in Examples /\ next \in Nat
  BY <1>0, CacheAssumption DEF CInv, Observed, Examples
<1>2. \A j \in Chunk(next) : j \in Examples
  BY <1>1, ExampleFacts DEF Chunk, Examples
<1>3. \A j \in Chunk(next) : Readable(j) => Raw(j).length = Length[j]
  <2> SUFFICES ASSUME NEW j \in Chunk(next), Readable(j) PROVE Raw(j).length = Length[j]
    OBVIOUS
  <2>1. Raw(j) = Made(j)
    BY <1>2, ReadableIsMade DEF CInv, Directory
  <2> QED
    BY <2>1 DEF Made
<1>4. S \subseteq {Length[j] : j \in Examples}
  BY <1>2, <1>3
<1>5. Observe(S)
  BY DEF LookUp
<1>6. \A j \in Chunk(next) : Readable(j) => Length[j] \in S
  BY <1>3
<1> HIDE DEF S
<1>7. /\ longest' \in Nat
      /\ \E j \in Examples : longest' <= Length[j]
      /\ longest <= longest'
      /\ \A x \in S : x <= longest'
  BY <1>4, <1>5, ObserveIsMax DEF CInv
<1>8. ASSUME NEW j \in Examples, j < next PROVE Length[j] <= longest'
  <2>1. Length[j] <= longest /\ Length[j] \in Nat /\ longest \in Nat
    BY <1>8, CacheAssumption DEF CInv, Observed
  <2> QED
    BY <2>1, <1>7
<1>9. Observed'
  <2>1. CASE \A i \in Chunk(next) : Readable(i)
    <3>1. next' = Until(next) /\ missed' = missed /\ ~missed
      BY <2>1 DEF LookUp
    <3>2. ASSUME NEW j \in Examples, j < next' PROVE Length[j] <= longest'
      <4>1. CASE j < next
        BY <4>1, <1>8
      <4>2. CASE ~(j < next)
        <5>1. j \in Chunk(next)
          BY <4>2, <3>1, <3>2, <1>1, ExampleFacts DEF Chunk
        <5> QED
          BY <5>1, <2>1, <1>6, <1>7
      <4> QED
        BY <4>1, <4>2
    <3>3. next' \in 0 .. N
      BY <3>1, <1>1, ExampleFacts
    <3>4. missed' \in BOOLEAN /\ ~missed'
      <4>1. missed \in BOOLEAN
        BY DEF CInv, Observed
      <4> QED
        BY <4>1, <3>1, Zenon
    <3> QED
      BY <3>2, <3>3, <3>4, <1>7, Zenon DEF Observed
  <2>2. CASE ~(\A i \in Chunk(next) : Readable(i))
    <3>1. next' = next /\ missed' = TRUE
      BY <2>2 DEF LookUp
    <3> QED
      BY <3>1, <1>0, <1>7, <1>8 DEF CInv, Observed
  <2> QED
    BY <2>1, <2>2
<1>10. Directory' /\ InMemory'
  BY <1>0 DEF CInv, Directory, Raw, InMemory, Training
<1> QED
  BY <1>9, <1>10 DEF CInv

\* An example is made and published.
LEMMA WriteKeeps == CInv /\ PrepareExamples /\ Write => CInv'
<1> SUFFICES ASSUME CInv, PrepareExamples, Write PROVE CInv'
  OBVIOUS
<1>0. /\ pc = "prepare" /\ pc' = pc /\ lru = <<>> /\ missed /\ next < N
      /\ files' = [files EXCEPT ![Name[next]] = Made(next)]
      /\ next' = next + 1 /\ Observe({Length[next]})
  BY DEF PrepareExamples, Write, vars, CInv, InMemory, Observed
<1>1. next \in Examples /\ next \in Nat
  BY <1>0, CacheAssumption DEF CInv, Observed, Examples
<1>2. lru' = <<>>
  <2>1. ~Kept(next)
    BY <1>0 DEF Kept
  <2> QED
    BY <2>1, <1>0 DEF Write
<1>3. missed' \in BOOLEAN /\ (missed' => next + 1 < N)
  <2>1. (next + 1 \in Chunk(next)) \in BOOLEAN
    OBVIOUS
  <2>2. next + 1 \in Chunk(next) => next + 1 < N
    BY <1>1, ExampleFacts DEF Chunk
  <2>3. missed' = (next + 1 \in Chunk(next))
    BY DEF Write
  <2> QED
    BY <2>1, <2>2, <2>3, Zenon
<1>4. /\ longest' \in Nat
      /\ \E j \in Examples : longest' <= Length[j]
      /\ longest <= longest'
      /\ Length[next] <= longest'
  <2>1. {Length[next]} \subseteq {Length[j] : j \in Examples}
    BY <1>1
  <2> QED
    BY <2>1, <1>0, ObserveIsMax DEF CInv
<1>5. ASSUME NEW j \in Examples, j < next' PROVE Length[j] <= longest'
  <2>1. CASE j = next
    BY <2>1, <1>4
  <2>2. CASE j < next
    <3>1. Length[j] <= longest /\ Length[j] \in Nat /\ longest \in Nat
      BY <2>2, CacheAssumption DEF CInv, Observed
    <3> QED
      BY <3>1, <1>4
  <2> QED
    BY <2>1, <2>2, <1>0, <1>1, <1>5, ExampleFacts
<1>6. Observed'
  BY <1>0, <1>1, <1>3, <1>4, <1>5, CacheAssumption DEF Observed
<1>7. Directory'
  <2>1. files = [m \in Names |-> files[m]] /\ Name[next] \in Names
    BY <1>1 DEF CInv, Directory, Names
  <2>2. files' = [m \in Names |-> IF m = Name[next] THEN Made(next) ELSE files[m]]
    BY <1>0, <2>1
  <2>3. ASSUME NEW i \in Examples PROVE Raw(i)' \in EntriesAt(Name[i])
    <3>1. Name[i] \in Names /\ Raw(i) \in EntriesAt(Name[i])
      BY DEF CInv, Directory, Names
    <3>2. files'[Name[i]] = IF Name[i] = Name[next] THEN Made(next) ELSE files[Name[i]]
      BY <2>2, <3>1
    <3>3. Name[i] = Name[next] => Made(next) \in EntriesAt(Name[i])
      BY <1>1 DEF EntriesAt
    <3>4. files'[Name[i]] \in EntriesAt(Name[i])
      BY <3>1, <3>2, <3>3 DEF Raw
    <3> QED
      BY <3>4 DEF Raw
  <2>4. files' = [m \in Names |-> files'[m]]
    BY <2>2
  <2> QED
    BY <2>3, <2>4 DEF Directory
<1>8. InMemory'
  BY <1>0, <1>2 DEF InMemory, Training
<1> QED
  BY <1>6, <1>7, <1>8 DEF CInv

LEMMA OthersStay ==
  ASSUME NEW S, NEW s \in Seq(S), NEW k \in DOMAIN s
  PROVE  RemoveAt(s, k) \in Seq(S)
<1>1. k \in 1 .. Len(s) /\ Len(s) \in Nat
  OBVIOUS
<1>2. SubSeq(s, 1, k - 1) \in Seq(S) /\ SubSeq(s, k + 1, Len(s)) \in Seq(S)
  BY <1>1
<1> QED
  BY <1>2 DEF RemoveAt

LEMMA ExampleExists == IInv /\ pc = "batch" => Example \in Examples
<1> SUFFICES ASSUME IInv, pc = "batch" PROVE Example \in Examples
  OBVIOUS
<1>1. epoch < Epochs /\ cursor.order = epoch /\ TypeOK
  BY DEF IInv, Placed, Accumulating
<1>2. cursor.order \in 0 .. Epochs - 1 /\ cursor.next + 1 \in 1 .. Batches
  BY <1>1, Counted
<1> QED
  BY <1>2, ShuffledAssumption DEF Example

\* An example is given to the training, from memory or from the disk.
LEMMA GetKeeps == IInv /\ CInv /\ TrainExample => CInv'
<1> SUFFICES ASSUME IInv, CInv, TrainExample PROVE CInv'
  OBVIOUS
<1> DEFINE i == Example
           S == {Uncached(j) : j \in Examples}
<1>0. /\ pc = "batch" /\ pc' \in {"update", "batch"} /\ next = N
      /\ files' = files /\ next' = next /\ missed' = missed /\ longest' = longest
      /\ Get(i)
  BY DEF TrainExample, MicroBatch, Get, CInv, InMemory, Training
<1>1. i \in Examples
  BY <1>0, ExampleExists
<1>2. lru \in Seq(S) /\ Len(lru) \in Nat /\ DOMAIN lru = 1 .. Len(lru)
  BY DEF CInv, InMemory
<1> HIDE DEF i
<1>3. lru' \in Seq(S)
  <2>1. CASE Kept(i)
    <3> DEFINE k == Slot(i)
    <3>1. k \in DOMAIN lru /\ lru' = <<lru[k]>> \o RemoveAt(lru, k)
      BY <1>0, <2>1, SlotIsIndex DEF Get
    <3> HIDE DEF k, S
    <3>2. RemoveAt(lru, k) \in Seq(S) /\ <<lru[k]>> \in Seq(S)
      BY <1>2, <3>1, OthersStay
    <3> QED
      BY <3>1, <3>2
  <2>2. CASE ~Kept(i)
    <3> DEFINE bytes == Bytes(FromDisk(i))
               spared == Spared(bytes)
               new == IF bytes <= MemoryLimit THEN <<FromDisk(i)>> ELSE <<>>
               T == {0} \cup {k \in DOMAIN lru :
                                /\ bytes <= MemoryLimit
                                /\ resident - Total(SubSeq(lru, k + 1, Len(lru)))
                                     <= MemoryLimit - bytes}
    <3>1. Readable(i) /\ lru' = new \o SubSeq(lru, 1, spared)
      BY <1>0, <2>2, Zenon DEF Get
    <3>2. FromDisk(i) \in S
      BY <1>0, <1>1, <3>1, DiskIsUncached
    <3>3. new \in Seq(S)
      <4> HIDE DEF S
      <4> QED
        BY <3>2
    <3>4. spared = Max(T)
      BY Zenon DEF Spared
    <3>5. T \in SUBSET Nat /\ T # {} /\ \A x \in T : x <= Len(lru)
      <4> HIDE DEF S
      <4> QED
        BY <1>2
    <3>6. spared \in 0 .. Len(lru)
      <4> HIDE DEF T, spared
      <4>1. spared \in T
        BY <3>4, <3>5, <1>2, MaxOfBounded
      <4> QED
        BY <4>1, <3>5, <1>2
    <3> HIDE DEF spared, new, S
    <3>7. SubSeq(lru, 1, spared) \in Seq(S)
      BY <1>2, <3>6
    <3> QED
      BY <3>1, <3>3, <3>7
  <2> QED
    BY <2>1, <2>2
<1>4. Directory'
  BY <1>0 DEF CInv, Directory, Raw
<1>5. Observed'
  BY <1>0 DEF CInv, Observed
<1>6. InMemory'
  <2>1. {Uncached(j) : j \in Examples}' = S
    BY DEF Uncached, Identity
  <2>2. pc' # "prepare" /\ next' = N
    BY <1>0
  <2> QED
    BY <1>3, <2>1, <2>2 DEF InMemory
<1> QED
  BY <1>4, <1>5, <1>6 DEF CInv

LEMMA CacheStepKeeps == IInv /\ CInv /\ [JobNext]_jobVars => CInv'
<1> SUFFICES ASSUME IInv, CInv, [JobNext]_jobVars PROVE CInv'
  OBVIOUS
<1>1. ASSUME NEW c, Started(c) PROVE CInv'
  BY <1>1, BeginKeeps
<1>2. CASE PrepareExamples
  BY <1>2, LookUpKeeps, WriteKeeps DEF PrepareExamples, Prepare
<1>3. CASE TrainingBegins
  <2>1. next = N /\ pc' = "epoch" /\ UNCHANGED cacheVars
    BY <1>3 DEF TrainingBegins, Prepared
  <2> QED
    BY <2>1, CacheUntouched
<1>4. CASE TrainExample
  BY <1>4, GetKeeps
<1>5. CASE UpdateTold
  <2>1. UNCHANGED cacheVars /\ pc = "update" /\ pc' = "updated"
    BY <1>5 DEF UpdateTold, Update
  <2> QED
    BY <2>1, CacheUntouched DEF Training
<1>6. CASE Broken
  <2>1. UNCHANGED cacheVars /\ pc' = "down"
    BY <1>6 DEF Broken, Kill, Fail
  <2> QED
    BY <2>1, CacheUntouched DEF Training
<1>7. CASE OtherTrainers
  BY <1>7, OthersKeep
<1>8. CASE Alone(CancelEarly \/ BeginEpoch \/ CancelBatch \/ AfterUpdate \/ EndEpoch)
  <2>1. UNCHANGED cacheVars
    BY <1>8 DEF Alone
  <2>2. (pc' = "prepare" => pc = "prepare") /\ (Training' => Training)
    BY <1>8 DEF Alone, CancelEarly, BeginEpoch, CancelBatch, AfterUpdate, EndEpoch, Training
  <2> QED
    BY <2>1, <2>2, CacheUntouched
<1>9. CASE Alone(Finish \/ PublishFinal \/ End \/ RequestCancel \/ ClearCancel)
  <2>1. UNCHANGED cacheVars
    BY <1>9 DEF Alone
  <2>2. (pc' = "prepare" => pc = "prepare") /\ (Training' => Training)
    BY <1>9 DEF Alone, Finish, PublishFinal, End, RequestCancel, ClearCancel, Training
  <2> QED
    BY <2>1, <2>2, CacheUntouched
<1>10. CASE UNCHANGED jobVars
  <2>1. UNCHANGED cacheVars /\ pc' = pc
    BY <1>10 DEF jobVars, vars
  <2> QED
    BY <2>1, CacheUntouched DEF Training
<1> QED
  BY <1>1, <1>2, <1>3, <1>4, <1>5, <1>6, <1>7, <1>8, <1>9, <1>10 DEF JobNext

\* Whatever the directory held and whatever others do to it, an example that the
\* training is given is the one that a run without a cache prepares
\* (src/train-preprocess-cache.h:89-171, 252-298, tools/ace-train.cpp:707-749).
THEOREM JobExamples == JobSpec => []ExamplesOwn
<1>1. JobInit => CInv
  BY CacheInitKeeps
<1>2. IInv /\ CInv /\ [JobNext]_jobVars => CInv'
  BY CacheStepKeeps
<1>3. CInv => ExamplesOwn
  BY CacheImplies
<1> QED
  BY <1>1, <1>2, <1>3, TrainJobInvariant, PTL DEF JobSpec

-----------------------------------------------------------------------------
(* The bytes that are counted.                                               *)

LEMMA Induction ==
  ASSUME NEW n \in Nat, NEW T \in SUBSET (0 .. n), 0 \in T,
         \A k \in 1 .. n : k - 1 \in T => k \in T
  PROVE  T = 0 .. n
<1> DEFINE Rest == (0 .. n) \ T
<1>1. ASSUME Rest # {} PROVE FALSE
  <2>1. Rest \in SUBSET Nat
    OBVIOUS
  <2>2. PICK m \in Rest : \A y \in Rest : m <= y
    <3> HIDE DEF Rest
    <3> QED
      BY <1>1, <2>1, LeastNatural
  <2>3. m \in 1 .. n /\ m - 1 \in 0 .. n /\ ~(m <= m - 1)
    OBVIOUS
  <2>4. m - 1 \in T
    BY <2>2, <2>3
  <2> QED
    BY <2>3, <2>4
<1> QED
  BY <1>1

\* Entries that have sizes, and the bytes of the first k of them.
Weighed(s) == Len(s) \in Nat /\ \A j \in 1 .. Len(s) : Bytes(s[j]) \in Nat
Increment(f, s, k) == IF k = 0 THEN 0 ELSE f[k - 1] + Bytes(s[k])
Sums(f, s, n) == f = [k \in 0 .. n |-> Increment(f, s, k)]
SumOf(s) ==
    CHOOSE f : f = [k \in 0 .. Len(s) |-> IF k = 0 THEN 0 ELSE f[k - 1] + Bytes(s[k])]

LEMMA SumExists ==
  ASSUME NEW s, NEW n \in Nat
  PROVE  \E f : Sums(f, s, n)
<1> DEFINE T == {k \in 0 .. n : \E f : Sums(f, s, k)}
<1>1. \E f : Sums(f, s, 0)
  <2> DEFINE f == [k \in 0 .. 0 |-> 0]
  <2>1. \A k \in 0 .. 0 : Increment(f, s, k) = 0
    BY DEF Increment
  <2>2. Sums(f, s, 0)
    BY <2>1 DEF Sums
  <2> QED
    BY <2>2
<1>2. ASSUME NEW k \in 1 .. n, \E f : Sums(f, s, k - 1) PROVE \E f : Sums(f, s, k)
  <2>1. PICK g : Sums(g, s, k - 1)
    BY <1>2
  <2> DEFINE e == Increment(g, s, k)
             f == [i \in 0 .. k |-> IF i = k THEN e ELSE g[i]]
  <2>2. k \in Nat /\ k >= 1
    OBVIOUS
  <2>3. \A i \in 0 .. k - 1 : g[i] = Increment(g, s, i)
    BY <2>1 DEF Sums
  <2> HIDE DEF e
  <2>4. f[k] = e /\ \A i \in 0 .. k - 1 : f[i] = g[i]
    BY <2>2
  <2>5. f = [i \in 0 .. k |-> f[i]]
    OBVIOUS
  <2> HIDE DEF f
  <2>6. ASSUME NEW i \in 0 .. k PROVE f[i] = Increment(f, s, i)
    <3>1. CASE i = k
      <4>1. f[i - 1] = g[k - 1] /\ i # 0
        BY <3>1, <2>2, <2>4
      <4> QED
        BY <3>1, <4>1, <2>4 DEF e, Increment
    <3>2. CASE i # k
      <4>1. i \in 0 .. k - 1
        BY <3>2, <2>2
      <4>2. i # 0 => i - 1 \in 0 .. k - 1
        BY <4>1, <2>2
      <4>3. f[i] = g[i] /\ (i # 0 => f[i - 1] = g[i - 1])
        BY <4>1, <4>2, <2>4
      <4> QED
        BY <4>1, <4>3, <2>3, Zenon DEF Increment
    <3> QED
      BY <3>1, <3>2
  <2>7. Sums(f, s, k)
    BY <2>5, <2>6 DEF Sums
  <2> QED
    BY <2>7
<1>3. T \in SUBSET (0 .. n) /\ 0 \in T /\ \A k \in 1 .. n : k - 1 \in T => k \in T
  BY <1>1, <1>2
<1>4. T = 0 .. n
  <2> HIDE DEF T
  <2> QED
    BY <1>3, Induction
<1> QED
  BY <1>4

LEMMA SumIs ==
  ASSUME NEW s, Weighed(s)
  PROVE  /\ Total(s) = SumOf(s)[Len(s)]
         /\ SumOf(s)[0] = 0
         /\ \A k \in 1 .. Len(s) : SumOf(s)[k] = SumOf(s)[k - 1] + Bytes(s[k])
         /\ \A k \in 0 .. Len(s) : SumOf(s)[k] \in Nat
<1> DEFINE n == Len(s)
           f == SumOf(s)
           T == {k \in 0 .. n : f[k] \in Nat}
<1>1. Total(s) = f[n]
  BY Zenon DEF Total, SumOf
<1>2. n \in Nat /\ \A k \in 1 .. n : Bytes(s[k]) \in Nat
  BY DEF Weighed
<1>3. Sums(f, s, n)
  <2>1. f = CHOOSE g : g = [k \in 0 .. n |-> IF k = 0 THEN 0 ELSE g[k - 1] + Bytes(s[k])]
    BY Zenon DEF SumOf
  <2>2. f = CHOOSE g : Sums(g, s, n)
    BY <2>1, Zenon DEF Sums, Increment
  <2> HIDE DEF n, f
  <2> QED
    BY <1>2, <2>2, SumExists, Zenon
<1> HIDE DEF n, f
<1>4. \A k \in 0 .. n : f[k] = Increment(f, s, k)
  BY <1>3 DEF Sums
<1>5. f[0] = 0
  BY <1>2, <1>4 DEF Increment
<1>6. \A k \in 1 .. n : f[k] = f[k - 1] + Bytes(s[k])
  BY <1>2, <1>4 DEF Increment
<1>7. T \in SUBSET (0 .. n) /\ 0 \in T /\ \A k \in 1 .. n : k - 1 \in T => k \in T
  BY <1>2, <1>5, <1>6
<1>8. T = 0 .. n
  <2> HIDE DEF T
  <2> QED
    BY <1>2, <1>7, Induction
<1> QED
  BY <1>1, <1>5, <1>6, <1>8 DEF n, f

LEMMA BothGrow ==
  ASSUME NEW p \in Nat, NEW q \in Nat, NEW u \in Nat, NEW v \in Nat, NEW x \in Nat,
         p + v = q + u
  PROVE  (p + x) + v = (q + x) + u
OBVIOUS

\* Where two sequences have the same entries, they count the same bytes.
SamePart(s, a, t, b, n) ==
    /\ a + n <= Len(s) /\ b + n <= Len(t)
    /\ \A i \in 1 .. n : s[a + i] = t[b + i]

LEMMA SameBytes ==
  ASSUME NEW s, Weighed(s), NEW t, Weighed(t), NEW a \in Nat, NEW b \in Nat, NEW n \in Nat,
         SamePart(s, a, t, b, n)
  PROVE  SumOf(s)[a + n] + SumOf(t)[b] = SumOf(t)[b + n] + SumOf(s)[a]
<1> DEFINE f == SumOf(s)
           g == SumOf(t)
           l == Len(s)
           m == Len(t)
           Same(k) == f[a + k] + g[b] = g[b + k] + f[a]
           T == {k \in 0 .. n : Same(k)}
<1>1. /\ l \in Nat /\ m \in Nat /\ a + n <= l /\ b + n <= m
      /\ \A k \in 1 .. l : Bytes(s[k]) \in Nat
  BY DEF Weighed, SamePart
<1>2. /\ \A k \in 1 .. l : f[k] = f[k - 1] + Bytes(s[k])
      /\ \A k \in 0 .. l : f[k] \in Nat
      /\ \A k \in 1 .. m : g[k] = g[k - 1] + Bytes(t[k])
      /\ \A k \in 0 .. m : g[k] \in Nat
  BY SumIs
<1> HIDE DEF f, g, l, m
<1>3. Same(0)
  <2>1. a \in 0 .. l /\ b \in 0 .. m /\ a + 0 = a /\ b + 0 = b
    BY <1>1
  <2> QED
    BY <1>2, <2>1
<1>4. ASSUME NEW k \in 1 .. n, Same(k - 1) PROVE Same(k)
  <2>1. /\ a + k \in 1 .. l /\ b + k \in 1 .. m /\ a \in 0 .. l /\ b \in 0 .. m
        /\ (a + k) - 1 = a + (k - 1) /\ (b + k) - 1 = b + (k - 1)
        /\ a + (k - 1) \in 0 .. l /\ b + (k - 1) \in 0 .. m
    BY <1>1
  <2> DEFINE x == Bytes(s[a + k])
  <2>2. x \in Nat /\ x = Bytes(t[b + k])
    BY <1>1, <2>1 DEF SamePart
  <2> HIDE DEF x
  <2>3. f[a + k] = f[a + (k - 1)] + x /\ g[b + k] = g[b + (k - 1)] + x
    BY <1>2, <2>1, <2>2 DEF x
  <2>4. f[a] \in Nat /\ g[b] \in Nat /\ f[a + (k - 1)] \in Nat /\ g[b + (k - 1)] \in Nat
    BY <1>2, <2>1
  <2>5. f[a + (k - 1)] + g[b] = g[b + (k - 1)] + f[a]
    BY <1>4
  <2> DEFINE p == f[a + (k - 1)]
             q == g[b + (k - 1)]
             u == f[a]
             v == g[b]
  <2>6. p \in Nat /\ q \in Nat /\ u \in Nat /\ v \in Nat /\ p + v = q + u
    BY <2>4, <2>5
  <2>7. f[a + k] = p + x /\ g[b + k] = q + x
    BY <2>3
  <2> HIDE DEF p, q, u, v
  <2>8. (p + x) + v = (q + x) + u
    BY <2>2, <2>6, BothGrow
  <2> QED
    BY <2>7, <2>8, Zenon DEF u, v
<1> HIDE DEF Same
<1>5. T \in SUBSET (0 .. n) /\ 0 \in T /\ \A k \in 1 .. n : k - 1 \in T => k \in T
  BY <1>3, <1>4
<1>6. T = 0 .. n
  <2> HIDE DEF T
  <2> QED
    BY <1>5, Induction
<1>7. Same(n)
  BY <1>6
<1> QED
  BY <1>7 DEF Same, f, g

Sized(S) == \A e \in S : Bytes(e) \in Nat

LEMMA SizedIsWeighed ==
  ASSUME NEW S, Sized(S), NEW s \in Seq(S)
  PROVE  Weighed(s) /\ Len(s) \in Nat /\ Total(s) \in Nat
<1>1. Len(s) \in Nat /\ \A j \in 1 .. Len(s) : s[j] \in S
  OBVIOUS
<1>2. Weighed(s)
  BY <1>1 DEF Weighed, Sized
<1> DEFINE n == Len(s)
<1>3. Total(s) = SumOf(s)[n] /\ \A k \in 0 .. n : SumOf(s)[k] \in Nat
  BY <1>2, SumIs
<1>4. n \in Nat
  BY <1>1
<1> HIDE DEF n
<1>5. Total(s) \in Nat
  BY <1>3, <1>4
<1> QED
  BY <1>1, <1>2, <1>5

LEMMA PartBytes ==
  ASSUME NEW S, Sized(S), NEW s \in Seq(S), NEW k \in 0 .. Len(s), NEW n \in k .. Len(s)
  PROVE  /\ SubSeq(s, k + 1, n) \in Seq(S)
         /\ Total(SubSeq(s, k + 1, n)) = SumOf(s)[n] - SumOf(s)[k]
         /\ SumOf(s)[n] \in Nat /\ SumOf(s)[k] \in Nat
<1> DEFINE r == SubSeq(s, k + 1, n)
           d == n - k
           f == SumOf(s)
           g == SumOf(r)
<1>1. /\ r \in Seq(S) /\ Len(r) = d /\ d \in Nat
      /\ \A i \in 1 .. d : r[i] = s[k + i]
  OBVIOUS
<1>2. Weighed(s) /\ Weighed(r)
  BY <1>1, SizedIsWeighed
<1> HIDE DEF r
<1>3. SamePart(r, 0, s, k, d)
  <2>1. \A i \in 1 .. d : r[0 + i] = s[k + i]
    BY <1>1
  <2>2. 0 + d <= Len(r) /\ k + d <= Len(s)
    BY <1>1
  <2> QED
    BY <2>1, <2>2 DEF SamePart
<1>4. k \in Nat /\ 0 \in Nat /\ k + d = n /\ 0 + d = d
  OBVIOUS
<1>5. g[0 + d] + f[k] = f[k + d] + g[0]
  BY <1>1, <1>2, <1>3, <1>4, SameBytes
<1>6. g[0] = 0 /\ Total(r) = g[Len(r)]
  BY <1>2, SumIs
<1>7. f[n] \in Nat /\ f[k] \in Nat
  BY <1>2, SumIs
<1>8. Total(r) + f[k] = f[n] /\ Total(r) \in Nat
  <2>1. Total(r) \in Nat
    BY <1>1, SizedIsWeighed
  <2>2. Total(r) + f[k] = f[n] + 0
    BY <1>1, <1>4, <1>5, <1>6
  <2> HIDE DEF f
  <2> QED
    BY <1>7, <2>1, <2>2
<1> HIDE DEF f
<1>9. Total(r) = f[n] - f[k]
  BY <1>7, <1>8
<1> QED
  BY <1>1, <1>7, <1>9 DEF r, f

LEMMA JoinedBytes ==
  ASSUME NEW S, Sized(S), NEW s \in Seq(S), NEW t \in Seq(S)
  PROVE  s \o t \in Seq(S) /\ Total(s \o t) = Total(s) + Total(t)
<1> DEFINE u == s \o t
           m == Len(s)
           n == Len(t)
<1>1. /\ u \in Seq(S) /\ m \in Nat /\ n \in Nat /\ Len(u) = m + n
      /\ \A i \in 1 .. m : u[i] = s[i]
      /\ \A i \in 1 .. n : u[m + i] = t[i]
  OBVIOUS
<1>2. Weighed(s) /\ Weighed(t) /\ Weighed(u)
  BY <1>1, SizedIsWeighed
<1> HIDE DEF u, m, n
<1>3. SamePart(u, 0, s, 0, m)
  BY <1>1 DEF SamePart, m
<1>4. SamePart(u, m, t, 0, n)
  BY <1>1 DEF SamePart, n
<1> DEFINE f == SumOf(u)
           g == SumOf(s)
           h == SumOf(t)
<1>5. f[0 + m] + g[0] = g[0 + m] + f[0]
  BY <1>1, <1>2, <1>3, SameBytes
<1>6. f[m + n] + h[0] = h[0 + n] + f[m]
  BY <1>1, <1>2, <1>4, SameBytes
<1>7. /\ f[0] = 0 /\ g[0] = 0 /\ h[0] = 0
      /\ Total(u) = f[Len(u)] /\ Total(s) = g[m] /\ Total(t) = h[n]
  BY <1>2, SumIs DEF m, n
<1>8. Total(u) \in Nat /\ Total(s) \in Nat /\ Total(t) \in Nat /\ f[m] \in Nat
  <2>1. m \in 0 .. Len(u)
    BY <1>1
  <2> QED
    BY <1>1, <1>2, <2>1, SizedIsWeighed, SumIs
<1> HIDE DEF f, g, h
<1>9. 0 + m = m /\ 0 + n = n
  BY <1>1
<1>10. f[m] + 0 = Total(s) + 0 /\ Total(u) + 0 = Total(t) + f[m]
  BY <1>1, <1>5, <1>6, <1>7, <1>9
<1>11. Total(u) = Total(s) + Total(t)
  BY <1>8, <1>10
<1> QED
  BY <1>1, <1>11 DEF u

LEMMA EmptyBytes == Total(<<>>) = 0
<1>1. Weighed(<<>>) /\ Len(<<>>) = 0
  BY DEF Weighed
<1> QED
  BY <1>1, SumIs

LEMMA SingleBytes ==
  ASSUME NEW S, Sized(S), NEW e \in S
  PROVE  <<e>> \in Seq(S) /\ Total(<<e>>) = Bytes(e)
<1> DEFINE s == <<e>>
<1>1. s \in Seq(S) /\ Len(s) = 1 /\ s[1] = e /\ Bytes(e) \in Nat
  BY DEF Sized
<1>2. Weighed(s)
  BY <1>1, SizedIsWeighed
<1> HIDE DEF s
<1>3. Total(s) = SumOf(s)[1] /\ SumOf(s)[0] = 0
  BY <1>1, <1>2, SumIs
<1>4. SumOf(s)[1] = SumOf(s)[1 - 1] + Bytes(s[1])
  <2>1. 1 \in 1 .. Len(s)
    BY <1>1
  <2> QED
    BY <1>2, <2>1, SumIs
<1>5. Total(s) = Bytes(e)
  BY <1>1, <1>3, <1>4
<1> QED
  BY <1>1, <1>5 DEF s

LEMMA RestBytes ==
  ASSUME NEW S, Sized(S), NEW s \in Seq(S), NEW k \in 1 .. Len(s)
  PROVE  /\ RemoveAt(s, k) \in Seq(S) /\ Bytes(s[k]) \in Nat
         /\ Total(RemoveAt(s, k)) + Bytes(s[k]) = Total(s)
<1> DEFINE n == Len(s)
           f == SumOf(s)
           a == SubSeq(s, 1, k - 1)
           c == SubSeq(s, k + 1, n)
<1>1. n \in Nat /\ k \in 1 .. n /\ k - 1 \in 0 .. n /\ k \in 0 .. n /\ s[k] \in S
  OBVIOUS
<1>2. RemoveAt(s, k) = a \o c
  BY DEF RemoveAt
<1>3. Weighed(s)
  BY SizedIsWeighed
<1>4. /\ Total(s) = f[n] /\ f[0] = 0 /\ f[k] = f[k - 1] + Bytes(s[k])
      /\ f[n] \in Nat /\ f[k] \in Nat /\ f[k - 1] \in Nat
  BY <1>1, <1>3, SumIs
<1>5. a \in Seq(S) /\ Total(a) = f[k - 1] - f[0]
  <2>1. 0 \in 0 .. Len(s) /\ k - 1 \in 0 .. Len(s) /\ 0 + 1 = 1
    BY <1>1
  <2>2. SubSeq(s, 0 + 1, k - 1) \in Seq(S) /\ Total(SubSeq(s, 0 + 1, k - 1)) = f[k - 1] - f[0]
    BY <2>1, PartBytes
  <2> QED
    BY <2>1, <2>2
<1>6. c \in Seq(S) /\ Total(c) = f[n] - f[k]
  <2>1. k \in 0 .. Len(s) /\ n \in k .. Len(s)
    BY <1>1
  <2> QED
    BY <2>1, PartBytes
<1>7. Bytes(s[k]) \in Nat
  BY <1>1 DEF Sized
<1> HIDE DEF f, n, a, c
<1>8. a \o c \in Seq(S) /\ Total(a \o c) = Total(a) + Total(c)
  BY <1>5, <1>6, JoinedBytes
<1>9. Total(a \o c) + Bytes(s[k]) = Total(s)
  BY <1>4, <1>5, <1>6, <1>7, <1>8
<1> QED
  BY <1>2, <1>7, <1>8, <1>9

\* Every entry of the memory has a size.
LEMMA MemorySized ==
  ASSUME CInv
  PROVE  LET S == {Uncached(i) : i \in Examples}
         IN  /\ Sized(S) /\ lru \in Seq(S) /\ Len(lru) \in Nat
             /\ DOMAIN lru = 1 .. Len(lru)
<1> DEFINE M == Max({Length[j] : j \in Examples})
<1>1. M \in Nat
  BY LongestExists
<1>2. ASSUME NEW i \in Examples PROVE Bytes(Uncached(i)) \in Nat
  <2>1. Bytes(Uncached(i)) = Frames[i] + M
    BY DEF Bytes, Uncached
  <2>2. Frames[i] \in Nat
    BY CacheAssumption
  <2> HIDE DEF M
  <2> QED
    BY <1>1, <2>1, <2>2
<1>3. lru \in Seq({Uncached(i) : i \in Examples})
  BY DEF CInv, InMemory
<1>4. Len(lru) \in Nat /\ DOMAIN lru = 1 .. Len(lru)
  BY <1>3
<1> QED
  BY <1>2, <1>3, <1>4 DEF Sized

Once(s) == \A j, k \in DOMAIN s : s[j].index = s[k].index => j = k

LEMMA CountedIs ==
  MemoryCounted <=> resident = Total(lru) /\ resident <= MemoryLimit /\ Once(lru)
BY DEF MemoryCounted, Once

\* An entry that is moved to the front is there once still.
LEMMA MovedOnce ==
  ASSUME NEW S, NEW s \in Seq(S), NEW k \in 1 .. Len(s), Once(s)
  PROVE  Once(<<s[k]>> \o RemoveAt(s, k))
<1> DEFINE n == Len(s)
           a == SubSeq(s, 1, k - 1)
           c == SubSeq(s, k + 1, n)
           t == <<s[k]>> \o (a \o c)
           g(j) == IF j = 1 THEN k ELSE IF j <= k THEN j - 1 ELSE j
<1>1. n \in Nat /\ k \in 1 .. n /\ DOMAIN s = 1 .. n
  OBVIOUS
<1>2. /\ a \in Seq(S) /\ Len(a) = k - 1 /\ \A i \in 1 .. k - 1 : a[i] = s[i]
  OBVIOUS
<1>3. c \in Seq(S) /\ Len(c) = n - k /\ \A i \in 1 .. n - k : c[i] = s[k + i]
  OBVIOUS
<1>4. <<s[k]>> \in Seq(S) /\ Len(<<s[k]>>) = 1
  OBVIOUS
<1> HIDE DEF a, c, n
<1> DEFINE u == a \o c
<1>5. /\ u \in Seq(S) /\ Len(u) = n - 1
      /\ \A i \in 1 .. n - 1 : u[i] = IF i < k THEN s[i] ELSE s[i + 1]
  <2>1. u \in Seq(S) /\ Len(u) = (k - 1) + (n - k)
    <3>1. a \in Seq(S) /\ c \in Seq(S)
      BY <1>2, <1>3
    <3>2. a \o c \in Seq(S) /\ Len(a \o c) = Len(a) + Len(c)
      BY <3>1
    <3> QED
      BY <1>2, <1>3, <3>2
  <2>2. \A i \in 1 .. (k - 1) + (n - k) : u[i] = IF i <= k - 1 THEN a[i] ELSE c[i - (k - 1)]
    BY <1>1, <1>2, <1>3
  <2>3. (k - 1) + (n - k) = n - 1
    BY <1>1
  <2>4. ASSUME NEW i \in 1 .. n - 1 PROVE u[i] = IF i < k THEN s[i] ELSE s[i + 1]
    <3>1. CASE i < k
      <4>1. i <= k - 1 /\ i \in 1 .. k - 1
        BY <1>1, <3>1
      <4> QED
        BY <1>2, <2>2, <2>3, <3>1, <4>1
    <3>2. CASE ~(i < k)
      <4>1. ~(i <= k - 1) /\ i - (k - 1) \in 1 .. n - k /\ k + (i - (k - 1)) = i + 1
        BY <1>1, <3>2
      <4>2. u[i] = c[i - (k - 1)]
        BY <2>2, <2>3, <4>1
      <4> QED
        BY <1>3, <3>2, <4>1, <4>2
    <3> QED
      BY <3>1, <3>2
  <2> QED
    BY <2>1, <2>3, <2>4
<1> HIDE DEF u
<1> DEFINE w == <<s[k]>> \o u
<1>6. /\ w \in Seq(S) /\ DOMAIN w = 1 .. n
      /\ w[1] = s[k] /\ \A i \in 2 .. n : w[i] = u[i - 1]
  <2>1. w \in Seq(S) /\ Len(w) = 1 + (n - 1)
    BY <1>4, <1>5
  <2>2. \A i \in 1 .. 1 + (n - 1) : w[i] = IF i <= 1 THEN <<s[k]>>[i] ELSE u[i - 1]
    BY <1>1, <1>4, <1>5
  <2>3. 1 + (n - 1) = n
    BY <1>1
  <2> QED
    BY <1>1, <2>1, <2>2, <2>3
<1> HIDE DEF w
<1>7. ASSUME NEW j \in 1 .. n PROVE w[j] = s[g(j)] /\ g(j) \in 1 .. n
  <2>1. CASE j = 1
    BY <1>1, <1>6, <2>1
  <2>2. CASE j # 1
    <3>1. j \in 2 .. n /\ j - 1 \in 1 .. n - 1 /\ (j - 1) + 1 = j
      BY <1>1, <2>2
    <3>2. w[j] = u[j - 1] /\ u[j - 1] = IF j - 1 < k THEN s[j - 1] ELSE s[j]
      BY <1>5, <1>6, <3>1
    <3>3. j - 1 < k <=> j <= k
      BY <1>1, <3>1
    <3> QED
      BY <1>1, <2>2, <3>1, <3>2, <3>3
  <2> QED
    BY <2>1, <2>2
<1>8. \A i, j \in 1 .. n : g(i) = g(j) => i = j
  BY <1>1
<1> HIDE DEF g
<1>9. Once(w)
  BY <1>1, <1>6, <1>7, <1>8 DEF Once
<1>10. <<s[k]>> \o RemoveAt(s, k) = w
  BY Zenon DEF RemoveAt, w, u, a, c, n
<1> QED
  BY <1>9, <1>10

\* What is given from memory moves to the front.
LEMMA HitCounts ==
  ASSUME CInv, MemoryCounted, NEW i, Get(i), Kept(i)
  PROVE  MemoryCounted'
<1> DEFINE S == {Uncached(j) : j \in Examples}
           k == Slot(i)
           r == RemoveAt(lru, k)
           e == lru[k]
<1>1. Sized(S) /\ lru \in Seq(S) /\ DOMAIN lru = 1 .. Len(lru)
  BY MemorySized
<1>2. k \in DOMAIN lru /\ lru' = <<e>> \o r /\ resident' = resident
  BY SlotIsIndex DEF Get
<1> HIDE DEF k, S
<1>3. k \in 1 .. Len(lru) /\ e \in S
  BY <1>1, <1>2
<1>4. r \in Seq(S) /\ Bytes(e) \in Nat /\ Total(r) + Bytes(e) = Total(lru)
  BY <1>1, <1>3, RestBytes
<1>5. <<e>> \in Seq(S) /\ Total(<<e>>) = Bytes(e)
  BY <1>1, <1>3, SingleBytes
<1>6. Once(<<e>> \o r)
  <2>1. Once(lru)
    BY CountedIs
  <2> QED
    BY <1>1, <1>3, <2>1, MovedOnce
<1>7. Total(r) \in Nat
  BY <1>1, <1>4, SizedIsWeighed
<1> HIDE DEF r, e
<1>8. Total(<<e>> \o r) = Total(<<e>>) + Total(r)
  BY <1>1, <1>4, <1>5, JoinedBytes
<1>9. Total(<<e>> \o r) = Total(lru)
  BY <1>4, <1>5, <1>7, <1>8
<1>10. resident = Total(lru) /\ resident <= MemoryLimit
  BY CountedIs
<1>11. Total(lru') = Total(lru)
  BY <1>2, <1>9
<1>12. Total(lru)' = Total(lru')
  BY DEF Total, Bytes
<1>13. Once(lru)'
  BY <1>2, <1>6 DEF Once
<1>14. resident' = Total(lru)' /\ resident' <= MemoryLimit
  BY <1>2, <1>10, <1>11, <1>12
<1> QED
  BY <1>13, <1>14 DEF MemoryCounted, Once

\* What is given from the disk comes to the front if it fits at all, and those
\* that do not fit with it go.
LEMMA MissCounts ==
  ASSUME CInv, MemoryCounted, next = N, NEW i \in Examples, Get(i), ~Kept(i)
  PROVE  MemoryCounted'
<1> DEFINE S == {Uncached(j) : j \in Examples}
           n == Len(lru)
           f == SumOf(lru)
           e == FromDisk(i)
           bytes == Bytes(e)
           spared == Spared(bytes)
           new == IF bytes <= MemoryLimit THEN <<e>> ELSE <<>>
           gone == SubSeq(lru, spared + 1, n)
           stay == SubSeq(lru, 1, spared)
           Fits(k) == /\ bytes <= MemoryLimit
                      /\ resident - Total(SubSeq(lru, k + 1, n)) <= MemoryLimit - bytes
           T == {0} \cup {k \in DOMAIN lru : Fits(k)}
<1>1. Sized(S) /\ lru \in Seq(S) /\ DOMAIN lru = 1 .. n /\ n \in Nat
  BY MemorySized
<1>2. /\ Readable(i) /\ lru' = new \o stay
      /\ resident' = resident - Total(gone) + Total(new)
  BY Zenon DEF Get
<1>3. e = Uncached(i) /\ e \in S
  BY <1>2, DiskIsUncached
<1>4. spared = Max(T)
  BY Zenon DEF Spared
<1>5. spared \in T /\ spared \in 0 .. n
  <2>1. T \in SUBSET Nat /\ T # {} /\ \A x \in T : x <= n
    <3> HIDE DEF S, Fits
    <3> QED
      BY <1>1
  <2> HIDE DEF T, spared, S
  <2>2. spared \in T
    BY <1>1, <1>4, <2>1, MaxOfBounded
  <2> QED
    BY <1>1, <2>1, <2>2
<1>6. spared = 0 \/ Fits(spared)
  <2> HIDE DEF Fits, spared
  <2> QED
    BY <1>5
<1> HIDE DEF S, spared
<1>7. /\ stay \in Seq(S) /\ Total(stay) = f[spared] - f[0]
      /\ f[spared] \in Nat /\ f[0] = 0
  <2>1. 0 \in 0 .. Len(lru) /\ spared \in 0 .. Len(lru) /\ 0 + 1 = 1
    BY <1>1, <1>5
  <2>2. /\ SubSeq(lru, 0 + 1, spared) \in Seq(S)
        /\ Total(SubSeq(lru, 0 + 1, spared)) = f[spared] - f[0] /\ f[spared] \in Nat
    BY <1>1, <2>1, PartBytes
  <2>3. f[0] = 0
    BY <1>1, SizedIsWeighed, SumIs
  <2> QED
    BY <2>1, <2>2, <2>3
<1>8. gone \in Seq(S) /\ Total(gone) = f[n] - f[spared] /\ f[n] \in Nat
  <2>1. spared \in 0 .. Len(lru) /\ n \in spared .. Len(lru)
    BY <1>1, <1>5
  <2> QED
    BY <1>1, <2>1, PartBytes
<1>9. Total(lru) = f[n]
  BY <1>1, SizedIsWeighed, SumIs
<1>10. resident = Total(lru) /\ resident <= MemoryLimit /\ Once(lru)
  BY CountedIs
<1>11. /\ new \in Seq(S) /\ Total(new) \in Nat /\ bytes \in Nat
       /\ bytes <= MemoryLimit => Total(new) = bytes
       /\ ~(bytes <= MemoryLimit) => Total(new) = 0
  <2>1. bytes \in Nat
    BY <1>1, <1>3 DEF Sized
  <2>2. <<e>> \in Seq(S) /\ Total(<<e>>) = bytes /\ <<>> \in Seq(S) /\ Total(<<>>) = 0
    BY <1>1, <1>3, SingleBytes, EmptyBytes
  <2> HIDE DEF e, bytes
  <2> QED
    BY <2>1, <2>2
<1>12. Total(new \o stay) = Total(new) + Total(stay)
  BY <1>1, <1>7, <1>11, JoinedBytes
<1>13. resident' = Total(new) + Total(stay) /\ Total(stay) = f[spared]
  <2> HIDE DEF f, n, new, gone, stay
  <2>1. Total(stay) = f[spared]
    BY <1>7
  <2>2. resident - Total(gone) = f[spared]
    BY <1>7, <1>8, <1>9, <1>10
  <2> QED
    BY <1>2, <1>7, <1>11, <2>1, <2>2
<1>14. Total(new) + Total(stay) <= MemoryLimit
  <2>1. MemoryLimit \in Nat
    BY CacheAssumption
  <2>2. CASE spared = 0
    <3>1. Total(stay) = 0
      BY <1>7, <1>13, <2>2
    <3> HIDE DEF new, stay, bytes
    <3> QED
      BY <1>11, <2>1, <3>1
  <2>3. CASE Fits(spared)
    <3>1. bytes <= MemoryLimit /\ resident - Total(gone) <= MemoryLimit - bytes
      BY <2>3
    <3> HIDE DEF f, n, new, gone, stay, bytes
    <3>2. resident - Total(gone) = f[spared]
      BY <1>7, <1>8, <1>9, <1>10
    <3> QED
      BY <1>7, <1>11, <1>13, <2>1, <3>1, <3>2
  <2> QED
    BY <1>6, <2>2, <2>3
<1>15. Once(new \o stay)
  <2>1. \A k \in 1 .. spared : stay[k] = lru[k] /\ k \in DOMAIN lru
    BY <1>1, <1>5
  <2>2. Len(stay) = spared /\ spared \in Nat
    BY <1>1, <1>5
  <2>3. \A k \in DOMAIN lru : lru[k].index # i
    BY DEF Kept
  <2>4. e.index = i
    BY <1>3 DEF Uncached
  <2> HIDE DEF e, stay, bytes
  <2>5. CASE bytes <= MemoryLimit
    <3> DEFINE w == <<e>> \o stay
    <3>1. <<e>> \in Seq(S) /\ Len(<<e>>) = 1
      BY <1>3
    <3>2. DOMAIN w = 1 .. 1 + spared /\ w[1] = e /\ \A k \in 2 .. 1 + spared : w[k] = stay[k - 1]
      BY <1>7, <2>2, <3>1
    <3> HIDE DEF w
    <3>3. \A k \in 2 .. 1 + spared : k - 1 \in DOMAIN lru /\ w[k] = lru[k - 1]
      BY <2>1, <2>2, <3>2
    <3>4. Once(w)
      <4> SUFFICES ASSUME NEW j \in 1 .. 1 + spared, NEW k \in 1 .. 1 + spared,
                          w[j].index = w[k].index
                   PROVE  j = k
        BY <3>2 DEF Once
      <4>1. CASE j = 1 /\ k = 1
        BY <4>1
      <4>2. CASE j = 1 /\ k # 1
        BY <2>2, <2>3, <2>4, <3>2, <3>3, <4>2
      <4>3. CASE j # 1 /\ k = 1
        BY <2>2, <2>3, <2>4, <3>2, <3>3, <4>3
      <4>4. CASE j # 1 /\ k # 1
        <5>1. j \in 2 .. 1 + spared /\ k \in 2 .. 1 + spared
          BY <2>2, <4>4
        <5>2. j - 1 \in DOMAIN lru /\ k - 1 \in DOMAIN lru /\ lru[j - 1].index = lru[k - 1].index
          BY <3>3, <5>1
        <5>3. j - 1 = k - 1
          BY <1>10, <5>2 DEF Once
        <5> QED
          BY <5>3, <5>1
      <4> QED
        BY <4>1, <4>2, <4>3, <4>4
    <3>5. new \o stay = w
      BY <2>5 DEF w
    <3> QED
      BY <3>4, <3>5
  <2>6. CASE ~(bytes <= MemoryLimit)
    <3>1. new \o stay = stay
      <4>1. new = <<>>
        BY <2>6
      <4> HIDE DEF new
      <4> QED
        BY <1>7, <4>1
    <3>2. DOMAIN stay = 1 .. spared
      BY <1>7, <2>2
    <3>3. Once(stay)
      BY <1>10, <2>1, <3>2 DEF Once
    <3> QED
      BY <3>1, <3>3
  <2> QED
    BY <2>5, <2>6
<1> HIDE DEF new, stay
<1>16. Total(lru)' = Total(lru')
  BY DEF Total, Bytes
<1>17. resident' = Total(lru)' /\ resident' <= MemoryLimit
  BY <1>2, <1>12, <1>13, <1>14, <1>16
<1>18. Once(lru)'
  BY <1>2, <1>15 DEF Once
<1> QED
  BY <1>17, <1>18 DEF MemoryCounted, Once

\* With nothing in memory nothing is counted.
LEMMA NothingCounted ==
  ASSUME lru = <<>>, resident = 0
  PROVE  MemoryCounted
<1>1. Total(lru) = 0 /\ MemoryLimit \in Nat
  BY EmptyBytes, CacheAssumption
<1>2. DOMAIN lru = {}
  OBVIOUS
<1> QED
  BY <1>1, <1>2 DEF MemoryCounted

LEMMA MemoryUntouched ==
  ASSUME MemoryCounted, lru' = lru, resident' = resident
  PROVE  MemoryCounted'
BY DEF MemoryCounted, Total, Bytes

LEMMA MemoryStepKeeps == IInv /\ CInv /\ MemoryCounted /\ [JobNext]_jobVars => MemoryCounted'
<1> SUFFICES ASSUME IInv, CInv, MemoryCounted, [JobNext]_jobVars PROVE MemoryCounted'
  OBVIOUS
<1>1. ASSUME NEW c, Started(c) PROVE MemoryCounted'
  <2>1. lru' = <<>> /\ resident' = 0
    BY <1>1 DEF Started, BeginPrepare
  <2>2. \A s, r : s = <<>> /\ r = 0 =>
            /\ r = Total(s) /\ r <= MemoryLimit
            /\ \A j, k \in DOMAIN s : s[j].index = s[k].index => j = k
    BY EmptyBytes, CacheAssumption
  <2>3. Total(lru)' = Total(lru')
    BY DEF Total, Bytes
  <2> QED
    BY <2>1, <2>2, <2>3 DEF MemoryCounted
<1>2. CASE PrepareExamples /\ LookUp
  BY <1>2, MemoryUntouched DEF LookUp
<1>3. CASE PrepareExamples /\ Write
  <2>1. lru = <<>>
    BY <1>3 DEF PrepareExamples, CInv, InMemory
  <2>2. ~Kept(next)
    BY <2>1 DEF Kept
  <2>3. UNCHANGED <<lru, resident>>
    BY <1>3, <2>2 DEF Write
  <2> QED
    BY <2>3, MemoryUntouched
<1>4. CASE TrainExample
  <2>1. pc = "batch" /\ Get(Example) /\ next = N
    BY <1>4 DEF TrainExample, MicroBatch, CInv, InMemory, Training
  <2>2. Example \in Examples
    BY <2>1, ExampleExists
  <2> QED
    BY <2>1, <2>2, HitCounts, MissCounts
<1>5. CASE TrainingBegins \/ UpdateTold \/ Broken
  <2>1. UNCHANGED <<lru, resident>>
    BY <1>5 DEF TrainingBegins, UpdateTold, Broken, cacheVars
  <2> QED
    BY <2>1, MemoryUntouched
<1>6. CASE OtherTrainers
  BY <1>6, MemoryUntouched DEF OtherTrainers, Others
<1>7. CASE \/ Alone(CancelEarly \/ BeginEpoch \/ CancelBatch \/ AfterUpdate \/ EndEpoch)
           \/ Alone(Finish \/ PublishFinal \/ End \/ RequestCancel \/ ClearCancel)
           \/ UNCHANGED jobVars
  <2>1. UNCHANGED cacheVars
    BY <1>7 DEF Alone, jobVars
  <2> QED
    BY <2>1, MemoryUntouched DEF cacheVars
<1> QED
  BY <1>1, <1>2, <1>3, <1>4, <1>5, <1>6, <1>7 DEF JobNext, PrepareExamples, Prepare

\* What stays in memory is there once, is counted, and is within the budget,
\* whatever examples are asked for, of whatever sizes, in whatever order
\* (src/train-preprocess-cache.h:230-236, 258-264, 288-296).
THEOREM JobMemory == JobSpec => []MemoryCounted
<1>1. JobInit => CInv /\ MemoryCounted
  <2>1. JobInit => lru = <<>> /\ resident = 0
    BY DEF JobInit, CacheInit
  <2> QED
    BY <2>1, CacheInitKeeps, NothingCounted
<1>2. IInv /\ CInv /\ [JobNext]_jobVars => CInv'
  BY CacheStepKeeps
<1>3. IInv /\ CInv /\ MemoryCounted /\ [JobNext]_jobVars => MemoryCounted'
  BY MemoryStepKeeps
<1> QED
  BY <1>1, <1>2, <1>3, TrainJobInvariant, PTL DEF JobSpec
=============================================================================
