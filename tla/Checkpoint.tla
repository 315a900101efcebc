----------------------------- MODULE Checkpoint -----------------------------
(***************************************************************************)
(* src/train-checkpoint.h: how the trainer saves a checkpoint into a       *)
(* directory that may already hold one, and what is found there after the  *)
(* process was killed or the machine lost power at any point.              *)
(*                                                                         *)
(* A save writes an immutable generation beside the others, then publishes *)
(* its PEFT files at the root of the directory for other tools, and last   *)
(* the pointer checkpoint.current, which is what a resume follows.         *)
(***************************************************************************)
EXTENDS Naturals

CONSTANTS Saves,    \* bound: how many saves are started
          Configs,  \* the adapter configurations of the runs
          None      \* no configuration

ASSUME SavesAssumption == Saves \in Nat
ASSUME NoneAssumption == None \notin Configs

Gens == 1 .. Saves  \* a generation's token is random; here it is its number

\* How much of a generation's files is there: some is less than the files of
\* ace_train_checkpoint_files and the manifest, which is written last.
Extents == {"none", "some", "all"}

VARIABLES
    pc,      \* "down", "training", or the step the save has come to
    config,  \* the configuration of the run
    gen,     \* the number of generations begun, the last being the save's
    made,    \* each generation's configuration
    disk,    \* the directory as the file system shows it
    safe,    \* the directory as the last fsyncs left it
    kept     \* the generations whose save returned true

vars == <<pc, config, gen, made, disk, safe, kept>>

Empty == [generations |-> FALSE,              \* .checkpoint-generations exists
          place |-> [g \in Gens |-> "none"],  \* under which kind of name
          files |-> [g \in Gens |-> "none"],  \* how many of its files are whole
          config |-> None,                    \* the root's adapter_config.json
          model |-> 0,                        \* whose adapter_model.safetensors
          pointer |-> 0]                      \* checkpoint.current

SaveSteps == {"write", "sync", "rename", "sync_generations", "config",
              "model", "sync_root", "pointer", "sync_pointer"}

\* A generation that adapter_checkpoint_directory can be led to and whose
\* manifest validates.
Whole(d, g) ==
    /\ d.generations
    /\ d.place[g] = "final"
    /\ d.files[g] = "all"

Init ==
    /\ pc = "down"
    /\ config = None
    /\ gen = 0
    /\ made = [g \in Gens |-> None]
    /\ disk = Empty
    /\ safe = Empty
    /\ kept = {}

-----------------------------------------------------------------------------
(* Runs.  A checkpoint of another directory may be resumed into this one,    *)
(* which for this directory is a fresh run.                                  *)

\* run_training lets a run in without --resume of this directory when it has
\* no checkpoint.current.
StartFresh(c) ==
    /\ pc = "down"
    /\ disk.pointer = 0
    /\ pc' = "training"
    /\ config' = c
    /\ UNCHANGED <<gen, made, disk, safe, kept>>

\* --resume of the current generation; the plan it recorded must match the
\* settings, so the configuration is its own.
StartResume ==
    /\ pc = "down"
    /\ disk.pointer # 0
    /\ Whole(disk, disk.pointer)
    /\ pc' = "training"
    /\ config' = made[disk.pointer]
    /\ UNCHANGED <<gen, made, disk, safe, kept>>

\* The run ends: completed, cancelled, or failed outside a save.
End ==
    /\ pc = "training"
    /\ pc' = "down"
    /\ config' = None
    /\ UNCHANGED <<gen, made, disk, safe, kept>>

-----------------------------------------------------------------------------
(* ace_save_train_checkpoint.                                                *)

\* The directories are created.
BeginSave ==
    /\ pc = "training"
    /\ gen < Saves
    /\ gen' = gen + 1
    /\ made' = [made EXCEPT ![gen + 1] = config]
    /\ disk' = [disk EXCEPT !.generations = TRUE, !.place[gen + 1] = "stage"]
    /\ pc' = "write"
    /\ UNCHANGED <<config, safe, kept>>

\* A step that changes only what the file system shows.
Shows(at, next, d) ==
    /\ pc = at
    /\ pc' = next
    /\ disk' = d
    /\ UNCHANGED <<config, gen, made, safe, kept>>

\* A step that makes something durable.
Syncs(at, next, d) ==
    /\ pc = at
    /\ pc' = next
    /\ safe' = d
    /\ UNCHANGED <<config, gen, made, disk>>

\* The files one after the other, and last the manifest.
Write ==
    \/ Shows("write", "write", [disk EXCEPT !.files[gen] = "some"])
    \/ Shows("write", "sync", [disk EXCEPT !.files[gen] = "all"])

\* Slip: the staging directory is not synced before it is renamed.
SyncNothing ==
    /\ Syncs("sync", "rename", safe)
    /\ UNCHANGED kept

\* Every file and the staging directory.
SyncStage ==
    /\ Syncs("sync", "rename", [safe EXCEPT !.files[gen] = disk.files[gen]])
    /\ UNCHANGED kept

Rename == Shows("rename", "sync_generations", [disk EXCEPT !.place[gen] = "final"])

SyncGenerations ==
    /\ Syncs("sync_generations", "config", [safe EXCEPT !.place = disk.place])
    /\ UNCHANGED kept

\* ace_publish_peft_checkpoint, first half: the configuration is copied once
\* and may not change after that.
PublishConfig ==
    /\ disk.config \in {None, config}
    /\ disk.model # 0 => disk.config # None
    /\ Shows("config", "model", [disk EXCEPT !.config = config])

\* Second half: the model is replaced by a rename, and the root is synced.
PublishModel == Shows("model", "sync_root", [disk EXCEPT !.model = gen])

SyncedRoot == [safe EXCEPT !.generations = disk.generations, !.config = disk.config,
                           !.model = disk.model, !.pointer = disk.pointer]

\* Slip: the sync between the model and the pointer is left to the last one.
SyncRootLater ==
    /\ Syncs("sync_root", "pointer", safe)
    /\ UNCHANGED kept

SyncRoot ==
    /\ Syncs("sync_root", "pointer", SyncedRoot)
    /\ UNCHANGED kept

\* ace_publish_train_checkpoint_generation.
PublishPointer == Shows("pointer", "sync_pointer", [disk EXCEPT !.pointer = gen])

\* Slip: the save returns without the last sync.
SyncPointerNot ==
    /\ Syncs("sync_pointer", "training", safe)
    /\ kept' = kept \cup {gen}

\* The save returns true.
SyncPointer ==
    /\ Syncs("sync_pointer", "training", SyncedRoot)
    /\ kept' = kept \cup {gen}

-----------------------------------------------------------------------------
(* Failures.                                                                 *)

\* The save returns false, for an error of the file system at any step or for
\* another configuration at the root, and the run fails.  Until the rename
\* the staging directory is discarded; afterwards what was done stays.
Fail ==
    /\ pc \in SaveSteps
    /\ pc' = "down"
    /\ config' = None
    /\ disk' = IF pc \in {"write", "sync", "rename"}
               THEN [disk EXCEPT !.place[gen] = "none", !.files[gen] = "none"] ELSE disk
    /\ UNCHANGED <<gen, made, safe, kept>>

Kill ==
    /\ pc # "down"
    /\ pc' = "down"
    /\ config' = None
    /\ UNCHANGED <<gen, made, disk, safe, kept>>

\* What was not synced is lost or kept, entry by entry, in any combination;
\* a directory that is lost takes what was in it along.  The unsynced files
\* of one generation are lost together: one is enough to spoil it.
PowerLoss ==
    /\ disk # safe
    /\ \E keeps \in BOOLEAN, cf \in {safe.config, disk.config},
          m \in {safe.model, disk.model}, pt \in {safe.pointer, disk.pointer},
          named \in SUBSET {g \in Gens : disk.place[g] # safe.place[g]},
          filled \in SUBSET {g \in Gens : disk.files[g] # safe.files[g]} :
        LET dirs == IF keeps THEN disk.generations ELSE safe.generations
            place == [g \in Gens |-> IF ~dirs THEN "none"
                                     ELSE IF g \in named THEN disk.place[g] ELSE safe.place[g]]
        IN  disk' = [generations |-> dirs,
                     place |-> place,
                     files |-> [g \in Gens |-> IF place[g] = "none" THEN "none"
                                               ELSE IF g \in filled THEN disk.files[g]
                                               ELSE safe.files[g]],
                     config |-> cf, model |-> m, pointer |-> pt]
    /\ safe' = disk'
    /\ pc' = "down"
    /\ config' = None
    /\ UNCHANGED <<gen, made, kept>>

Next ==
    \/ \E c \in Configs : StartFresh(c)
    \/ StartResume
    \/ End
    \/ BeginSave
    \/ Write
    \/ SyncStage
    \/ Rename
    \/ SyncGenerations
    \/ PublishConfig
    \/ PublishModel
    \/ SyncRoot
    \/ PublishPointer
    \/ SyncPointer
    \/ Fail
    \/ Kill
    \/ PowerLoss

Spec == Init /\ [][Next]_vars

-----------------------------------------------------------------------------
(* Checkpoint implements CheckpointStore.                                    *)

\* What a resume finds in a directory: the generation that the pointer leads
\* to if it is whole, or one that is damaged.
Damaged == Saves + 1
Found(d) == IF d.pointer = 0 \/ Whole(d, d.pointer) THEN d.pointer ELSE Damaged

Store == INSTANCE CheckpointStore WITH
    begun    <- gen,
    saving   <- IF pc \in SaveSteps THEN gen ELSE 0,
    found    <- Found(disk),
    sure     <- Found(safe),
    returned <- kept

\* Whatever step a save is stopped at, its checkpoint is found as a whole or
\* not at all, and what it returned for is not taken back (train-checkpoint.h,
\* ace_save_train_checkpoint; ace-train.cpp resumes what the pointer leads to).
SavesAtomically == Store!Spec

-----------------------------------------------------------------------------
(* Properties.                                                               *)

Directories == [generations : BOOLEAN,
                place : [Gens -> {"none", "stage", "final"}],
                files : [Gens -> Extents],
                config : Configs \cup {None},
                model : 0 .. Saves,
                pointer : 0 .. Saves]

\* Every variable stays in its range, and a generation has the configuration
\* of the run that wrote it.
TypeOK ==
    /\ pc \in {"down", "training"} \cup SaveSteps
    /\ config \in Configs \cup {None}
    /\ (config = None) = (pc = "down")
    /\ gen \in 0 .. Saves
    /\ made \in [Gens -> Configs \cup {None}]
    /\ disk \in Directories /\ safe \in Directories
    /\ kept \subseteq 1 .. gen
    /\ pc \in SaveSteps => gen > 0 /\ made[gen] = config

\* checkpoint.current never names a generation a resume would reject, nor
\* could it after a power loss (train-checkpoint.h: a checkpoint is never
\* half there).
PointerWhole ==
    \A d \in {disk, safe} : d.pointer # 0 => Whole(disk, d.pointer) /\ Whole(safe, d.pointer)

\* The generations whose save returned true are there for good: hosts are
\* told their path (state_checkpoint, adapter_checkpoint), and the pointer
\* never goes back behind the last of them, whatever fails afterwards.
KeptForever ==
    \A g \in kept :
        /\ Whole(disk, g) /\ Whole(safe, g)
        /\ disk.pointer >= g /\ safe.pointer >= g

\* The PEFT files at the root fit each other and, once there is a pointer, are
\* those of its generation or of one published after it.  Before that a power
\* loss may keep the model and lose the configuration, renamed just before it.
PeftConsistent ==
    \A d \in {disk, safe} :
        /\ d.model # 0 /\ d.config # None => d.config = made[d.model]
        /\ d.pointer # 0 => d.model >= d.pointer /\ d.config # None
=============================================================================
