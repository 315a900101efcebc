-------------------------- MODULE Checkpoint_proofs --------------------------
(***************************************************************************)
(* Proofs about Checkpoint for any number of saves and any configurations: *)
(* what a save has made durable by each of its steps, and that no failure, *)
(* kill or power loss between two of them breaks a published checkpoint.   *)
(***************************************************************************)
EXTENDS Checkpoint, TLAPS

\* The steps a save is at once it has done the one in the name.
AfterRootSync == {"pointer", "sync_pointer"}
AfterModel == {"sync_root"} \cup AfterRootSync
AfterConfig == {"model"} \cup AfterModel
AfterPlaceSync == {"config"} \cup AfterConfig
AfterRename == {"sync_generations"} \cup AfterPlaceSync
AfterStageSync == {"rename"} \cup AfterRename
AfterWrite == {"sync"} \cup AfterStageSync

\* What a save has done, on the disk or durably, by the step it is at.
Progress ==
    /\ pc \in SaveSteps => disk.generations
    /\ pc \in AfterWrite => disk.files[gen] = "all"
    /\ pc \in AfterStageSync => safe.files[gen] = "all"
    /\ pc \in AfterRename => disk.place[gen] = "final"
    /\ pc \in AfterPlaceSync => safe.place[gen] = "final"
    /\ pc \in AfterConfig => disk.config = config
    /\ pc \in AfterModel => disk.model = gen
    /\ pc \in AfterRootSync => safe.generations /\ safe.config = config /\ safe.model = gen
    /\ pc = "sync_pointer" => disk.pointer = gen
    /\ pc \in SaveSteps \ {"sync_pointer"} => disk.pointer < gen

\* The pointer is published behind the model, and nothing durable is ahead of
\* what the file system shows.
Ordered ==
    /\ disk.model <= gen
    /\ safe.model <= disk.model
    /\ safe.pointer <= disk.pointer
    /\ disk.pointer <= safe.model

\* The root's configuration fits either model a power loss may leave beside
\* it, and is durable once there is a pointer.
PeftAgree ==
    /\ \A g \in 1 .. gen : made[g] \in Configs
    /\ safe.config \in {None, disk.config}
    /\ disk.pointer # 0 => safe.config # None
    /\ disk.config # None => \A m \in {disk.model, safe.model} \ {0} : made[m] = disk.config

IInv == TypeOK /\ Progress /\ Ordered /\ PeftAgree /\ PointerWhole /\ KeptForever

USE SavesAssumption, NoneAssumption
    DEF AfterRootSync, AfterModel, AfterConfig, AfterPlaceSync, AfterRename,
        AfterStageSync, AfterWrite, SaveSteps, Gens

-----------------------------------------------------------------------------

LEMMA InitEstablishes == Init => IInv
  BY DEF Init, IInv, TypeOK, Progress, Ordered, PeftAgree, PointerWhole, KeptForever,
         Empty, Directories, Extents

\* What is published is the model or pointer of a generation begun, and the
\* pointer is behind the model.
LEMMA Published ==
  ASSUME IInv
  PROVE  /\ gen \in Nat
         /\ disk.model \in 0 .. gen /\ safe.model \in 0 .. gen
         /\ disk.pointer \in 0 .. gen /\ safe.pointer \in 0 .. gen
         /\ safe.model <= disk.model /\ safe.pointer <= disk.pointer
         /\ disk.pointer <= safe.model
  BY DEF IInv, TypeOK, Ordered, Directories

\* Runs begin and end, or are killed, without touching the directory.
LEMMA RunsKeep ==
  ASSUME IInv, (\E c \in Configs : StartFresh(c)) \/ StartResume \/ End \/ Kill
  PROVE  IInv'
<1>1. /\ UNCHANGED <<gen, made, disk, safe, kept>>
      /\ pc' \in {"down", "training"}
      /\ config' \in Configs \cup {None}
      /\ (config' = None) = (pc' = "down")
  <2>1. ASSUME StartResume PROVE config' \in Configs
    BY <2>1 DEF StartResume, IInv, TypeOK, PeftAgree, Ordered, Directories
  <2> QED  BY <2>1 DEF StartFresh, StartResume, End, Kill
<1>2. TypeOK' /\ Progress'
  BY <1>1 DEF IInv, TypeOK, Progress
<1>3. Ordered' /\ PeftAgree' /\ PointerWhole' /\ KeptForever'
  BY <1>1 DEF IInv, Ordered, PeftAgree, PointerWhole, KeptForever, Whole
<1> QED  BY <1>2, <1>3 DEF IInv

LEMMA BeginSaveKeeps ==
  ASSUME IInv, BeginSave
  PROVE  IInv'
<1>0. /\ gen' = gen + 1 /\ gen' \in Gens /\ pc' = "write" /\ gen \in Nat
      /\ disk \in Directories
      /\ disk' = [disk EXCEPT !.generations = TRUE, !.place[gen'] = "stage"]
      /\ made \in [Gens -> Configs \cup {None}] /\ config \in Configs
      /\ made' = [made EXCEPT ![gen'] = config]
      /\ UNCHANGED <<config, safe, kept>>
  BY DEF BeginSave, IInv, TypeOK
<1>1. /\ disk' \in Directories
      /\ disk'.generations
      /\ \A g \in Gens : disk'.place[g] = IF g = gen' THEN "stage" ELSE disk.place[g]
      /\ disk'.files = disk.files /\ disk'.config = disk.config
      /\ disk'.model = disk.model /\ disk'.pointer = disk.pointer
      /\ made' \in [Gens -> Configs \cup {None}]
      /\ \A g \in Gens : made'[g] = IF g = gen' THEN config ELSE made[g]
  BY <1>0 DEF Directories
<1>2. TypeOK'
  BY <1>0, <1>1 DEF IInv, TypeOK
<1>3. Progress' /\ Ordered' /\ PeftAgree'
  BY <1>0, <1>1, Published DEF IInv, TypeOK, Progress, Ordered, PeftAgree
<1>4. PointerWhole' /\ KeptForever'
  BY <1>0, <1>1, Published DEF IInv, TypeOK, PointerWhole, KeptForever, Whole
<1> QED  BY <1>2, <1>3, <1>4 DEF IInv

LEMMA WriteKeeps ==
  ASSUME IInv, Write
  PROVE  IInv'
<1>0. /\ pc = "write" /\ pc' \in {"write", "sync"} /\ gen \in Gens
      /\ disk \in Directories /\ safe \in Directories
      /\ \/ disk' = [disk EXCEPT !.files[gen] = "some"] /\ pc' = "write"
         \/ disk' = [disk EXCEPT !.files[gen] = "all"]
      /\ UNCHANGED <<config, gen, made, safe, kept>>
  BY DEF Write, Shows, IInv, TypeOK
<1>1. /\ disk' \in Directories
      /\ \A g \in Gens \ {gen} : disk'.files[g] = disk.files[g]
      /\ pc' = "sync" => disk'.files[gen] = "all"
      /\ disk'.generations = disk.generations
      /\ disk'.place = disk.place
      /\ disk'.config = disk.config
      /\ disk'.model = disk.model
      /\ disk'.pointer = disk.pointer
  <2>1. CASE disk' = [disk EXCEPT !.files[gen] = "some"] /\ pc' = "write"
    BY <1>0, <2>1 DEF Directories, Extents
  <2>2. CASE disk' = [disk EXCEPT !.files[gen] = "all"]
    BY <1>0, <2>2 DEF Directories, Extents
  <2> QED  BY <1>0, <2>1, <2>2
<1>2. TypeOK'
  BY <1>0, <1>1 DEF IInv, TypeOK
<1>3. Progress' /\ Ordered' /\ PeftAgree'
  BY <1>0, <1>1, Published DEF IInv, TypeOK, Progress, Ordered, PeftAgree
<1>4. ASSUME NEW g \in Gens \ {gen}, Whole(disk, g) PROVE Whole(disk', g)
  BY <1>1, <1>4 DEF Whole
<1>5. disk.pointer < gen /\ safe.pointer < gen
  <2>1. disk.pointer < gen
    BY <1>0 DEF IInv, Progress, SaveSteps
  <2> QED  BY <2>1, Published
<1>6. KeptForever'
  <2> SUFFICES ASSUME NEW g \in kept
               PROVE  /\ Whole(disk', g) /\ Whole(safe, g)
                      /\ disk'.pointer >= g /\ safe.pointer >= g
    BY <1>0 DEF KeptForever
  <2>1. Whole(disk, g) /\ Whole(safe, g) /\ disk.pointer >= g /\ safe.pointer >= g
    BY DEF IInv, KeptForever
  <2>2. g \in Gens
    BY DEF IInv, TypeOK
  <2>3. g # gen
    BY <2>1, <2>2, <1>0, <1>5, Published DEF Gens
  <2> QED  BY <2>1, <2>2, <2>3, <1>1, <1>4
<1>7. PointerWhole'
  <2> SUFFICES ASSUME NEW d \in {disk, safe}, d.pointer # 0
               PROVE  Whole(disk', d.pointer) /\ Whole(safe, d.pointer)
    BY <1>0, <1>1 DEF PointerWhole
  <2>1. Whole(disk, d.pointer) /\ Whole(safe, d.pointer)
    BY DEF IInv, PointerWhole
  <2>2. d.pointer \in Gens \ {gen}
    BY <1>0, <1>5, Published DEF Directories, Gens
  <2> QED  BY <2>1, <2>2, <1>4
<1> QED  BY <1>2, <1>3, <1>6, <1>7 DEF IInv

LEMMA SyncStageKeeps ==
  ASSUME IInv, SyncStage
  PROVE  IInv'
<1>0. /\ pc = "sync" /\ pc' = "rename" /\ gen \in Gens
      /\ disk \in Directories /\ safe \in Directories
      /\ safe' = [safe EXCEPT !.files[gen] = disk.files[gen]]
      /\ UNCHANGED <<config, gen, made, disk, kept>>
  BY DEF SyncStage, Syncs, IInv, TypeOK
<1>1. /\ safe' \in Directories
      /\ \A g \in Gens : safe'.files[g] = IF g = gen THEN disk.files[g] ELSE safe.files[g]
      /\ safe'.generations = safe.generations
      /\ safe'.place = safe.place
      /\ safe'.config = safe.config
      /\ safe'.model = safe.model
      /\ safe'.pointer = safe.pointer
  BY <1>0 DEF Directories, Extents
<1>2. TypeOK'
  BY <1>0, <1>1 DEF IInv, TypeOK
<1>3. Progress' /\ Ordered' /\ PeftAgree'
  BY <1>0, <1>1, Published DEF IInv, TypeOK, Progress, Ordered, PeftAgree
<1>4. PointerWhole' /\ KeptForever'
  BY <1>0, <1>1 DEF IInv, TypeOK, Progress, PointerWhole, KeptForever, Whole
<1> QED  BY <1>2, <1>3, <1>4 DEF IInv

LEMMA RenameKeeps ==
  ASSUME IInv, Rename
  PROVE  IInv'
<1>0. /\ pc = "rename" /\ pc' = "sync_generations" /\ gen \in Gens
      /\ disk \in Directories /\ safe \in Directories
      /\ disk' = [disk EXCEPT !.place[gen] = "final"]
      /\ UNCHANGED <<config, gen, made, safe, kept>>
  BY DEF Rename, Shows, IInv, TypeOK
<1>1. /\ disk' \in Directories
      /\ \A g \in Gens : disk'.place[g] = IF g = gen THEN "final" ELSE disk.place[g]
      /\ disk'.generations = disk.generations
      /\ disk'.files = disk.files
      /\ disk'.config = disk.config
      /\ disk'.model = disk.model
      /\ disk'.pointer = disk.pointer
  BY <1>0 DEF Directories, Extents
<1>2. TypeOK'
  BY <1>0, <1>1 DEF IInv, TypeOK
<1>3. Progress' /\ Ordered' /\ PeftAgree'
  BY <1>0, <1>1, Published DEF IInv, TypeOK, Progress, Ordered, PeftAgree
<1>4. PointerWhole' /\ KeptForever'
  BY <1>0, <1>1 DEF IInv, TypeOK, Progress, PointerWhole, KeptForever, Whole
<1> QED  BY <1>2, <1>3, <1>4 DEF IInv

LEMMA SyncGenerationsKeeps ==
  ASSUME IInv, SyncGenerations
  PROVE  IInv'
<1>0. /\ pc = "sync_generations" /\ pc' = "config" /\ gen \in Gens
      /\ disk \in Directories /\ safe \in Directories
      /\ safe' = [safe EXCEPT !.place = disk.place]
      /\ UNCHANGED <<config, gen, made, disk, kept>>
  BY DEF SyncGenerations, Syncs, IInv, TypeOK
<1>1. /\ safe' \in Directories
      /\ safe'.place = disk.place
      /\ safe'.generations = safe.generations
      /\ safe'.files = safe.files
      /\ safe'.config = safe.config
      /\ safe'.model = safe.model
      /\ safe'.pointer = safe.pointer
  BY <1>0 DEF Directories, Extents
<1>2. TypeOK'
  BY <1>0, <1>1 DEF IInv, TypeOK
<1>3. Progress' /\ Ordered' /\ PeftAgree'
  BY <1>0, <1>1, Published DEF IInv, TypeOK, Progress, Ordered, PeftAgree
<1>4. PointerWhole' /\ KeptForever'
  BY <1>0, <1>1 DEF IInv, TypeOK, Progress, PointerWhole, KeptForever, Whole
<1> QED  BY <1>2, <1>3, <1>4 DEF IInv

LEMMA PublishConfigKeeps ==
  ASSUME IInv, PublishConfig
  PROVE  IInv'
<1>0. /\ pc = "config" /\ pc' = "model" /\ gen \in Gens
      /\ disk \in Directories /\ safe \in Directories
      /\ config \in Configs /\ disk.config \in {None, config}
      /\ disk.model # 0 => disk.config # None
      /\ disk' = [disk EXCEPT !.config = config]
      /\ UNCHANGED <<config, gen, made, safe, kept>>
  BY DEF PublishConfig, Shows, IInv, TypeOK
<1>1. /\ disk' \in Directories
      /\ disk'.config = config
      /\ disk'.generations = disk.generations
      /\ disk'.place = disk.place
      /\ disk'.files = disk.files
      /\ disk'.model = disk.model
      /\ disk'.pointer = disk.pointer
  BY <1>0 DEF Directories, Extents
<1>2. TypeOK'
  BY <1>0, <1>1 DEF IInv, TypeOK
<1>3. Progress' /\ Ordered' /\ PeftAgree'
  BY <1>0, <1>1, Published DEF IInv, TypeOK, Progress, Ordered, PeftAgree
<1>4. PointerWhole' /\ KeptForever'
  BY <1>0, <1>1 DEF IInv, TypeOK, Progress, PointerWhole, KeptForever, Whole
<1> QED  BY <1>2, <1>3, <1>4 DEF IInv

LEMMA PublishModelKeeps ==
  ASSUME IInv, PublishModel
  PROVE  IInv'
<1>0. /\ pc = "model" /\ pc' = "sync_root" /\ gen \in Gens
      /\ disk \in Directories /\ safe \in Directories
      /\ disk' = [disk EXCEPT !.model = gen] /\ gen \in 0 .. Saves
      /\ UNCHANGED <<config, gen, made, safe, kept>>
  BY DEF PublishModel, Shows, IInv, TypeOK
<1>1. /\ disk' \in Directories
      /\ disk'.model = gen
      /\ disk'.generations = disk.generations
      /\ disk'.place = disk.place
      /\ disk'.files = disk.files
      /\ disk'.config = disk.config
      /\ disk'.pointer = disk.pointer
  BY <1>0 DEF Directories, Extents
<1>2. TypeOK'
  BY <1>0, <1>1 DEF IInv, TypeOK
<1>3. Progress' /\ Ordered' /\ PeftAgree'
  BY <1>0, <1>1, Published DEF IInv, TypeOK, Progress, Ordered, PeftAgree
<1>4. PointerWhole' /\ KeptForever'
  BY <1>0, <1>1 DEF IInv, TypeOK, Progress, PointerWhole, KeptForever, Whole
<1> QED  BY <1>2, <1>3, <1>4 DEF IInv

LEMMA SyncRootKeeps ==
  ASSUME IInv, SyncRoot
  PROVE  IInv'
<1>0. /\ pc = "sync_root" /\ pc' = "pointer" /\ gen \in Gens
      /\ disk \in Directories /\ safe \in Directories
      /\ safe' = [safe EXCEPT !.generations = disk.generations, !.config = disk.config,
                              !.model = disk.model, !.pointer = disk.pointer]
      /\ UNCHANGED <<config, gen, made, disk, kept>>
  BY DEF SyncRoot, Syncs, SyncedRoot, IInv, TypeOK
<1>1. /\ safe' \in Directories
      /\ safe'.generations = disk.generations
      /\ safe'.config = disk.config
      /\ safe'.model = disk.model
      /\ safe'.pointer = disk.pointer
      /\ safe'.place = safe.place
      /\ safe'.files = safe.files
  BY <1>0 DEF Directories, Extents
<1>2. TypeOK'
  BY <1>0, <1>1 DEF IInv, TypeOK
<1>3. Progress' /\ Ordered' /\ PeftAgree'
  BY <1>0, <1>1, Published DEF IInv, TypeOK, Progress, Ordered, PeftAgree
<1>4. PointerWhole' /\ KeptForever'
  BY <1>0, <1>1 DEF IInv, TypeOK, Progress, PointerWhole, KeptForever, Whole
<1> QED  BY <1>2, <1>3, <1>4 DEF IInv

LEMMA PublishPointerKeeps ==
  ASSUME IInv, PublishPointer
  PROVE  IInv'
<1>0. /\ pc = "pointer" /\ pc' = "sync_pointer" /\ gen \in Gens
      /\ disk \in Directories /\ safe \in Directories
      /\ disk' = [disk EXCEPT !.pointer = gen] /\ gen \in 0 .. Saves
      /\ UNCHANGED <<config, gen, made, safe, kept>>
  BY DEF PublishPointer, Shows, IInv, TypeOK
<1>1. /\ disk' \in Directories
      /\ disk'.pointer = gen
      /\ disk'.generations = disk.generations
      /\ disk'.place = disk.place
      /\ disk'.files = disk.files
      /\ disk'.config = disk.config
      /\ disk'.model = disk.model
  BY <1>0 DEF Directories, Extents
<1>2. TypeOK'
  BY <1>0, <1>1 DEF IInv, TypeOK
<1>3. Progress' /\ Ordered' /\ PeftAgree'
  BY <1>0, <1>1, Published DEF IInv, TypeOK, Progress, Ordered, PeftAgree
<1>4. PointerWhole' /\ KeptForever'
  BY <1>0, <1>1 DEF IInv, TypeOK, Progress, PointerWhole, KeptForever, Whole
<1> QED  BY <1>2, <1>3, <1>4 DEF IInv

LEMMA SyncPointerKeeps ==
  ASSUME IInv, SyncPointer
  PROVE  IInv'
<1>0. /\ pc = "sync_pointer" /\ pc' = "training" /\ gen \in Gens
      /\ disk \in Directories /\ safe \in Directories
      /\ kept' = kept \cup {gen}
      /\ safe' = [safe EXCEPT !.generations = disk.generations, !.config = disk.config,
                              !.model = disk.model, !.pointer = disk.pointer]
      /\ UNCHANGED <<config, gen, made, disk>>
  BY DEF SyncPointer, Syncs, SyncedRoot, IInv, TypeOK
<1>1. /\ safe' \in Directories
      /\ safe'.generations = disk.generations
      /\ safe'.config = disk.config
      /\ safe'.model = disk.model
      /\ safe'.pointer = disk.pointer
      /\ safe'.place = safe.place
      /\ safe'.files = safe.files
  BY <1>0 DEF Directories, Extents
<1>2. TypeOK'
  BY <1>0, <1>1 DEF IInv, TypeOK
<1>3. Progress' /\ Ordered' /\ PeftAgree'
  BY <1>0, <1>1, Published DEF IInv, TypeOK, Progress, Ordered, PeftAgree
<1>4. PointerWhole' /\ KeptForever'
  BY <1>0, <1>1 DEF IInv, TypeOK, Progress, PointerWhole, KeptForever, Whole
<1> QED  BY <1>2, <1>3, <1>4 DEF IInv

\* Until the rename the staging directory is discarded, and no pointer names it.
LEMMA FailKeeps ==
  ASSUME IInv, Fail
  PROVE  IInv'
<1>0. /\ pc \in SaveSteps /\ pc' = "down" /\ config' = None /\ gen \in Gens
      /\ disk \in Directories /\ safe \in Directories
      /\ disk' = IF pc \in {"write", "sync", "rename"}
                 THEN [disk EXCEPT !.place[gen] = "none", !.files[gen] = "none"] ELSE disk
      /\ UNCHANGED <<gen, made, safe, kept>>
  BY DEF Fail, IInv, TypeOK
<1>1. /\ disk' \in Directories
      /\ \A g \in Gens : g # gen \/ pc \notin {"write", "sync", "rename"}
            => disk'.place[g] = disk.place[g] /\ disk'.files[g] = disk.files[g]
      /\ disk'.generations = disk.generations
      /\ disk'.config = disk.config
      /\ disk'.model = disk.model
      /\ disk'.pointer = disk.pointer
  <2>1. CASE pc \in {"write", "sync", "rename"}
    BY <1>0, <2>1 DEF Directories, Extents
  <2>2. CASE pc \notin {"write", "sync", "rename"}
    BY <1>0, <2>2
  <2> QED  BY <2>1, <2>2
<1>2. TypeOK'
  BY <1>0, <1>1 DEF IInv, TypeOK
<1>3. Progress' /\ Ordered' /\ PeftAgree'
  BY <1>0, <1>1, Published DEF IInv, TypeOK, Progress, Ordered, PeftAgree
<1>4. PointerWhole' /\ KeptForever'
  BY <1>0, <1>1, Published DEF IInv, TypeOK, Progress, PointerWhole, KeptForever, Whole
<1> QED  BY <1>2, <1>3, <1>4 DEF IInv

\* Whatever is lost, each entry is what the file system showed or what was
\* durable, and a generation that was whole both ways is whole after it.
LEMMA PowerLossKeeps ==
  ASSUME IInv, PowerLoss
  PROVE  IInv'
<1>0. /\ pc' = "down" /\ config' = None /\ safe' = disk'
      /\ disk \in Directories /\ safe \in Directories
      /\ UNCHANGED <<gen, made, kept>>
  BY DEF PowerLoss, IInv, TypeOK
<1>1. PICK keeps \in BOOLEAN, cf \in {safe.config, disk.config},
           m \in {safe.model, disk.model}, pt \in {safe.pointer, disk.pointer},
           named \in SUBSET {g \in Gens : disk.place[g] # safe.place[g]},
           filled \in SUBSET {g \in Gens : disk.files[g] # safe.files[g]} :
        LET dirs == IF keeps THEN disk.generations ELSE safe.generations
            place == [g \in Gens |-> IF ~dirs THEN "none"
                                     ELSE IF g \in named THEN disk.place[g] ELSE safe.place[g]]
        IN  disk' = [generations |-> dirs,
                     place |-> place,
                     files |-> [g \in Gens |-> IF place[g] = "none" THEN "none"
                                               ELSE IF g \in filled THEN disk.files[g]
                                               ELSE safe.files[g]],
                     config |-> cf, model |-> m, pointer |-> pt]
  BY DEF PowerLoss
<1> DEFINE dirs == IF keeps THEN disk.generations ELSE safe.generations
           place == [g \in Gens |-> IF ~dirs THEN "none"
                                    ELSE IF g \in named THEN disk.place[g] ELSE safe.place[g]]
           files == [g \in Gens |-> IF place[g] = "none" THEN "none"
                                    ELSE IF g \in filled THEN disk.files[g]
                                    ELSE safe.files[g]]
<1>2. /\ disk'.generations = dirs /\ disk'.place = place /\ disk'.files = files
      /\ disk'.config = cf /\ disk'.model = m /\ disk'.pointer = pt
  BY <1>1
<1>3. /\ dirs \in BOOLEAN
      /\ place \in [Gens -> {"none", "stage", "final"}]
      /\ files \in [Gens -> Extents]
      /\ cf \in Configs \cup {None} /\ m \in 0 .. Saves /\ pt \in 0 .. Saves
  BY <1>0 DEF Directories, Extents
<1>4. disk' \in Directories
  BY <1>1, <1>3 DEF Directories
<1>5. ASSUME NEW g \in Gens, Whole(disk, g), Whole(safe, g)
      PROVE  Whole(disk, g)'
  <2>1. dirs /\ place[g] = "final" /\ files[g] = "all"
    BY <1>5 DEF Whole
  <2> QED  BY <2>1, <1>2 DEF Whole
<1> HIDE DEF dirs, place, files
<1>6. TypeOK'
  BY <1>0, <1>4 DEF IInv, TypeOK
<1>7. Progress' /\ Ordered'
  BY <1>0, <1>2, Published DEF IInv, TypeOK, Progress, Ordered
<1>8. PeftAgree'
  BY <1>0, <1>2, Published DEF IInv, TypeOK, PeftAgree
<1>9. PointerWhole'
  <2> SUFFICES ASSUME pt # 0 PROVE Whole(disk, pt)'
      BY <1>0, <1>2 DEF PointerWhole, Whole
  <2>1. Whole(disk, pt) /\ Whole(safe, pt) /\ pt \in Gens
    BY <1>3 DEF IInv, PointerWhole
  <2> QED  BY <1>5, <2>1
<1>10. KeptForever'
  <2> SUFFICES ASSUME NEW g \in kept PROVE Whole(disk, g)' /\ pt >= g
      BY <1>0, <1>2 DEF KeptForever, Whole
  <2>1. g \in Gens
    BY DEF IInv, TypeOK
  <2> QED  BY <1>5, <2>1 DEF IInv, KeptForever
<1> QED  BY <1>6, <1>7, <1>8, <1>9, <1>10 DEF IInv

LEMMA StepKeeps == IInv /\ [Next]_vars => IInv'
<1> SUFFICES ASSUME IInv, [Next]_vars PROVE IInv'
    OBVIOUS
<1>1. CASE (\E c \in Configs : StartFresh(c)) \/ StartResume \/ End \/ Kill
  BY <1>1, RunsKeep
<1>2. CASE BeginSave  BY <1>2, BeginSaveKeeps
<1>3. CASE Write  BY <1>3, WriteKeeps
<1>4. CASE SyncStage  BY <1>4, SyncStageKeeps
<1>5. CASE Rename  BY <1>5, RenameKeeps
<1>6. CASE SyncGenerations  BY <1>6, SyncGenerationsKeeps
<1>7. CASE PublishConfig  BY <1>7, PublishConfigKeeps
<1>8. CASE PublishModel  BY <1>8, PublishModelKeeps
<1>9. CASE SyncRoot  BY <1>9, SyncRootKeeps
<1>10. CASE PublishPointer  BY <1>10, PublishPointerKeeps
<1>11. CASE SyncPointer  BY <1>11, SyncPointerKeeps
<1>12. CASE Fail  BY <1>12, FailKeeps
<1>13. CASE PowerLoss  BY <1>13, PowerLossKeeps
<1>14. CASE UNCHANGED vars
  BY <1>14 DEF vars, IInv, TypeOK, Progress, Ordered, PeftAgree, PointerWhole, KeptForever, Whole
<1> QED
  BY <1>1, <1>2, <1>3, <1>4, <1>5, <1>6, <1>7, <1>8, <1>9, <1>10, <1>11, <1>12, <1>13, <1>14
     DEF Next

-----------------------------------------------------------------------------

\* For any number of saves and configurations, what a save has made durable
\* by each step and the order of the root's files hold in every reachable
\* state, and every variable stays in its range.
THEOREM CheckpointInvariant == Spec => []IInv
  BY InitEstablishes, StepKeeps, PTL DEF Spec

\* For any number of saves, kills and power losses: checkpoint.current never
\* names a generation a resume would reject; a generation whose save returned
\* true is there for good, and no pointer goes back behind it; and the PEFT
\* files at the root fit each other and are not behind the pointer.
THEOREM CheckpointSafety == Spec => [](PointerWhole /\ KeptForever /\ PeftConsistent)
<1>1. IInv => PointerWhole /\ KeptForever
  BY DEF IInv
<1>2. IInv => PeftConsistent
  <2> SUFFICES ASSUME IInv PROVE PeftConsistent
      OBVIOUS
  <2> QED  BY Published DEF IInv, PeftAgree, PeftConsistent
<1> QED  BY <1>1, <1>2, CheckpointInvariant, PTL

-----------------------------------------------------------------------------
(* Checkpoint implements CheckpointStore.                                    *)

\* What a pointer leads to is whole, now and after a power loss.
LEMMA FoundIsPointer ==
  ASSUME PointerWhole
  PROVE  Found(disk) = disk.pointer /\ Found(safe) = safe.pointer
  BY DEF PointerWhole, Found

\* The store that a state stands for, with its pointers.
LEMMA StoreStays ==
  ASSUME IInv, IInv', pc \notin SaveSteps, pc' \notin SaveSteps,
         gen' = gen, kept' = kept, disk' = disk, safe' = safe
  PROVE  UNCHANGED Store!vars
  BY DEF Store!vars

LEMMA InitStores == Init => Store!Init
  BY DEF Init, Store!Init, Empty, Found

\* A step of the run, of a save, or of what cuts it off is a step of the store.
LEMMA StepStores ==
  ASSUME IInv, IInv', [Next]_vars
  PROVE  [Store!Next]_(Store!vars)
<1>1. /\ Found(disk) = disk.pointer /\ Found(safe) = safe.pointer
      /\ Found(disk)' = disk'.pointer /\ Found(safe)' = safe'.pointer
  <2>1. PointerWhole /\ PointerWhole'
    BY DEF IInv
  <2>2. Found(disk)' = disk'.pointer /\ Found(safe)' = safe'.pointer
    BY <2>1 DEF PointerWhole, Found
  <2> QED
    BY <2>1, <2>2, FoundIsPointer
<1>2. /\ disk \in Directories /\ safe \in Directories /\ gen \in Nat
      /\ pc \in SaveSteps => gen # 0
  BY DEF IInv, TypeOK
<1>3. CASE (\E c \in Configs : StartFresh(c)) \/ StartResume \/ End
  <2>1. UNCHANGED <<gen, made, disk, safe, kept>> /\ pc \notin SaveSteps /\ pc' \notin SaveSteps
    BY <1>3 DEF StartFresh, StartResume, End
  <2> QED
    BY <2>1, StoreStays
<1>4. CASE BeginSave
  <2>1. /\ gen' = gen + 1 /\ pc \notin SaveSteps /\ pc' \in SaveSteps
        /\ disk'.pointer = disk.pointer /\ safe' = safe /\ kept' = kept
    BY <1>4, <1>2 DEF BeginSave, Directories
  <2>2. Store!BeginSave
    BY <2>1, <1>1 DEF Store!BeginSave
  <2> QED
    BY <2>2 DEF Store!Next
<1>5. CASE Write \/ Rename \/ PublishConfig \/ PublishModel
  <2>1. /\ gen' = gen /\ pc \in SaveSteps /\ pc' \in SaveSteps
        /\ disk'.pointer = disk.pointer /\ safe' = safe /\ kept' = kept
    BY <1>5, <1>2 DEF Write, Rename, PublishConfig, PublishModel, Shows, Directories
  <2> QED
    BY <2>1, <1>1 DEF Store!vars
<1>6. CASE SyncStage \/ SyncGenerations
  <2>1. /\ gen' = gen /\ pc \in SaveSteps /\ pc' \in SaveSteps
        /\ disk' = disk /\ safe'.pointer = safe.pointer /\ kept' = kept
    BY <1>6, <1>2 DEF SyncStage, SyncGenerations, Syncs, Directories
  <2> QED
    BY <2>1, <1>1 DEF Store!vars
<1>7. CASE SyncRoot
  <2>1. /\ gen' = gen /\ pc \in SaveSteps /\ pc' \in SaveSteps
        /\ disk' = disk /\ safe'.pointer = disk.pointer /\ kept' = kept
    BY <1>7, <1>2 DEF SyncRoot, Syncs, SyncedRoot, Directories
  <2>2. Store!Secure
    BY <2>1, <1>1 DEF Store!Secure
  <2> QED
    BY <2>2 DEF Store!Next
<1>8. CASE PublishPointer
  <2>1. /\ gen' = gen /\ pc \in SaveSteps /\ pc' \in SaveSteps
        /\ disk'.pointer = gen /\ safe' = safe /\ kept' = kept
    BY <1>8, <1>2 DEF PublishPointer, Shows, Directories
  <2>2. Store!Publish
    BY <2>1, <1>1, <1>2 DEF Store!Publish
  <2> QED
    BY <2>2 DEF Store!Next
<1>9. CASE SyncPointer
  <2>1. /\ gen' = gen /\ pc = "sync_pointer" /\ pc' = "training"
        /\ disk' = disk /\ safe'.pointer = disk.pointer /\ kept' = kept \cup {gen}
    BY <1>9, <1>2 DEF SyncPointer, Syncs, SyncedRoot, Directories
  <2>2. disk.pointer = gen
    BY <2>1 DEF IInv, Progress
  <2>3. Store!Return
    BY <2>1, <2>2, <1>1, <1>2 DEF Store!Return
  <2> QED
    BY <2>3 DEF Store!Next
<1>10. CASE Fail
  <2>1. /\ gen' = gen /\ pc \in SaveSteps /\ pc' = "down"
        /\ disk'.pointer = disk.pointer /\ safe' = safe /\ kept' = kept
    BY <1>10, <1>2 DEF Fail, Directories
  <2>2. Store!GiveUp
    BY <2>1, <1>1, <1>2 DEF Store!GiveUp
  <2> QED
    BY <2>2 DEF Store!Next
<1>11. CASE Kill
  <2>1. /\ pc' = "down" /\ UNCHANGED <<gen, made, disk, safe, kept>>
    BY <1>11 DEF Kill
  <2>2. CASE pc \in SaveSteps
    <3>1. Store!GiveUp
      BY <2>1, <2>2, <1>1, <1>2 DEF Store!GiveUp
    <3> QED
      BY <3>1 DEF Store!Next
  <2>3. CASE pc \notin SaveSteps
    BY <2>1, <2>3, StoreStays
  <2> QED
    BY <2>2, <2>3
<1>12. CASE PowerLoss
  <2>1. /\ gen' = gen /\ pc' = "down" /\ kept' = kept /\ safe' = disk'
        /\ disk'.pointer \in {disk.pointer, safe.pointer}
    BY <1>12 DEF PowerLoss
  <2>2. Store!PowerLoss
    BY <2>1, <1>1 DEF Store!PowerLoss
  <2> QED
    BY <2>2 DEF Store!Next
<1>13. CASE UNCHANGED vars
  BY <1>1, <1>13 DEF vars, Store!vars
<1> QED
  BY <1>3, <1>4, <1>5, <1>6, <1>7, <1>8, <1>9, <1>10, <1>11, <1>12, <1>13 DEF Next

\* For any number of saves, kills and power losses: a checkpoint is found as a
\* whole or not at all, a save that is cut off has published its own or not,
\* and what a save returned for is not taken back.
THEOREM SavesAreAtomic == Spec => SavesAtomically
<1> QED  BY InitStores, StepStores, CheckpointInvariant, PTL DEF Spec, SavesAtomically, Store!Spec
=============================================================================
