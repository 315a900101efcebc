--------------------------- MODULE CheckpointStore ---------------------------
(***************************************************************************)
(* What the trainer's saves promise a run that resumes, without files,     *)
(* renames or syncs: a checkpoint is found as a whole or not at all; a     *)
(* save that fails or is cut off may have published its checkpoint or not; *)
(* a power loss may take back what was published since the last sync, but  *)
(* never what a save returned for.  Checkpoint implements it, and TrainRun *)
(* makes a save one step because of it.                                    *)
(***************************************************************************)
EXTENDS Naturals

VARIABLES
    begun,    \* how many saves were begun
    saving,   \* the save that is running, 0 if none is
    found,    \* the checkpoint that a resume finds, 0 if none
    sure,     \* the one it finds if all goes that can go in a power loss
    returned  \* the saves that returned true

vars == <<begun, saving, found, sure, returned>>

Init ==
    /\ begun = 0 /\ saving = 0
    /\ found = 0 /\ sure = 0
    /\ returned = {}

BeginSave ==
    /\ saving = 0
    /\ begun' = begun + 1
    /\ saving' = begun + 1
    /\ UNCHANGED <<found, sure, returned>>

Publish ==
    /\ saving # 0
    /\ found' = saving
    /\ UNCHANGED <<begun, saving, sure, returned>>

\* The present checkpoint becomes durable.
Secure ==
    /\ sure' = found
    /\ UNCHANGED <<begun, saving, found, returned>>

Return ==
    /\ saving # 0 /\ found = saving
    /\ sure' = found
    /\ returned' = returned \cup {saving}
    /\ saving' = 0
    /\ UNCHANGED <<begun, found>>

\* A save fails or its process is killed.
GiveUp ==
    /\ saving # 0
    /\ saving' = 0
    /\ UNCHANGED <<begun, found, sure, returned>>

PowerLoss ==
    /\ found' \in {found, sure}
    /\ sure' = found'
    /\ saving' = 0
    /\ UNCHANGED <<begun, returned>>

Next == BeginSave \/ Publish \/ Secure \/ Return \/ GiveUp \/ PowerLoss

Spec == Init /\ [][Next]_vars
=============================================================================
