---------------------------- MODULE MCCheckpoint ----------------------------
EXTENDS Checkpoint
=============================================================================
