---------------------------- MODULE TrainHistory ----------------------------
(***************************************************************************)
(* src/train-history.h: metrics.jsonl, to which every session of a         *)
(* training job adds a row for each update it makes.  A row is written as  *)
(* a whole unless its writer is killed or fails in it; a row that is begun *)
(* behind such a piece is one unreadable line with it.                     *)
(***************************************************************************)
EXTENDS Integers, SequencesExt

VARIABLES
    journal,  \* the lines, the last of them perhaps without its end
    session,  \* the current session, numbered
    start     \* start_update of it

historyVars == <<journal, session, start>>

Piece == [whole |-> FALSE]
EndsTorn == journal # <<>> /\ ~Last(journal).whole

HistoryInit == journal = <<>> /\ session = 0 /\ start = 0

\* Slip: the tail is left as it is.
OpenAsIs(step) ==
    /\ session' = session + 1 /\ start' = step
    /\ UNCHANGED journal

\* open: what a killed writer left of a row is cut off.
Open(step) ==
    /\ journal' = IF EndsTorn THEN Front(journal) ELSE journal
    /\ session' = session + 1 /\ start' = step

Added(line) == IF EndsTorn THEN journal ELSE Append(journal, line)

Row(update, of) ==
    [whole |-> TRUE, session |-> session, start |-> start, update |-> update, of |-> of]

\* append, which flushes; of is what the loss and the counts of the row are of.
AppendRow(update, of) ==
    /\ update > start
    /\ journal' = Added(Row(update, of))
    /\ UNCHANGED <<session, start>>

\* A writer that is killed, or whose disk is full, within append.
AppendCut(update, of) ==
    /\ journal' \in {journal, Added(Piece), Added(Row(update, of))}
    /\ UNCHANGED <<session, start>>

-----------------------------------------------------------------------------
\* What a reader finds: the lines that are rows of an update, and those of the
\* rows of this session.
RowsOf(u) == {l \in DOMAIN journal : journal[l].whole /\ journal[l].update = u}
RowsHere == {l \in DOMAIN journal : journal[l].whole /\ journal[l].session = session}
=============================================================================
