------------------------------- MODULE LmModel -------------------------------
(***************************************************************************)
(* The causal LM of src/qwen3-lm.h as a value and the calls on it: its KV   *)
(* sets, the batched decode graph it keeps from step to step, and the       *)
(* scheduler that this graph may share with every prefill                   *)
(* (src/static-graph.h).                                                    *)
(*                                                                         *)
(* A row of a set is whatever was fed at that position.  What lies behind   *)
(* the position of a set that is reset is all called Junk: it is finite and *)
(* masked, and nothing tells one such row from another.  The matrices, the  *)
(* logits and the arenas are left out.                                      *)
(***************************************************************************)
EXTENDS Integers, Sequences, SequencesExt

CONSTANTS
    KvSets,     \* n_kv_sets: 2 * max_batch
    MaxSeq,     \* max_seq_len: the rows of a set
    Window      \* the attention window grows in steps of this (256)

ASSUME LmAssumption == {KvSets, MaxSeq, Window} \subseteq Nat \ {0}

Junk == <<"junk">>
NoGraph == [built |-> FALSE, key |-> <<>>, direct |-> FALSE]

\* ran is what the last batched forward computed: the shape it was called with
\* and the graph it used, with the owner of the scheduler's memory at the time.
NoRun == [shape |-> <<>>, key |-> <<>>, own |-> TRUE]

\* A model that was just loaded.
LoadedLm ==
    [kv |-> [s \in 1 .. KvSets |-> <<>>], pos |-> [s \in 1 .. KvSets |-> 0],
     graph |-> NoGraph, sched |-> "nothing", ran |-> NoRun, exited |-> FALSE]

ResetKv(m, s) == [m EXCEPT !.pos[s] = 0, !.kv[s] = <<>>]

CopyKv(m, from, to) == [m EXCEPT !.pos[to] = m.pos[from], !.kv[to] = m.kv[from]]

\* Rows x from row r on of a set.
WrittenRows(set, r, x) ==
    [j \in 1 .. IF Len(set) > r + Len(x) - 1 THEN Len(set) ELSE r + Len(x) - 1 |->
        IF j \in r .. r + Len(x) - 1 THEN x[j - r + 1]
        ELSE IF j <= Len(set) THEN set[j] ELSE Junk]

\* static_graph_release: only a graph that lives in the scheduler's memory is
\* given up by a prefill.
Released(m) ==
    IF m.graph.built /\ ~m.graph.direct
    THEN [m EXCEPT !.graph = NoGraph, !.sched = "nothing"] ELSE m

\* qw3lm_forward: a prompt into one set.  One that does not fit is dropped
\* without a word to the caller, who reads the logits of nothing.
Forward(m, s, rows) ==
    LET r == Released(m)
    IN  IF m.pos[s] + Len(rows) > MaxSeq THEN r
        ELSE [r EXCEPT !.kv[s] = WrittenRows(@, m.pos[s] + 1, rows),
                       !.pos[s] = @ + Len(rows),
                       !.sched = "prefill"]

\* The rows of a set that attention reads.
RowsOf(m, s) == SubSeq(WrittenRows(m.kv[s], m.pos[s] + 1, <<>>), 1, m.pos[s])

Padded(n) ==
    LET up == ((n + Window - 1) \div Window) * Window IN IF up < MaxSeq THEN up ELSE MaxSeq

\* What the graph of a batched forward depends on.
Key(window, n, s0, head) == <<window, n, s0, head>>

\* qw3lm_forward_batch: one token for each of the sets, in one graph.  The
\* graph is built once for each key, in memory of its own when the backend
\* takes all of it (direct), else in the scheduler's.  It reaches the cache
\* through a window of as many sets as there are tokens, from the first one
\* on; rows and positions are those of the sets that were named.
ForwardBatch(m, sets, toks, head, direct) ==
    LET n == Len(sets)
        rows == [i \in 1 .. n |-> m.pos[sets[i]] + 1]
        longest == rows[CHOOSE i \in 1 .. n : \A j \in 1 .. n : rows[j] <= rows[i]]
        shape == <<Padded(longest), n, sets[1], head>>
        key == Key(shape[1], shape[2], shape[3], shape[4])
        builds == ~m.graph.built \/ m.graph.key # key
        graph == IF builds THEN [built |-> TRUE, key |-> key, direct |-> direct] ELSE m.graph
        sched == IF ~builds THEN m.sched
                 ELSE IF direct THEN Released(m).sched ELSE "batch"
        target(s) == s - sets[1] + 1
        feed(s) == s \in sets[1] .. sets[1] + n - 1
    IN  IF longest > MaxSeq THEN [m EXCEPT !.exited = TRUE]
        ELSE [m EXCEPT
                !.kv = [s \in DOMAIN m.kv |->
                           IF feed(s) THEN WrittenRows(m.kv[s], rows[target(s)], <<toks[target(s)]>>)
                           ELSE m.kv[s]],
                !.pos = [s \in DOMAIN m.pos |-> m.pos[s] + IF s \in ToSet(sets) THEN 1 ELSE 0],
                !.graph = graph,
                !.sched = sched,
                !.ran = [shape |-> shape, key |-> graph.key,
                         own |-> graph.direct \/ sched = "batch"]]
=============================================================================
