-------------------------- MODULE PreprocessCache --------------------------
(***************************************************************************)
(* src/train-preprocess-cache.h and preprocess_dataset of                  *)
(* tools/ace-train.cpp: the prepared examples of a trainer, one file each  *)
(* in a directory that it may share with other trainers, prepared in       *)
(* chunks before the training and read through a bounded LRU during it.    *)
(* An example is what it was made of (its identity), the seed of its       *)
(* posterior, and the sizes of its latents and of its conditioning.        *)
(***************************************************************************)
EXTENDS Integers, SequencesExt

CONSTANTS N,            \* the dataset's examples, 0 to N - 1
          Seed,         \* command.seed
          Length,       \* of each example's conditioning
          Frames,       \* of each example's latents
          Name,         \* ace_cache_name of each example's identity, a hash
          ChunkSize,    \* command.preprocess_batch_size
          MemoryLimit,  \* memory_limit
          MaxOthers     \* bound: what others do to the files

Examples == 0 .. N - 1

ASSUME CacheAssumption ==
    /\ N \in Nat \ {0} /\ ChunkSize \in Nat \ {0} /\ MemoryLimit \in Nat /\ Seed \in Nat
    /\ Length \in [Examples -> Nat \ {0}] /\ Frames \in [Examples -> Nat \ {0}]
    /\ DOMAIN Name = Examples

VARIABLES
    files,    \* the directory: what is under each name
    others,   \* bound: how often others changed it
    next,     \* the next example to prepare
    missed,   \* its chunk has a miss, and is prepared anew
    longest,  \* max_encoder_length
    lru,      \* the examples kept in memory, the latest used first
    resident  \* the bytes counted for them

cacheVars == <<files, others, next, missed, longest, lru, resident>>

\* prepare_cache_identities: all that the tensors depend on.
Identity(i) == [source |-> i, seed |-> Seed + i]

\* The chunk of example i: its first, and where the next one begins.
First(i) == (i \div ChunkSize) * ChunkSize
Until(i) == IF First(i) + ChunkSize < N THEN First(i) + ChunkSize ELSE N
Chunk(i) == First(i) .. Until(i) - 1

\* Slip: every chunk begins again with the first seed.
MadeAlone(i) ==
    [whole |-> TRUE, identity |-> Identity(i), seed |-> Seed + (i % ChunkSize),
     length |-> Length[i], frames |-> Frames[i]]

\* What ace_prepare_training_dataset makes of an example, counting from the
\* seed given for the first of its chunk.
Made(i) ==
    [whole |-> TRUE, identity |-> Identity(i),
     seed |-> (Seed + First(i)) + (i - First(i)),
     length |-> Length[i], frames |-> Frames[i]]

\* No file, or one that is cut or damaged, which its checksum tells; and one of
\* another dataset, whose name happens to be the same.
NoEntry == [whole |-> FALSE]
OfOther == [whole |-> TRUE, identity |-> [source |-> -1, seed |-> 0], seed |-> 0, length |-> 1, frames |-> 1]

Names == {Name[i] : i \in Examples}
EntriesAt(n) == {NoEntry, OfOther} \cup {Made(i) : i \in {j \in Examples : Name[j] = n}}

CacheInit ==
    /\ files \in {f \in [Names -> UNION {EntriesAt(n) : n \in Names}] :
                     \A n \in Names : f[n] \in EntriesAt(n)}
    /\ others = 0 /\ next = 0 /\ missed = FALSE /\ longest = 0
    /\ lru = <<>> /\ resident = 0

-----------------------------------------------------------------------------
(* Before the training.                                                      *)

\* A trainer's process starts with nothing in memory.
BeginPrepare ==
    /\ next' = 0 /\ missed' = FALSE /\ longest' = 0 /\ lru' = <<>> /\ resident' = 0
    /\ UNCHANGED <<files, others>>

Raw(i) == files[Name[i]]

\* read_raw.
Readable(i) == Raw(i).whole /\ Raw(i).identity = Identity(i)

Observe(lengths) == longest' = Max({longest} \cup lengths)

\* A chunk that can all be read is reused.
LookUp ==
    /\ next < N /\ ~missed
    /\ Observe({Raw(i).length : i \in {j \in Chunk(next) : Readable(j)}})
    /\ IF \A i \in Chunk(next) : Readable(i)
       THEN next' = Until(next) /\ UNCHANGED missed
       ELSE missed' = TRUE /\ UNCHANGED next
    /\ UNCHANGED <<files, others, lru, resident>>

Bytes(example) == example.frames + example.padded
Total(kept) ==
    LET sum[k \in 0 .. Len(kept)] == IF k = 0 THEN 0 ELSE sum[k - 1] + Bytes(kept[k])
    IN  sum[Len(kept)]

\* The entry of the LRU that an example has.
Kept(i) == \E k \in DOMAIN lru : lru[k].index = i
Slot(i) == CHOOSE k \in DOMAIN lru : lru[k].index = i

\* write: the entry is staged under a name that no other writer has, and then
\* published; what memory holds of the old one is dropped.
Write ==
    /\ missed
    /\ files' = [files EXCEPT ![Name[next]] = Made(next)]
    /\ Observe({Length[next]})
    /\ IF Kept(next)
       THEN lru' = RemoveAt(lru, Slot(next)) /\ resident' = resident - Bytes(lru[Slot(next)])
       ELSE UNCHANGED <<lru, resident>>
    /\ next' = next + 1
    /\ missed' = (next + 1 \in Chunk(next))
    /\ UNCHANGED others

Prepare == LookUp \/ Write

-----------------------------------------------------------------------------
(* The training.                                                             *)

\* The padding that the examples of the dataset share is restored.
FromDisk(i) ==
    [index |-> i, of |-> Raw(i).identity, seed |-> Raw(i).seed,
     frames |-> Raw(i).frames, padded |-> longest]

Given(i) == IF Kept(i) THEN lru[Slot(i)] ELSE FromDisk(i)

\* Slip: no room is made for what comes.
SparedAll(bytes) ==
    LET Fits(k) == resident - Total(SubSeq(lru, k + 1, Len(lru))) <= MemoryLimit
    IN  Max({0} \cup {k \in DOMAIN lru : Fits(k)})

\* How many of those in memory may stay when so many bytes come.
Spared(bytes) ==
    LET Fits(k) == /\ bytes <= MemoryLimit
                   /\ resident - Total(SubSeq(lru, k + 1, Len(lru))) <= MemoryLimit - bytes
    IN  Max({0} \cup {k \in DOMAIN lru : Fits(k)})

\* get: from memory, or from the disk, where a miss is an error now.
Get(i) ==
    /\ IF Kept(i) THEN lru' = <<lru[Slot(i)]>> \o RemoveAt(lru, Slot(i)) /\ UNCHANGED resident
       ELSE /\ Readable(i) /\ Raw(i).length <= longest
            /\ LET bytes == Bytes(FromDisk(i))
                   spared == Spared(bytes)
                   new == IF bytes <= MemoryLimit THEN <<FromDisk(i)>> ELSE <<>>
               IN  /\ lru' = new \o SubSeq(lru, 1, spared)
                   /\ resident' = resident - Total(SubSeq(lru, spared + 1, Len(lru))) + Total(new)
    /\ UNCHANGED <<files, others, next, missed, longest>>

-----------------------------------------------------------------------------
\* Another trainer publishes the same example, or another under its name; or
\* the entry is removed or damaged.
Others ==
    /\ others < MaxOthers
    /\ \E n \in Names : \E entry \in EntriesAt(n) \ {files[n]} :
          files' = [files EXCEPT ![n] = entry]
    /\ others' = others + 1
    /\ UNCHANGED <<next, missed, longest, lru, resident>>

-----------------------------------------------------------------------------
\* What a run without a cache prepares.
Uncached(i) ==
    [index |-> i, of |-> Identity(i), seed |-> Seed + i, frames |-> Frames[i],
     padded |-> Max({Length[j] : j \in Examples})]

\* Whatever the directory holds, hits or misses, and whatever others do to it
\* meanwhile, an example that the training is given is the one that a run
\* without a cache prepares, of its own identity and posterior seed and padded
\* to the longest of the whole dataset (TRAINING_PREPROCESS_CACHE.md;
\* train-preprocess-cache.h:89-171, 252-298, ace-train.cpp:707-749).
ExamplesOwn ==
    next = N => \A i \in Examples : Kept(i) \/ Readable(i) => Given(i) = Uncached(i)

\* What stays in memory is there once, is counted, and is within its budget,
\* whatever was dropped, replaced or moved to the front
\* (train-preprocess-cache.h:230-236, 258-264, 288-296).
MemoryCounted ==
    /\ resident = Total(lru) /\ resident <= MemoryLimit
    /\ \A j, k \in DOMAIN lru : lru[j].index = lru[k].index => j = k
=============================================================================
