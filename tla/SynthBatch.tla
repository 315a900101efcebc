----------------------------- MODULE SynthBatch -----------------------------
(***************************************************************************)
(* One synth job from the inside: synth_worker of tools/ace-server.cpp     *)
(* expands the requests into one batch of tracks, synth_batch_run of       *)
(* tools/synth-batch-runner.h denoises them together and decodes them one  *)
(* by one, and the worker encodes each track and pairs it with its latent. *)
(* The job's cancel flag may be raised at any moment, and each stage may   *)
(* fail.  Every caller passes the runner a single group of requests.       *)
(***************************************************************************)
EXTENDS Integers, Sequences, FiniteSets

CONSTANTS Limit,       \* the DiT's largest batch, 9 in the code
          MaxRequests, \* bound: requests in one POST /synth
          Sizes,       \* bound: the synth_batch_size values requests carry
          TileCounts   \* bound: tiles in a track's decode; 1 is not tiled

ASSUME LimitAssumption == Limit \in Nat \ {0}
ASSUME SizesAssumption == Sizes \subseteq Int /\ MaxRequests \in Nat
ASSUME TileCountsAssumption == TileCounts \subseteq Nat \ {0}

Tracks == 1 .. Limit

VARIABLES
    sizes,    \* synth_batch_size of each request
    mp3,      \* ~output_wav
    tiles,    \* tiles in the decode of one track, 0 before it
    cancel,   \* Job::cancel
    verdict,  \* the last status, once the worker has looked at the flag for it
    status,   \* Job::status
    pc,       \* where the worker is
    inputs,   \* src_interleaved and ref_interleaved are still allocated
    batch,    \* groups[0]: <<request, variant>> for each track
    job,      \* the AceSynthJob is allocated
    latents,  \* latents_out: the track whose latent each entry holds
    audio,    \* audio_out: "none", "pcm" or, once freed, "freed"
    track,    \* the loop index of the decode and encode loops
    tile,     \* tiles decoded of the track
    encoded,  \* the tracks with a non-empty encoded string
    body      \* the pairs of an audio and a latent part, in wire order

vars == <<sizes, mp3, tiles, cancel, verdict, status, pc, inputs, batch, job, latents,
          audio, track, tile, encoded, body>>

jobInput == <<sizes, mp3>>

-----------------------------------------------------------------------------
(* The expansion of requests into a flat batch.                              *)

Least(a, b) == IF a < b THEN a ELSE b

Clamp(n) == IF n < 1 THEN 1 ELSE Least(n, Limit)

\* The sum of the clamped sizes, clamped again.
TotalAlloc(s) ==
    LET sum[n \in 0 .. Len(s)] == IF n = 0 THEN 0 ELSE sum[n - 1] + Clamp(s[n])
    IN  Least(sum[Len(s)], Limit)

Variants(r, n) == [i \in 1 .. n |-> <<r, i - 1>>]

\* Variant i of a request has its seed plus i.  The request that crosses the
\* limit is cut, those after it are dropped.
Expand(s) ==
    LET flat[n \in 0 .. Len(s)] ==
            IF n = 0 THEN <<>>
            ELSE IF Len(flat[n - 1]) >= TotalAlloc(s) THEN flat[n - 1]
            ELSE flat[n - 1] \o
                 Variants(n, Least(Clamp(s[n]), TotalAlloc(s) - Len(flat[n - 1])))
    IN  flat[Len(s)]

Total == TotalAlloc(sizes)

-----------------------------------------------------------------------------
Init ==
    /\ sizes \in UNION {[1 .. n -> Sizes] : n \in 1 .. MaxRequests}
    /\ mp3 \in BOOLEAN
    /\ tiles = 0
    /\ cancel = FALSE
    /\ verdict = "running"
    /\ status = "running"
    /\ pc = "start"
    /\ inputs = TRUE
    /\ batch = <<>>
    /\ job = FALSE
    /\ latents = <<>>
    /\ audio = [b \in Tracks |-> "none"]
    /\ track = 1
    /\ tile = 0
    /\ encoded = {}
    /\ body = <<>>

\* POST /job?cancel=1 on another thread.  It looks at the status before, so it
\* comes as late as after the worker's last look, or after the last status.
Cancel ==
    /\ ~cancel
    /\ cancel' = TRUE
    /\ UNCHANGED <<jobInput, tiles, verdict, status, pc, inputs, batch, job, latents,
                   audio, track, tile, encoded, body>>

\* The worker has looked at the flag, where it does, and chosen its last status.
Choose(s) ==
    /\ verdict' = s
    /\ pc' = "settle"

\* The status is stored, whatever became of the flag meanwhile.
Settle ==
    /\ pc = "settle"
    /\ status' = verdict
    /\ pc' = "returned"
    /\ UNCHANGED <<jobInput, tiles, cancel, verdict, inputs, batch, job, latents, audio,
                   track, tile, encoded, body>>

\* The flag, then the names, then the context: each early return frees the
\* decoded source and reference audio first.
Start ==
    /\ pc = "start"
    /\ \/ cancel /\ inputs' = FALSE /\ Choose("cancelled")
       \/ ~cancel /\ pc' = "load" /\ UNCHANGED <<inputs, verdict>>
    /\ UNCHANGED <<jobInput, tiles, cancel, status, batch, job, latents, audio, track,
                   tile, encoded, body>>

Load ==
    /\ pc = "load"
    /\ \/ inputs' = FALSE /\ Choose("failed") /\ UNCHANGED batch
       \/ batch' = Expand(sizes) /\ pc' = "dit" /\ UNCHANGED <<inputs, verdict>>
    /\ UNCHANGED <<jobInput, tiles, cancel, status, job, latents, audio, track, tile,
                   encoded, body>>

-----------------------------------------------------------------------------
(* synth_batch_run.                                                          *)

\* Phase 1.  The sampler polls the flag before each step; an encoder, the DiT
\* or a step may also fail.  The latents are captured at once.
Dit ==
    /\ pc = "dit"
    /\ \/ pc' = "failed" /\ UNCHANGED <<tiles, job, latents>>
       \/ /\ job' = TRUE
          /\ latents' = [b \in 1 .. Total |-> b]
          /\ tiles' \in TileCounts
          /\ pc' = "decode"
    /\ UNCHANGED <<jobInput, cancel, verdict, status, inputs, batch, audio, track, tile,
                   encoded, body>>

\* The runner gives up: it frees the job and returns -1.
GiveUp ==
    /\ pc' = "failed"
    /\ job' = FALSE
    /\ UNCHANGED <<audio, track, tile>>

\* The track's slot is filled, or left empty, and the loop goes on.
NextTrack(slot) ==
    /\ audio' = [audio EXCEPT ![track] = slot]
    /\ track' = track + 1
    /\ tile' = 0
    /\ UNCHANGED <<pc, job>>

Decoding == pc = "decode" /\ track <= Total

\* Phase 2, one tile of ops_vae_decode: a tiled decode polls the flag before
\* each tile, one that fits a single tile does not poll at all.  A failure is
\* a cancellation if the flag is up by then; if not, the track is skipped.
\* Without a decoder there is no decode at all.
DecodeTile ==
    /\ Decoding
    /\ tile < tiles
    /\ \/ /\ ~(cancel /\ tiles > 1)
          /\ tile' = tile + 1
          /\ UNCHANGED <<pc, job, audio, track>>
       \/ (cancel \/ (track = 1 /\ tile = 0)) /\ GiveUp
       \/ ~cancel /\ NextTrack("none")
    /\ UNCHANGED <<jobInput, tiles, cancel, verdict, status, inputs, batch, latents,
                   encoded, body>>

\* The samples are copied to the slot, unless there is no memory for them.
KeepTrack ==
    /\ Decoding
    /\ tile = tiles
    /\ NextTrack("pcm") \/ NextTrack("none")
    /\ UNCHANGED <<jobInput, tiles, cancel, verdict, status, inputs, batch, latents,
                   encoded, body>>

\* All tracks are through: the job is freed and the runner returns 0; the
\* worker frees the inputs and starts on the encode loop.
RunDone ==
    /\ pc = "decode"
    /\ track > Total
    /\ job' = FALSE
    /\ inputs' = FALSE
    /\ track' = 1
    /\ pc' = "encode"
    /\ UNCHANGED <<jobInput, tiles, cancel, verdict, status, batch, latents, audio, tile,
                   encoded, body>>

-----------------------------------------------------------------------------
(* The rest of synth_worker.                                                 *)

Freed(slots) == [b \in Tracks |-> IF slots[b] = "pcm" THEN "freed" ELSE slots[b]]

\* Slip: the tracks decoded before the failure are forgotten.
RunFailedLeaky ==
    /\ pc = "failed"
    /\ inputs' = FALSE
    /\ Choose(IF cancel THEN "cancelled" ELSE "failed")
    /\ UNCHANGED <<jobInput, tiles, cancel, status, batch, job, latents, audio, track,
                   tile, encoded, body>>

\* Slip: a failed run is a failed job, whatever the flag says.
RunFailedOnly ==
    /\ pc = "failed"
    /\ inputs' = FALSE
    /\ audio' = Freed(audio)
    /\ Choose("failed")
    /\ UNCHANGED <<jobInput, tiles, cancel, status, batch, job, latents, track, tile,
                   encoded, body>>

RunFailed ==
    /\ pc = "failed"
    /\ inputs' = FALSE
    /\ audio' = Freed(audio)
    /\ Choose(IF cancel THEN "cancelled" ELSE "failed")
    /\ UNCHANGED <<jobInput, tiles, cancel, status, batch, job, latents, track, tile,
                   encoded, body>>

\* One turn of the encode loop.  Empty slots are skipped; the MP3 encoder
\* returns an empty string when the flag is up at its end.
Encode ==
    /\ pc = "encode"
    /\ track <= Total
    /\ track' = track + 1
    /\ \/ audio[track] # "pcm" /\ UNCHANGED <<audio, encoded>>
       \/ /\ audio[track] = "pcm"
          /\ audio' = [audio EXCEPT ![track] = "freed"]
          /\ encoded' = IF mp3 /\ cancel THEN encoded ELSE encoded \cup {track}
    /\ UNCHANGED <<jobInput, tiles, cancel, verdict, status, pc, inputs, batch, job,
                   latents, tile, body>>

\* The tracks that have audio, in their order.
Present ==
    LET upTo[n \in 0 .. Total] ==
            IF n = 0 THEN <<>>
            ELSE IF n \in encoded THEN Append(upTo[n - 1], n) ELSE upTo[n - 1]
    IN  upTo[Total]

\* Slip: latents are taken in order for the audio parts that are there.
PairsPacked == [i \in DOMAIN Present |-> <<Present[i], latents[i]>>]

\* multipart_build_audio_latent: a track without audio is left out together
\* with its latent.
Pairs == [i \in DOMAIN Present |-> <<Present[i], latents[Present[i]]>>]

Build ==
    /\ pc = "encode"
    /\ track > Total
    /\ body' = Pairs
    /\ pc' = "finish"
    /\ UNCHANGED <<jobInput, tiles, cancel, verdict, status, inputs, batch, job, latents,
                   audio, track, tile, encoded>>

\* The last look at the flag.
Finish ==
    /\ pc = "finish"
    /\ Choose(IF cancel THEN "cancelled" ELSE "done")
    /\ UNCHANGED <<jobInput, tiles, cancel, status, inputs, batch, job, latents, audio,
                   track, tile, encoded, body>>

Returned ==
    /\ pc = "returned"
    /\ UNCHANGED vars

Worker ==
    \/ Start
    \/ Load
    \/ Dit
    \/ DecodeTile
    \/ KeepTrack
    \/ RunDone
    \/ RunFailed
    \/ Encode
    \/ Build
    \/ Finish
    \/ Settle

Next == Worker \/ Cancel \/ Returned

Spec == Init /\ [][Next]_vars /\ WF_vars(Worker)

-----------------------------------------------------------------------------
(* Properties.                                                               *)

\* The order the batch should have: every variant a request asks for, request
\* by request, so that a pair's place is the number of pairs before it.
Wanted == {p \in (1 .. Len(sizes)) \X (0 .. Limit - 1) : p[2] < Clamp(sizes[p[1]])}
Earlier(p, q) == p[1] < q[1] \/ (p[1] = q[1] /\ p[2] < q[2])

\* The batch never outgrows the audio slots allocated for it, and holds the
\* first variants of the first requests, none skipped and none twice
\* (ace-server.cpp:774-785 against 851-873).
BatchFits ==
    batch # <<>> =>
        /\ Len(batch) = Least(Cardinality(Wanted), Limit)
        /\ \A n \in DOMAIN batch :
              /\ batch[n] \in Wanted
              /\ Cardinality({p \in Wanted : Earlier(p, batch[n])}) = n - 1

\* Every audio part is followed by the latent it was decoded from, and the
\* pairs keep the order of the batch, whichever tracks were left out.
PairsMatch ==
    \A i \in DOMAIN body :
        /\ body[i][1] = body[i][2]
        /\ \A k \in DOMAIN body : i < k => body[i][1] < body[k][1]

\* A settled job holds no memory: neither inputs, nor the DiT job, nor audio,
\* on any of the ways out.
Released ==
    status # "running" =>
        /\ ~inputs
        /\ ~job
        /\ \A b \in Tracks : audio[b] # "pcm"

\* A done job delivers every track that was decoded: a cancel that emptied an
\* MP3 is always seen again when the status is chosen.
DoneIsComplete ==
    status = "done" =>
        {body[i][1] : i \in DOMAIN body} = {b \in Tracks : audio[b] = "freed"}

\* From the requests to the answer: the batch is the one asked for, and the
\* answer pairs its tracks in order and, when the job is done, leaves none out.
TracksDelivered == BatchFits /\ PairsMatch /\ DoneIsComplete

\* A cancel that comes before the worker's last look at the flag ends the job as
\* cancelled, whichever step it meets: none of the looks is forgotten, and no
\* failure hides it but one of the names or of the loading, which is not asked.
\* One that comes between that look and the store of the status is acknowledged
\* all the same, and the job ends as it was to end (ace-server.cpp:900-909, 956,
\* 2176-2180); DoneIsComplete then still holds of it.
CancelHonoured ==
    (cancel /\ pc \notin {"load", "settle", "returned"}) ~> status = "cancelled"
=============================================================================
