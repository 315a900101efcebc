------------------------------- MODULE Intake -------------------------------
(***************************************************************************)
(* What the handlers of tools/ace-server.cpp accept, what they own when    *)
(* they do, and what the workers do with it: POST /lm, /synth,             *)
(* /understand, /caption and /vae.  How jobs are kept, polled and          *)
(* cancelled is in JobServer; here a handler's request becomes a job at    *)
(* once.  Latents are counted in frames and audio in samples; decoded      *)
(* audio is a heap buffer, latents and requests free themselves.           *)
(***************************************************************************)
EXTENDS Integers, Sequences, FiniteSets, Requests, Registry

CONSTANTS MaxT,            \* MAX_T_LATENT, 15000
          SamplesPerFrame, \* 1920
          Slack,           \* the encoder's spare frames, 64
          MaxBatch,        \* g_max_batch, clamped by main to 1 .. 9
          Formats,         \* what audio_parse_format knows
          MaxPosts         \* bound: jobs and refusals that leave something

ASSUME IntakeAssumption ==
    /\ MaxT \in Nat \ {0} /\ SamplesPerFrame \in Nat \ {0} /\ Slack \in Nat
    /\ MaxBatch \in 1 .. 9 /\ MaxPosts \in Nat

VARIABLES
    main,      \* where main is
    keep,      \* --keep-loaded
    registry,  \* g_registry: the names in each bucket
    posts,     \* posts counted
    queue,     \* g_work_queue
    running,   \* what the worker runs: a job, or none
    heap,      \* the buffers of decoded audio, each by its post and its part
    refused,   \* history: the /synth posts refused
    loaded,    \* g_loaded_lm and the others
    made       \* history: what the last LM job made, and the body it answered

intakeVars == <<main, keep, registry, posts, queue, running, heap, refused, loaded, made>>

Absent == -1
NoJob == <<>>
Nothing == [lm |-> "", dit |-> "", undDit |-> "", vae |-> "", adapter |-> ""]
NothingMade == [requests |-> <<>>, body |-> <<>>]

IntakeInit ==
    /\ main = "starting"
    /\ keep \in BOOLEAN
    /\ registry = [b \in Buckets \cup {"adapters"} |-> <<>>]
    /\ posts = 0 /\ queue = <<>> /\ running = NoJob
    /\ heap = {} /\ refused = {} /\ loaded = Nothing /\ made = NothingMade

-----------------------------------------------------------------------------
(* main *)

\* The directories are scanned before anything is served.
Start(models, adapters) ==
    /\ main = "starting"
    /\ LET found == Scan(models)
       IN  /\ registry' = [b \in Buckets \cup {"adapters"} |->
                              IF b = "adapters" THEN ScanAdapters(adapters) ELSE found[b]]
           /\ main' = IF Usable(found) THEN "serving" ELSE "done"
    /\ UNCHANGED <<keep, posts, queue, running, heap, refused, loaded, made>>

\* SIGINT or SIGTERM stops the HTTP server, or it cannot listen.
Signal ==
    /\ main = "serving"
    /\ main' = "signalled"
    /\ UNCHANGED <<keep, registry, posts, queue, running, heap, refused, loaded, made>>

\* listen has returned, after the last handler.
StopWorker ==
    /\ main = "signalled"
    /\ main' = "stopping"
    /\ UNCHANGED <<keep, registry, posts, queue, running, heap, refused, loaded, made>>

\* The worker has ended with its current job; main says so and returns.
Done ==
    /\ main = "stopping"
    /\ running = NoJob
    /\ main' = "done"
    /\ UNCHANGED <<keep, registry, posts, queue, running, heap, refused, loaded, made>>

-----------------------------------------------------------------------------
(* The handlers.  A post is the text of its requests and its parts.          *)

Fits(latents) == latents \in 1 .. MaxT
FitsIfThere(latents) == latents = Absent \/ Fits(latents)

\* Audio of no samples stands for what is empty or cannot be decoded.
Decodes(audio) == audio > 0
DecodesIfThere(audio) == audio = Absent \/ Decodes(audio)

Enqueue(job) ==
    /\ posts < MaxPosts
    /\ posts' = posts + 1
    /\ queue' = Append(queue, job)
    /\ UNCHANGED <<main, keep, registry, running, refused, loaded, made>>

Parts == {"src", "audio", "ref", "refAudio"}

\* The parts that a handler looks at.
Only(names, p) == [x \in Parts |-> IF x \in names THEN p.parts[x] ELSE Absent]

\* `single' is history: the post held one request.
Job(to, requests, parts, p) ==
    [post |-> posts + 1, to |-> to, requests |-> requests, parts |-> parts, from |-> p.from,
     single |-> Len(p.text.objects) = 1]

\* Of them, those that were decoded into a buffer.
Decoded(parts) == {x \in {"audio", "refAudio"} : Decodes(parts[x])}

\* The buffers of this post's parts are allocated.
Allocate(parts) == heap' = heap \cup ({posts + 1} \X parts)

\* Slip: the variants keep the synth seed of the request.
VariantsAlike(r, n) ==
    {[b \in 1 .. n |-> [q EXCEPT !.lm_seed = @ + b - 1]] : q \in ResolveSeeds(r)}

\* One request: variants of it, from its seeds on.
VariantsOf(r, n) ==
    {[b \in 1 .. n |-> [q EXCEPT !.lm_seed = @ + b - 1, !.seed = @ + b - 1]] :
        q \in ResolveSeeds(r)}

Clamped(n) == IF n < 1 THEN 1 ELSE IF n > MaxBatch THEN MaxBatch ELSE n

\* The requests of an LM job: one is expanded, several keep their own seeds.
Batches(rs) ==
    IF Len(rs) = 1 THEN VariantsOf(rs[1], Clamped(rs[1].lm_batch_size))
    ELSE {s \in [DOMAIN rs -> UNION {ResolveSeeds(rs[i]) : i \in DOMAIN rs}] :
             \A i \in DOMAIN rs : s[i] \in ResolveSeeds(rs[i])}

LmAccepts(rs) ==
    /\ Len(rs) \in 1 .. MaxBatch
    /\ \A i \in DOMAIN rs :
          /\ rs[i].caption # ""
          /\ rs[i].lm_mode = rs[1].lm_mode /\ rs[i].lm_model = rs[1].lm_model
    /\ rs[1].lm_mode \in {"generate", "inspire", "format"}

HandleLm(p) ==
    /\ registry.lm # <<>>
    /\ LmAccepts(ParseArray(p.text))
    /\ \E batch \in Batches(ParseArray(p.text)) : Enqueue(Job("lm", batch, Only({}, p), p))
    /\ Allocate({})

NoCaption == {"lego", "extract", "complete", "repaint"}

SynthReads(p) ==
    /\ \A b \in {"dit", "enc", "vae"} : registry[b] # <<>>
    /\ ParseArray(p.text) # <<>>
    /\ FitsIfThere(p.parts.src) /\ DecodesIfThere(p.parts.audio)

SynthTakes(r) ==
    /\ r.caption # "" \/ r.task_type \in NoCaption
    /\ r.output_format \in Formats

\* Only the first request is looked at.  A timbre reference that cannot be
\* decoded is left out.
HandleSynth(p) ==
    /\ SynthReads(p) /\ FitsIfThere(p.parts.ref) /\ SynthTakes(ParseArray(p.text)[1])
    /\ Enqueue(Job("synth", ParseArray(p.text),
                [p.parts EXCEPT !.refAudio = IF Decodes(@) THEN @ ELSE Absent], p))
    /\ Allocate(Decoded(p.parts))

\* A /synth post refused after its source was decoded keeps it, and if its
\* reference was decoded too, that as well.
RefuseSynth(p) ==
    /\ posts < MaxPosts
    /\ SynthReads(p) /\ Decoded(p.parts) # {}
    /\ \/ ~FitsIfThere(p.parts.ref) /\ Allocate(Decoded(Only({"audio"}, p)))
       \/ /\ FitsIfThere(p.parts.ref) /\ ~SynthTakes(ParseArray(p.text)[1])
          /\ Allocate(Decoded(p.parts))
    /\ posts' = posts + 1
    /\ refused' = refused \cup {posts + 1}
    /\ UNCHANGED <<main, keep, registry, queue, running, loaded, made>>

UnderstandDefault == [Default EXCEPT !.lm_temperature = 30]

CaptionTakes(r, p) ==
    /\ p.parts.audio # Absent /\ p.parts.src = Absent
    /\ Exact(registry.lm, r.lm_model) /\ Exact(registry.dit, r.synth_model)
    /\ Exact(registry.vae, r.vae)
    /\ r.lm_temperature \in 0 .. 200

\* handle_understand_request, for /understand and for /caption.  The own
\* temperature of understanding is only there for a post without a request.
HandleUnderstand(p) ==
    /\ p.to \in {"understand", "caption"}
    /\ \A b \in {"lm", "dit", "vae"} : registry[b] # <<>>
    /\ p.multipart
    /\ \E r \in {ParseOne(p.text, UnderstandDefault)} :
          /\ r # <<>>
          /\ p.to = "caption" => CaptionTakes(r[1], p)
          /\ FitsIfThere(p.parts.src) /\ DecodesIfThere(p.parts.audio)
          /\ p.parts.src # Absent \/ p.parts.audio # Absent
          /\ \E q \in ResolveSeed(r[1], "lm_seed") :
                Enqueue(Job(p.to, <<q>>, Only({"src", "audio"}, p), p))
    /\ Allocate(Decoded(Only({"audio"}, p)))

\* Slip: the length of the audio is not looked at.
EncodeTakesAny(audio) == Decodes(audio)

EncodeTakes(audio) == Decodes(audio) /\ audio \div SamplesPerFrame < MaxT

\* handle_vae: audio is encoded, latents are decoded, both or none are refused.
HandleVae(p) ==
    /\ registry.vae # <<>>
    /\ p.multipart
    /\ \E r \in {ParseOne(p.text, Default)} :
          /\ r # <<>>
          /\ \/ /\ p.parts.audio # Absent /\ p.parts.src = Absent
                /\ EncodeTakes(p.parts.audio)
                /\ Enqueue(Job("encode", r, Only({"audio"}, p), p))
                /\ Allocate({"audio"})
             \/ /\ p.parts.src # Absent /\ p.parts.audio = Absent
                /\ Fits(p.parts.src)
                /\ r[1].output_format \in Formats
                /\ Enqueue(Job("decode", r, Only({"src"}, p), p))
                /\ Allocate({})

\* The server takes posts until it is stopped; any other post is answered with
\* an error and leaves nothing.
Handle(p) ==
    /\ main = "serving"
    /\ \/ p.to = "lm" /\ HandleLm(p)
       \/ p.to = "synth" /\ (HandleSynth(p) \/ RefuseSynth(p))
       \/ HandleUnderstand(p)
       \/ p.to = "vae" /\ HandleVae(p)

-----------------------------------------------------------------------------
(* The workers, one at a time on the worker's thread.                        *)

\* worker_main: the next job, unless main wants it to end.
Take ==
    /\ running = NoJob /\ queue # <<>>
    /\ main \in {"serving", "signalled"}
    /\ running' = Head(queue)
    /\ queue' = Tail(queue)
    /\ UNCHANGED <<main, keep, registry, posts, heap, refused, loaded, made>>

First == running.requests[1]

\* The job is over: the worker has freed the buffers it was given.
Settle(freed) ==
    /\ running' = NoJob
    /\ heap' = heap \ ({running.post} \X freed)
    /\ UNCHANGED <<main, keep, registry, posts, queue, refused>>

Remember(names) ==
    loaded' = [n \in DOMAIN loaded |->
                  IF n \notin DOMAIN names THEN loaded[n]
                  ELSE IF keep THEN names[n] ELSE ""]

\* Cancelled, refused a model, failed to load it, or given up by the pipeline.
GivesUp(freed) == Settle(freed) /\ UNCHANGED <<loaded, made>>

\* What the LM makes of a request (LmBatch says how): what is given is kept,
\* and lyrics may turn out to be the mark of an instrumental.
LmSings(r, lyrics, language) ==
    [r EXCEPT !.lyrics = lyrics, !.vocal_language = language, !.lm_batch_size = 1,
              !.audio_codes = IF r.lm_mode = "generate" /\ @ = "" THEN "codes" ELSE @,
              !.use_cot_caption = IF r.lm_mode = "inspire" THEN TRUE ELSE @]

LmLyrics(r) == IF r.lyrics = "" THEN {"sung", "[Instrumental]"} ELSE {r.lyrics}
LmLanguages(r) == IF r.vocal_language = "" THEN {"en"} ELSE {r.vocal_language}

LmOut(r) == {LmSings(r, l, v) : l \in LmLyrics(r), v \in LmLanguages(r)}

LmName == ResolveName(registry.lm, First.lm_model, loaded.lm)

LmWorker ==
    /\ running.to = "lm"
    /\ \/ GivesUp({})
       \/ /\ Find(registry.lm, LmName)
          /\ \E out \in [DOMAIN running.requests ->
                            UNION {LmOut(running.requests[i]) : i \in DOMAIN running.requests}] :
                /\ \A i \in DOMAIN out : out[i] \in LmOut(running.requests[i])
                /\ made' = [requests |-> out, body |-> [i \in DOMAIN out |-> Build(out[i])]]
          /\ Remember([lm |-> LmName])
          /\ Settle({})

SynthNames ==
    [dit |-> ResolveName(registry.dit, First.synth_model, loaded.dit),
     vae |-> ResolveName(registry.vae, First.vae, loaded.vae), adapter |-> First.adapter]

SynthFinds ==
    /\ Find(registry.dit, SynthNames.dit) /\ registry.enc # <<>>
    /\ Find(registry.vae, SynthNames.vae)
    /\ First.adapter # "" => Find(registry.adapters, First.adapter)

\* Slip: the way out for an adapter that is not known forgets the reference.
SynthFreesSource ==
    IF First.adapter # "" /\ ~Find(registry.adapters, First.adapter)
    THEN {"audio"} ELSE {"audio", "refAudio"}

\* On every way out: cancelled, a name not found, not loaded, run or failed.
SynthFrees == {"audio", "refAudio"}

SynthWorker ==
    /\ running.to = "synth"
    /\ \/ GivesUp(SynthFrees)
       \/ SynthFinds /\ Remember(SynthNames) /\ Settle(SynthFrees) /\ UNCHANGED made

UnderstandNames ==
    [lm     |-> LmName,
     undDit |-> ResolveName(registry.dit, First.synth_model, loaded.undDit),
     vae    |-> ResolveName(registry.vae, First.vae, loaded.vae)]

UnderstandFinds ==
    /\ Find(registry.lm, UnderstandNames.lm) /\ Find(registry.dit, UnderstandNames.undDit)
    /\ Find(registry.vae, UnderstandNames.vae)

\* understand_worker, for both endpoints; a cancel at the end or a malformed
\* caption comes after the names are remembered.
UnderstandWorker ==
    /\ running.to \in {"understand", "caption"}
    /\ \/ GivesUp({"audio"})
       \/ /\ UnderstandFinds
          /\ Remember(UnderstandNames) /\ Settle({"audio"}) /\ UNCHANGED made

VaeName == ResolveName(registry.vae, First.vae, loaded.vae)

\* decode_worker owns no buffer; encode_worker's is freed by its guard.
DecodeWorker ==
    /\ running.to = "decode"
    /\ \/ GivesUp({})
       \/ Find(registry.vae, VaeName) /\ Remember([vae |-> VaeName]) /\ Settle({}) /\ UNCHANGED made

EncodeWorker ==
    /\ running.to = "encode"
    /\ \/ GivesUp({"audio"})
       \/ /\ Find(registry.vae, VaeName)
          /\ Remember([vae |-> VaeName]) /\ Settle({"audio"}) /\ UNCHANGED made

Work ==
    /\ running # NoJob
    /\ LmWorker \/ SynthWorker \/ UnderstandWorker \/ DecodeWorker \/ EncodeWorker

\* A loader that cannot go on ends the process with exit.
Abort ==
    /\ running # NoJob
    /\ main \in {"serving", "signalled", "stopping"}
    /\ main' = "aborted"
    /\ UNCHANGED <<keep, registry, posts, queue, running, heap, refused, loaded, made>>

-----------------------------------------------------------------------------
(* Properties *)

Pending == {queue[i] : i \in DOMAIN queue} \cup (IF running = NoJob THEN {} ELSE {running})

Owned(j) == {j.post} \X Decoded(j.parts)

\* The decoded audio of a job that waits or runs is on the heap until the job
\* is over: nothing frees it early.  From then on nothing of it is left, by
\* whichever way the worker went out.  Only the audio of refused /synth posts
\* is on the heap without a job, for good: the handler that refuses a post
\* behind its decoding leaks it
\* (ace-server.cpp:761-958, 1051-1113, 1133-1257, 1517-1589).
BuffersOwned ==
    /\ UNION {Owned(j) : j \in Pending} \subseteq heap
    /\ \A b \in heap : b[1] \in refused \/ \E j \in Pending : b \in Owned(j)

SeedsResolved(j) == \A i \in DOMAIN j.requests : j.requests[i].lm_seed >= 0

SeedsApart(j) ==
    \A i, k \in DOMAIN j.requests :
        i # k => /\ j.requests[i].lm_seed # j.requests[k].lm_seed
                 /\ j.requests[i].seed # j.requests[k].seed

\* What the encoder makes of audio fits the room that encode_worker gives it.
EncodeRoom(n) == LET room == n \div SamplesPerFrame + Slack IN IF room > MaxT THEN MaxT ELSE room

\* What is accepted is what its worker and pipeline count on: an LM batch is of
\* one mode and model, no larger than the KV sets, with seeds that are
\* resolved, and when it is one request expanded no two variants share a seed
\* of the LM or of the synth (the items of an array may: each keeps its own);
\* latents are no longer than the silence they are padded from; understanding
\* has a source; a caption's models are found when its turn comes, and are
\* those the post meant (ace-server.cpp:257-289, 684-758, 1266-1395,
\* 1604-1710).
AcceptedFits ==
    \A j \in Pending :
        /\ j.requests # <<>>
        /\ FitsIfThere(j.parts.src) /\ FitsIfThere(j.parts.ref)
        /\ j.to = "lm" =>
              /\ Len(j.requests) <= MaxBatch
              /\ Cardinality({<<r.lm_mode, r.lm_model>> : r \in Range(j.requests)}) = 1
              /\ SeedsResolved(j)
              /\ (\A r \in Range(j.requests) : r.seed >= 0)
              /\ j.single => SeedsApart(j)
        /\ j.to \in {"understand", "caption"} =>
              SeedsResolved(j) /\ (j.parts.src > 0 \/ j.parts.audio > 0)
        /\ j.to = "caption" =>
              \A b \in {"lm", "dit", "vae"} :
                 LET asked == CASE b = "lm" -> j.requests[1].lm_model
                                [] b = "dit" -> j.requests[1].synth_model
                                [] b = "vae" -> j.requests[1].vae
                     was == loaded[IF b = "dit" THEN "undDit" ELSE b]
                     name == ResolveName(registry[b], asked, was)
                 IN  Find(registry[b], name) /\ (asked = "" => registry[b] = <<name>>)
        /\ j.to = "encode" => j.parts.audio \div SamplesPerFrame <= EncodeRoom(j.parts.audio)

\* A request that the LM made, sent back as it was answered, is the request
\* that the synth job runs: nothing falls back to a default or is drawn again
\* on the way, but for the language of an instrumental (request.cpp:74-228,
\* 322-475; task_type, solver, lm_mode and output_format "explicit").
RequestCarried ==
    \A j \in Pending :
        j.from # <<>> =>
            /\ j.requests = [i \in DOMAIN j.from |-> Instrumental(j.from[i])]
            /\ \A i \in DOMAIN j.requests : j.requests[i].seed >= 0
=============================================================================
