----------------------------- MODULE SynthShape -----------------------------
(***************************************************************************)
(* What one synth job's tracks are made of: src/pipeline-synth.cpp and     *)
(* src/pipeline-synth-ops.cpp between the expansion of the requests and    *)
(* the audio of a track (SynthBatch).  The task decides how the source is  *)
(* padded and encoded, how long the canvas is, which of its frames are     *)
(* source, silence, codes or left to the DiT (DitSampler), and what is put *)
(* back from the source when a track is decoded.                           *)
(* Time is counted in samples, SamplesPerFrame of them to a frame; samples *)
(* and frames are known by where they come from.                           *)
(***************************************************************************)
EXTENDS SynthBatch, DitSampler, VaeTiling

CONSTANTS Asks,         \* bound: what the requests of a job ask for
          MaxT,         \* frames of silence_full, 15000
          Patch,        \* cfg.patch_size
          CodeFrames,   \* frames of an audio code, 5
          DefaultSteps, \* inference_steps of 0 or less
          MaxSteps,     \* 100
          DefaultDur    \* 30 s

ASSUME ShapeAssumption ==
    /\ Patch \in Nat \ {0}
    /\ {MaxT, CodeFrames, DefaultSteps, MaxSteps, DefaultDur} \subseteq Nat

\* What a request may hold: the code checks none of the numbers.
ASSUME AsksAssumption ==
    Asks \subseteq
        [task : {"text2music", "cover", "cover-nofsq", "extract", "complete", "repaint", "lego"},
         src : {"none", "audio", "latents"}, ref : BOOLEAN, n : Nat, start : Int, end : Int,
         codes : [1 .. MaxRequests -> Int], dur : Int, steps : Int, custom : Nat,
         strength : Int, noise : BOOLEAN]

VARIABLES
    ask,     \* reqs[0], the source that came with it, and each request's codes
    stage,   \* the next op
    pad,     \* left_pad_sec
    source,  \* what is encoded: padded_src or the (padded) latents
    cover,   \* cover_latents
    clean,   \* noise_blend_latents
    region,  \* [rs, re], in the padded frame of reference
    canvas,  \* [T, steps, have]: the length, the steps, have_codes
    context, \* per track, the frames of the DiT's context and their mask
    blend,   \* the frames blended into the noise
    wave     \* the audio buffer: the last decoded track's samples

shapeVars == <<ask, stage, pad, source, cover, clean, region, canvas, context, blend, wave>>

-----------------------------------------------------------------------------
(* Samples and frames.                                                       *)

\* A sample of the source by its place, silence, what the DiT generated, and
\* what a read beyond a buffer gives.
Silent == -1
Generated == -2
Beyond == -3

Frame(kind, of) == [kind |-> kind, of |-> of]
Steady(x) == [k \in 1 .. SamplesPerFrame |-> x]
Silence == Frame("vae", Steady(Silent))
Gen == Frame("vae", Steady(Generated))
BeyondFrame == Frame("vae", Steady(Beyond))

\* Element i of a buffer, from 0.
At(buffer, i) == IF i + 1 \in DOMAIN buffer THEN buffer[i + 1] ELSE BeyondFrame
SilenceAt(i) == IF i \in 0 .. MaxT - 1 THEN Silence ELSE BeyondFrame

VaeFrame(samples, first) == Frame("vae", [k \in 1 .. SamplesPerFrame |-> samples[first + k]])

\* What the tiles of the decoder come to, for every length of the canvas.
DecodeOrders == [T \in 0 .. MaxT |-> [chunk \in Candidates |-> DecodeOrder(T, chunk)]]

\* The source as it is sent: audio of ask.n samples, or their whole frames.
SourceAudio == [i \in 1 .. ask.n |-> i - 1]
SourceFrames == [j \in 1 .. ask.n \div SamplesPerFrame |->
                    VaeFrame(SourceAudio, (j - 1) * SamplesPerFrame)]
SourceLength == IF ask.src = "latents" THEN Len(SourceFrames) * SamplesPerFrame ELSE ask.n

IsRepaint == ask.task = "repaint"
IsLegoRegion == ask.task = "lego" /\ ask.end > ask.start
HaveRegion == IsRepaint \/ IsLegoRegion

NeedsSource == ask.task # "text2music"

\* run_cover degrades the source on purpose; cover-nofsq, extract and complete
\* take it as it is.
RoundTrips == ask.task = "cover"
Verbatim == ask.task \in {"cover-nofsq", "extract", "complete"}

HaveCover == cover # <<>>

Codes(b) == ask.codes[batch[b][1]]

\* run_text2music: the codes field of the first request is not empty, whether
\* or not it holds a number.
UseSourceContext == NeedsSource \/ ask.codes[1] >= 0

ShapeInit ==
    /\ ask \in Asks
    /\ stage = "pad" /\ pad = 0
    /\ source = <<>> /\ cover = <<>> /\ clean = <<>>
    /\ region = <<0, 0>>
    /\ canvas = [T |-> 0, steps |-> 0, have |-> FALSE]
    /\ context = <<>> /\ blend = <<>> /\ wave = <<>>

Fails == stage' = "failed"

-----------------------------------------------------------------------------
(* The ops, in the order of the task functions and of run_tail.              *)

LeftPad == Max({0, -ask.start})
RightPad ==
    LET end == IF ask.end < 0 THEN SourceLength ELSE ask.end
    IN  Max({0, end - SourceLength})

\* A pad in frames, to the nearest.
Frames(samples) == (2 * samples + SamplesPerFrame) \div (2 * SamplesPerFrame)

SilentFrames(n) == [j \in 1 .. n |-> SilenceAt(j - 1)]
SilentSamples(n) == [i \in 1 .. n |-> Silent]

\* A task that has no source fails before the job exists.  A region that goes
\* beyond the source pads it with silence: audio by samples, latents by frames.
Pad ==
    /\ stage = "pad"
    /\ IF NeedsSource /\ ask.src = "none" THEN Fails /\ UNCHANGED <<pad, source>>
       ELSE /\ stage' = "encode"
            /\ pad' = IF HaveRegion THEN LeftPad ELSE 0
            /\ source' =
                 IF ~NeedsSource THEN <<>>
                 ELSE IF ask.src = "latents"
                 THEN IF HaveRegion THEN SilentFrames(Frames(LeftPad)) \o SourceFrames
                                             \o SilentFrames(Frames(RightPad))
                      ELSE SourceFrames
                 ELSE IF HaveRegion THEN SilentSamples(LeftPad) \o SourceAudio
                                             \o SilentSamples(RightPad)
                      ELSE SourceAudio
    /\ UNCHANGED <<ask, cover, clean, region, canvas, context, blend, wave>>

\* The frames of latents that begin at these samples of the source.
Encoded(order) == [j \in DOMAIN order |-> VaeFrame(source, order[j])]

\* ops_encode_src: audio goes through the encoder, latents are taken as they
\* are.  The timbre reference only fails if the encoder cannot be had.
EncodeSource ==
    /\ stage = "encode"
    /\ \/ (ask.src = "audio" \/ ask.ref) /\ Fails /\ UNCHANGED <<cover, clean>>
       \/ /\ stage' = IF RoundTrips THEN "fsq"
                       ELSE IF Verbatim \/ ~NeedsSource THEN "params" ELSE "region"
          /\ \/ /\ ask.src # "audio"
                /\ cover' = source
             \/ /\ ask.src = "audio"
                /\ \E chunk \in TileChoices :
                      cover' = Encoded(EncodeOrder(Len(source), chunk))
          /\ clean' = IF RoundTrips THEN cover' ELSE <<>>
    /\ UNCHANGED <<ask, pad, source, region, canvas, context, blend, wave>>

\* The clean copy is kept for the noise; a roundtrip that cannot be made leaves
\* the latents as they are.
Fsq ==
    /\ stage = "fsq"
    /\ \/ UNCHANGED cover
       \/ cover' = [j \in DOMAIN cover |-> [cover[j] EXCEPT !.kind = "fsq"]]
    /\ stage' = "params"
    /\ UNCHANGED <<ask, pad, source, clean, region, canvas, context, blend, wave>>

\* adjust_region_coords.
Adjusted ==
    <<ask.start + pad,
      IF ask.end < 0 THEN IF ask.start < 0 THEN pad ELSE SourceLength + pad
      ELSE ask.end + pad>>

\* A repaint, or a lego, which may have no region.
AdjustRegion ==
    /\ stage = "region"
    /\ IF ~HaveRegion THEN stage' = "params" /\ UNCHANGED region
       ELSE IF Adjusted[2] <= Adjusted[1] THEN Fails /\ UNCHANGED region
       ELSE stage' = "params" /\ region' = Adjusted
    /\ UNCHANGED <<ask, pad, source, cover, clean, canvas, context, blend, wave>>

\* ops_resolve_params and, later on, a custom schedule of two values or more,
\* whose last is the end point.
StepCount ==
    IF ask.custom >= 2 THEN ask.custom - 1
    ELSE Least(IF ask.steps <= 0 THEN DefaultSteps ELSE ask.steps, MaxSteps)

LongestCodes == Max({0} \cup {Codes(b) : b \in 1 .. Total})

\* ops_resolve_T: the source's length, the longest codes', or the duration's,
\* rounded up to patches.
ResolveT ==
    /\ stage = "params"
    /\ LET have == LongestCodes > 0
           frames == IF UseSourceContext /\ HaveCover THEN Len(cover)
                     ELSE IF have THEN LongestCodes * CodeFrames
                     ELSE (IF ask.dur > 0 THEN ask.dur ELSE DefaultDur) \div SamplesPerFrame
           T == ((frames + Patch - 1) \div Patch) * Patch
       IN  /\ canvas' = [T |-> T, steps |-> StepCount, have |-> have]
           /\ IF (UseSourceContext /\ ~HaveCover /\ ~have) \/ T > MaxT THEN Fails
              ELSE stage' = "text"
    /\ UNCHANGED <<ask, pad, source, cover, clean, region, context, blend, wave>>

\* The text and condition encoders.
EncodeText ==
    /\ stage = "text"
    /\ stage' \in {"context", "failed"}
    /\ UNCHANGED <<ask, pad, source, cover, clean, region, canvas, context, blend, wave>>

\* repaint_t0 and repaint_t1, which only a repaint gets.
RegionFrames ==
    IF IsRepaint
    THEN <<Least(Max({0, region[1] \div SamplesPerFrame}), canvas.T),
           Least(region[2] \div SamplesPerFrame, canvas.T)>>
    ELSE <<0, 0>>

InRegion(t) == HaveRegion /\ RegionFrames[1] <= t /\ t < RegionFrames[2]

\* Slip: the source is read up to the canvas' end.
CoverContextUnpatched(t) ==
    [src  |-> IF IsRepaint /\ InRegion(t) THEN SilenceAt(t) ELSE At(cover, t),
     mask |-> HaveRegion => InRegion(t)]

\* The context of a task with a source: a repaint silences its region, and the
\* canvas may be longer than the source by less than a patch.
CoverContext(t) ==
    [src  |-> IF (IsRepaint /\ InRegion(t)) \/ t >= Len(cover) THEN SilenceAt(t) ELSE At(cover, t),
     mask |-> HaveRegion => InRegion(t)]

\* The context of track b's own codes, followed by silence from its beginning.
CodeContext(b, t) ==
    LET decoded == Least(Max({0, Codes(b)}) * CodeFrames, canvas.T)
    IN  [src  |-> IF t < decoded THEN Frame("code", <<batch[b][1], t>>) ELSE SilenceAt(t - decoded),
         mask |-> TRUE]

BuildContext ==
    /\ stage = "context"
    /\ \/ /\ context' = [b \in 1 .. Total |-> [j \in 1 .. canvas.T |->
                IF UseSourceContext /\ HaveCover THEN CoverContext(j - 1)
                ELSE CodeContext(b, j - 1)]]
          /\ stage' = "noise"
       \/ /\ ~(UseSourceContext /\ HaveCover) /\ canvas.have
          /\ Fails
          /\ UNCHANGED context
    /\ UNCHANGED <<ask, pad, source, cover, clean, region, canvas, blend, wave>>

\* ops_build_context_silence: the share of the steps, in halves, that hear the
\* source; -1 for all of them.
CoverSteps(steps) ==
    IF UseSourceContext /\ ~HaveRegion /\ ask.strength < 2
    THEN (steps * ask.strength) \div 2 ELSE -1

\* The share is that of the steps that are left.
PlanOf(steps, guidance, direct) ==
    [n |-> Total, steps |-> steps, cover |-> CoverSteps(steps),
     guidance |-> guidance, direct |-> direct]

\* ops_init_noise and the call of the sampler.  The noise may be blended with
\* the clean source, the last frame repeated; the schedule then starts at the
\* timestep nearest to the noise that is left.
InitNoise ==
    /\ stage = "noise"
    /\ \E guidance \in Guidance, direct \in BOOLEAN,
          first \in IF UseSourceContext /\ HaveCover /\ ask.noise
                    THEN 0 .. canvas.steps - 1 ELSE {0} :
          Generate(PlanOf(canvas.steps - first, guidance, direct))
    /\ blend' = IF ~(UseSourceContext /\ HaveCover /\ ask.noise) THEN <<>>
                ELSE LET from == IF clean # <<>> THEN clean ELSE cover
                     IN  [j \in 1 .. canvas.T |-> At(from, Least(j - 1, Len(cover) - 1))]
    /\ stage' = "dit"
    /\ UNCHANGED <<ask, pad, source, cover, clean, region, canvas, context, wave>>

DitStep ==
    /\ stage = "dit"
    /\ Sample(cancel)
    /\ UNCHANGED shapeVars

\* The sampler's graph is released.  Of the shape only what the decode reads is
\* kept from here on.
DitEnds ==
    /\ stage = "dit"
    /\ at \in {"done", "failed"}
    /\ stage' = at
    /\ clean' = <<>> /\ context' = <<>> /\ blend' = <<>>
    /\ cover' = IF HaveRegion THEN cover ELSE <<>>
    /\ source' = IF HaveRegion /\ ask.src = "audio" THEN source ELSE <<>>
    /\ plan' = NoPlan /\ at' = "idle" /\ step' = 0 /\ host' = Cover /\ dev' = NoDevice
    /\ UNCHANGED <<ask, pad, region, canvas, wave>>

Phase1 ==
    \/ Pad
    \/ EncodeSource
    \/ Fsq
    \/ AdjustRegion
    \/ ResolveT
    \/ EncodeText
    \/ BuildContext

-----------------------------------------------------------------------------
(* ops_vae_decode.                                                           *)

\* The DiT's output, with the source's latents outside the region of a task
\* that has one.
SplicedLatent(t) ==
    IF HaveRegion /\ ~InRegion(t) /\ t < Len(cover) THEN cover[t + 1] ELSE Gen

\* The samples outside the region come from the source's own audio if it was
\* sent as audio.
FromSource(i) ==
    /\ source # <<>> /\ i <= Len(source)
    /\ ~(i > RegionFrames[1] * SamplesPerFrame /\ i <= RegionFrames[2] * SamplesPerFrame)

\* A track through the decoder and the two splices.
DecodedWave(order) ==
    [i \in 1 .. Len(order) * SamplesPerFrame |->
        IF FromSource(i) THEN source[i]
        ELSE SplicedLatent(order[(i - 1) \div SamplesPerFrame + 1])
                .of[((i - 1) % SamplesPerFrame) + 1]]

Decode ==
    /\ IF audio'[track] # "pcm" THEN UNCHANGED wave
       ELSE \E chunk \in TileChoices :
               /\ DecodeTileCount(canvas.T, chunk) = tiles
               /\ wave' = DecodedWave(DecodeOrders[canvas.T][chunk])
    /\ UNCHANGED <<ask, stage, pad, source, cover, clean, region, canvas, context, blend>>

-----------------------------------------------------------------------------
(* The job: SynthBatch, with its DiT phase and its decode as they are above. *)

JobInit == Init /\ ShapeInit /\ SamplerInit

InDit == pc = "dit" /\ UNCHANGED vars

\* The job goes on with what its phase 1 came to.
Phase1Ends ==
    /\ stage \in {"done", "failed"}
    /\ Dit
    /\ job' = (stage = "done")
    /\ job' => \E chunk \in TileChoices : tiles' = DecodeTileCount(canvas.T, chunk)

JobWorker ==
    \/ InDit /\ Phase1 /\ UNCHANGED samplerVars
    \/ InDit /\ InitNoise
    \/ InDit /\ DitStep
    \/ InDit /\ DitEnds
    \/ Phase1Ends /\ UNCHANGED <<shapeVars, samplerVars>>
    \/ KeepTrack /\ Decode /\ UNCHANGED samplerVars
    \/ (Start \/ Load \/ DecodeTile \/ RunDone \/ RunFailed \/ Encode \/ Build \/ Finish
          \/ Settle)
          /\ UNCHANGED <<shapeVars, samplerVars>>

JobNext == JobWorker \/ ((Cancel \/ Returned) /\ UNCHANGED <<shapeVars, samplerVars>>)

jobVars == <<vars, shapeVars, samplerVars>>

JobSpec == JobInit /\ [][JobNext]_jobVars /\ WF_jobVars(JobWorker)

-----------------------------------------------------------------------------
(* Properties.                                                               *)

\* The region asked for, in the time of the source as it was sent.
AskedFrom == ask.start
AskedTo == IF ask.end >= 0 THEN ask.end ELSE IF ask.start < 0 THEN 0 ELSE SourceLength

\* Where the source begins on the canvas, and what it sounds like.
Offset == IF ask.src = "audio" THEN pad ELSE Frames(pad) * SamplesPerFrame
SourceEnd == IF ask.src = "audio" THEN Len(source) ELSE Len(cover) * SamplesPerFrame
Original(i) == IF i \in 0 .. SourceLength - 1 THEN i ELSE Silent

\* How far inside the region its end may be missed: the region is cut down to
\* whole frames, and latents are also padded by whole frames, to the nearest.
Slack == SamplesPerFrame + IF ask.src = "latents" THEN SamplesPerFrame \div 2 ELSE 0

\* The track is no shorter than the source's whole frames.  A frame or more
\* outside the region it is the source, at its own time; a frame or more inside
\* the region, a frame and a half before the end of one on latents, it is what
\* the DiT made.
Delivered ==
    /\ (SourceEnd \div SamplesPerFrame) * SamplesPerFrame <= Len(wave)
    /\ \A p \in 0 .. Least(Len(wave), SourceEnd) - 1 :
           LET i == p - Offset
           IN  /\ (i < AskedFrom - SamplesPerFrame \/ i >= AskedTo + SamplesPerFrame)
                     => wave[p + 1] = Original(i)
               /\ (i >= AskedFrom + SamplesPerFrame /\ i < AskedTo - Slack)
                     => wave[p + 1] = Generated

\* A repaint, in the source or beyond its ends, from audio or from latents,
\* changes what was asked and nothing else: the padding, the shift of the
\* region, the rounding to frames and patches, the tiles of both coders and the
\* two splices agree on where the region is.
RegionKept == IsRepaint /\ wave # <<>> => Delivered

\* The DiT hears what its buffers hold: no frame of the context or of the noise
\* comes from beyond a buffer, the codes a track hears are its own request's,
\* and the noise is blended with the clean source, never with the one the FSQ
\* roundtrip degraded.
ConditioningFits ==
    /\ \A b \in DOMAIN context : \A j \in DOMAIN context[b] :
          LET src == context[b][j].src
          IN  src # BeyondFrame /\ (src.kind = "code" => src.of[1] = batch[b][1])
    /\ \A j \in DOMAIN blend : blend[j].kind = "vae" /\ blend[j] # BeyondFrame

\* docs/ARCHITECTURE.md:425, a lego with a region has its mask "0.0 outside /
\* 1.0 in zone" and is generated in the zone.  It does not hold: the region's
\* frames are computed for a repaint only.
LegoRegion == IsLegoRegion /\ wave # <<>> => Delivered
=============================================================================
