----------------------------- MODULE DitSampler -----------------------------
(***************************************************************************)
(* dit_ggml_generate of src/dit-sampler.h: N tracks are denoised together  *)
(* over one graph that is built once and computed once or twice a step.    *)
(* Its inputs live in device memory, which a computation may use as        *)
(* scratch: the loop decides what to upload again, and when.  At cover     *)
(* step the context and the text conditioning are swapped for those of     *)
(* text2music.                                                             *)
(***************************************************************************)
EXTENDS Integers, Sequences

VARIABLES
    plan,  \* the call: [n, steps, cover, guidance, direct]
    at,    \* where the loop is
    step,
    host,  \* the conditioning in enc_buf, ca_data and input_buf
    dev    \* the graph's input tensors

samplerVars == <<plan, at, step, host, dev>>

\* The conditioning of the source or code task, that of text2music, the null
\* one of classifier-free guidance, and what a computation may leave behind.
Cover == "cover"
Plain == "plain"
Null == "null"
Scratch == "scratch"
NoTime == -1

\* Without guidance, with both predictions in one graph of 2N, or in two passes.
Guidance == {"off", "batched", "two_pass"}

NoPlan == [n |-> 0, steps |-> 0, cover |-> -1, guidance |-> "off", direct |-> TRUE]
NoDevice == [enc |-> Scratch, null |-> Scratch, mask |-> Scratch, const |-> Scratch,
             input |-> Scratch, t |-> <<>>]

SamplerInit ==
    /\ plan = NoPlan /\ at = "idle" /\ step = 0 /\ host = Cover /\ dev = NoDevice

\* The graph is allocated, its constants and the conditioning uploaded.  null
\* stands for the slots N .. 2N-1 of enc_hidden, const for the positions and
\* the window mask.
Generate(p) ==
    /\ plan' = p
    /\ step' = 0 /\ host' = Cover
    /\ \/ at' = "failed" /\ dev' = NoDevice
       \/ /\ at' = "top"
          /\ dev' = [enc |-> Cover, null |-> Null, mask |-> Cover, const |-> "own",
                     input |-> Scratch, t |-> [b \in 1 .. p.n |-> NoTime]]

TwoPass == plan.guidance = "two_pass"

\* Slip: a direct graph never uploads the conditioning again.
UploadSwapOnly(d, h) ==
    LET swapped == h # host
    IN  [d EXCEPT !.enc   = IF ~plan.direct \/ swapped THEN h ELSE @,
                  !.null  = IF ~plan.direct \/ swapped THEN Null ELSE @,
                  !.mask  = IF ~plan.direct \/ swapped THEN h ELSE @,
                  !.const = IF ~plan.direct THEN "own" ELSE @,
                  !.input = h,
                  !.t     = [b \in DOMAIN @ |-> step]]

\* What a step uploads before its first pass: a direct graph keeps the masks
\* and positions, and the conditioning unless the second pass replaced it.
Upload(d, h) ==
    LET swapped == h # host
    IN  [d EXCEPT !.enc   = IF ~plan.direct \/ TwoPass \/ swapped THEN h ELSE @,
                  !.null  = IF ~plan.direct \/ TwoPass \/ swapped THEN Null ELSE @,
                  !.mask  = IF ~plan.direct \/ swapped THEN h ELSE @,
                  !.const = IF ~plan.direct THEN "own" ELSE @,
                  !.input = h,
                  !.t     = [b \in DOMAIN @ |-> step]]

\* The swap at the cover step.
Switch(h) == IF plan.cover >= 0 /\ step >= plan.cover THEN Plain ELSE h

\* The poll, the swap and the uploads at the top of a step.
StepTop(cancelled) ==
    /\ at = "top"
    /\ IF cancelled THEN at' = "failed" /\ UNCHANGED <<host, dev>>
       ELSE /\ host' = Switch(host)
            /\ dev' = Upload(dev, host')
            /\ at' = "cond"
    /\ UNCHANGED <<plan, step>>

\* A direct graph flags what must outlive a computation as an output, which the
\* timesteps and the noisy latents are not; the scheduler's fallback keeps
\* nothing.
Clobbered(d) ==
    LET t == [b \in DOMAIN d.t |-> NoTime]
    IN  IF plan.direct THEN [d EXCEPT !.t = t, !.input = Scratch]
        ELSE [NoDevice EXCEPT !.t = t]

AfterCompute(d) == {d, Clobbered(d)}

\* What the second pass uploads: of the timesteps, the first alone.
UploadNull(d) ==
    [d EXCEPT !.enc   = Null,
              !.input = host,
              !.t     = [b \in DOMAIN @ |-> IF b = 1 THEN step ELSE @[b]],
              !.mask  = IF plan.direct THEN @ ELSE host,
              !.const = IF plan.direct THEN @ ELSE "own"]

\* The forward pass with the tracks' own conditioning.
CondPass ==
    /\ at = "cond"
    /\ \E d \in AfterCompute(dev) :
          IF TwoPass THEN dev' = UploadNull(d) /\ at' = "uncond"
          ELSE dev' = d /\ at' = "solve"
    /\ UNCHANGED <<plan, step, host>>

UncondPass ==
    /\ at = "uncond"
    /\ dev' \in AfterCompute(dev)
    /\ at' = "solve"
    /\ UNCHANGED <<plan, step, host>>

\* The last step predicts the clean latents, the others are the solver's.
Solve ==
    /\ at = "solve"
    /\ IF step = plan.steps - 1 THEN at' = "done" /\ UNCHANGED step
       ELSE at' = "top" /\ step' = step + 1
    /\ UNCHANGED <<plan, host, dev>>

Sample(cancelled) ==
    \/ StepTop(cancelled)
    \/ CondPass
    \/ UncondPass
    \/ Solve

-----------------------------------------------------------------------------
\* The conditioning the cover strength gives a step.
Due == IF plan.cover >= 0 /\ step >= plan.cover THEN Plain ELSE Cover

\* Every forward pass reads the conditioning, masks and context of its own
\* step and pass, and the first track's timestep, whatever the computation
\* before it left in the tensors (dit-sampler.h:427-487, 568-602).
PassReadsOwn ==
    /\ at \in {"cond", "uncond"} =>
          /\ dev.mask = Due /\ dev.input = Due /\ dev.const = "own"
          /\ dev.t[1] = step
    /\ at = "cond" =>
          /\ dev.enc = Due
          /\ plan.guidance = "batched" => dev.null = Null
    /\ at = "uncond" => dev.enc = Null

\* dit-graph.h:468, "flow matching timestep per sample": a pass reads the
\* step's timestep for each track.  It does not hold for the second pass.
TimestepsWhole ==
    at \in {"cond", "uncond"} => \A b \in 1 .. plan.n : dev.t[b] = step
=============================================================================
