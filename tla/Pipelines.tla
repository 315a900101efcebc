------------------------------ MODULE Pipelines ------------------------------
(***************************************************************************)
(* The server's worker on top of the model store: what each kind of job    *)
(* requires and releases, in which order and how deep, on every way out,   *)
(* and the names of the last models used that resolve_name falls back on.  *)
(* A handle is released by the ModelHandle of its scope, so an error       *)
(* return unwinds the scopes that are open.                                *)
(***************************************************************************)
EXTENDS ModelStore, Sequences, SequencesExt

CONSTANTS Lms, Dits, Vaes,  \* the registry's buckets, in their order
          Adapters,         \* the adapters a request may name, "" for none
          AddressOf         \* bound: the address a key is always loaded at

\* Two keys are the same module when ModelKeyEq says so: only a DiT's key
\* looks at the adapter.
Key(sort, path, adapter) == <<sort, path, adapter>>
Lm(n) == Key("lm", n, "")
TextEnc == Key("text_enc", "text", "")
CondEnc(d) == Key("cond_enc", d, "")
Dit(d, a) == Key("dit", d, a)
VaeEnc(v) == Key("vae_enc", v, "")
VaeDec(v) == Key("vae_dec", v, "")
FsqTok(d) == Key("fsq_tok", d, "")
FsqDetok(d) == Key("fsq_detok", d, "")

NamesIn(bucket) == {bucket[i] : i \in DOMAIN bucket}

AllKeys ==
    {Lm(n) : n \in NamesIn(Lms)} \cup {TextEnc}
      \cup (UNION {{VaeEnc(v), VaeDec(v)} : v \in NamesIn(Vaes)})
      \cup (UNION {{CondEnc(d), FsqTok(d), FsqDetok(d)}
                     \cup {Dit(d, a) : a \in Adapters} : d \in NamesIn(Dits)})

VaeKeys == UNION {{VaeEnc(v), VaeDec(v)} : v \in NamesIn(Vaes)}

ASSUME KeysAssumption == Keys = AllKeys /\ Exits = VaeKeys
ASSUME AddressAssumption ==
    /\ AddressOf \in [Keys -> Addrs]
    /\ \A k, q \in Keys : AddressOf[k] = AddressOf[q] => k = q

VARIABLES
    mode,   \* "idle", "running" or, after an error, "unwinding"
    job,    \* the names the job resolved, while it runs
    prog,   \* the requires and releases it still has to do
    stack,  \* the handles of the open scopes, innermost last
    loadedLm, loadedDit, loadedVae  \* g_loaded_lm, g_loaded_dit, g_loaded_vae

workerVars == <<mode, job, prog, stack>>
stickyVars == <<loadedLm, loadedDit, loadedVae>>
vars == <<storeVars, workerVars, stickyVars>>

-----------------------------------------------------------------------------
(* What the jobs do with the store.  "loss" is what an error costs: the job, *)
(* or the number of following steps that are skipped.                        *)

Job == -1
Take(k, loss) == [op |-> "take", key |-> k, loss |-> loss]
Give(loss) == [op |-> "give", key |-> NoKey, loss |-> loss]

\* A scope whose failure fails the job.
Scope(k, inner) == <<Take(k, Job)>> \o inner \o <<Give(Job)>>

\* A scope whose failure, to load or to compute, only skips the rest.
Attempt(k, rest) == <<Take(k, 1 + Len(rest)), Give(Len(rest))>> \o rest

When(b, steps) == IF b THEN steps ELSE <<>>

\* pinned_encode_src_and_timbre: one scope around both encodes, if either of
\* them goes through the encoder.  Without one the timbre is silence.
Encodes(j) ==
    LET inner == When(j.src = "audio", Scope(VaeEnc(j.vae), <<>>))
                   \o When(j.ref = "audio", Attempt(VaeEnc(j.vae), <<>>))
    IN  When(inner # <<>>, Scope(VaeEnc(j.vae), inner))

\* ops_fsq_roundtrip, of the cover task.
Roundtrip(j) == Attempt(FsqTok(j.dit), Attempt(FsqDetok(j.dit), <<>>))

\* Slip: the text encoder's scope still stands open around the next one.
TextNested(j) == Scope(TextEnc, Scope(CondEnc(j.dit), <<>>))

\* ops_encode_text.
Text(j) == Scope(TextEnc, <<>>) \o Scope(CondEnc(j.dit), <<>>)

\* run_tail: text, the codes of a text2music request, the DiT; then phase 2.
Synth(j) ==
    Encodes(j)
      \o When(j.task = "cover", Roundtrip(j))
      \o Text(j)
      \o When(j.task = "text2music" /\ j.src = "codes", Scope(FsqDetok(j.dit), <<>>))
      \o Scope(Dit(j.dit, j.adapter), <<>>)
      \o Scope(VaeDec(j.vae), <<>>)

\* ace_understand_generate.
Understand(j) ==
    When(j.src = "audio", Scope(VaeEnc(j.vae), <<>>))
      \o Scope(FsqTok(j.dit), <<>>)
      \o Scope(Lm(j.lm), <<>>)

\* "remix" stands for cover-nofsq, repaint, lego, extract and complete, which
\* use the same modules.
SynthTasks == {"text2music", "cover", "remix"}
Tasks == SynthTasks \cup {"lm", "understand", "decode", "encode"}

Program(j) ==
    CASE j.task \in SynthTasks -> Synth(j)
      [] j.task = "understand" -> Understand(j)
      [] j.task = "lm" -> Scope(Lm(j.lm), <<>>)
      [] j.task = "decode" -> Scope(VaeDec(j.vae), <<>>)
      [] j.task = "encode" -> Scope(VaeEnc(j.vae), <<>>)

\* The sources a task can come with; the reference is a synth job's alone.
Sources(task) ==
    CASE task = "text2music" -> {"none", "codes"}
      [] task \in {"cover", "remix", "understand"} -> {"audio", "latents"}
      [] OTHER -> {"none"}
References(task) == IF task \in SynthTasks THEN {"none", "audio", "latents"} ELSE {"none"}

\* resolve_name: the request, else the last one used, else the first.
Resolve(bucket, requested, loaded) ==
    IF requested # "" THEN requested
    ELSE IF loaded # "" THEN loaded
    ELSE IF bucket # <<>> THEN bucket[1] ELSE ""

\* registry_find of the names that a worker function uses.
Found(j) ==
    /\ j.task \in {"lm", "understand"} => j.lm \in NamesIn(Lms)
    /\ j.task \in SynthTasks \cup {"understand"} => j.dit \in NamesIn(Dits)
    /\ j.task # "lm" => j.vae \in NamesIn(Vaes)

-----------------------------------------------------------------------------
Init ==
    /\ StoreInit
    /\ mode = "idle"
    /\ job = [task |-> "none"]
    /\ prog = <<>>
    /\ stack = <<>>
    /\ loadedLm = "" /\ loadedDit = "" /\ loadedVae = ""

\* A worker function resolves its names and starts.  A name the registry
\* does not have fails the job before it touches the store.
Begin(task, src, ref, lm, dit, vae, adapter) ==
    LET j == [task |-> task, src |-> src, ref |-> ref, adapter |-> adapter,
              lm |-> Resolve(Lms, lm, loadedLm),
              dit |-> Resolve(Dits, dit, loadedDit),
              vae |-> Resolve(Vaes, vae, loadedVae)]
    IN  /\ mode = "idle"
        /\ dead = "no"
        /\ Found(j)
        /\ mode' = "running"
        /\ job' = j
        /\ prog' = Program(j)
        /\ UNCHANGED <<storeVars, stack, stickyVars>>

NextIs(op) == mode = "running" /\ prog # <<>> /\ Head(prog).op = op

\* The steps left when n of those after the first are skipped.
Skip(n) == SubSeq(prog, n + 2, Len(prog))

\* A require: the caller gets a handle, or the store aborts the process.
Require ==
    /\ NextIs("take")
    /\ LET k == Head(prog).key
       IN  \/ /\ Hit(k) \/ Load(k, AddressOf[k])
              /\ stack' = Append(stack, gpu'[k].ptr)
              /\ prog' = Tail(prog)
           \/ Clash(k) /\ UNCHANGED <<stack, prog>>
    /\ UNCHANGED <<mode, job, stickyVars>>

\* The store returned a null pointer.
RequireNull ==
    /\ NextIs("take")
    /\ LoadFails(Head(prog).key)
    /\ IF Head(prog).loss = Job
       THEN mode' = "unwinding" /\ prog' = <<>>
       ELSE prog' = Skip(Head(prog).loss) /\ UNCHANGED mode
    /\ UNCHANGED <<job, stack, stickyVars>>

\* The scope is left, after its work or, where that is tolerated, without it.
ReleaseTop ==
    /\ NextIs("give")
    /\ Release(Last(stack))
    /\ stack' = Front(stack)
    /\ prog' = Tail(prog) \/ (Head(prog).loss # Job /\ prog' = Skip(Head(prog).loss))
    /\ UNCHANGED <<mode, job, stickyVars>>

\* An error or a cancel that fails the job, within a scope or between two.
JobFails ==
    /\ mode = "running"
    /\ stack = <<>> \/ (NextIs("give") /\ Head(prog).loss = Job)
    /\ dead = "no"
    /\ mode' = "unwinding"
    /\ prog' = <<>>
    /\ UNCHANGED <<storeVars, job, stack, stickyVars>>

\* Slip: an error return forgets the handles it still has.
UnwindNothing ==
    /\ mode = "unwinding"
    /\ stack # <<>>
    /\ dead = "no"
    /\ stack' = <<>>
    /\ UNCHANGED <<storeVars, mode, job, prog, stickyVars>>

Unwind ==
    /\ mode = "unwinding"
    /\ stack # <<>>
    /\ Release(Last(stack))
    /\ stack' = Front(stack)
    /\ UNCHANGED <<mode, job, prog, stickyVars>>

\* The worker function returns without having changed a name.
Failed ==
    /\ mode = "unwinding"
    /\ stack = <<>>
    /\ dead = "no"
    /\ mode' = "idle"
    /\ job' = [task |-> "none"]
    /\ UNCHANGED <<storeVars, prog, stack, stickyVars>>

\* Slip: every success remembers all the names the job resolved.
SucceededAll ==
    /\ mode = "running"
    /\ prog = <<>>
    /\ mode' = "idle"
    /\ job' = [task |-> "none"]
    /\ loadedLm' = job.lm /\ loadedDit' = job.dit /\ loadedVae' = job.vae
    /\ UNCHANGED <<storeVars, prog, stack>>

\* It succeeded: under --keep-loaded the names the job used are remembered,
\* otherwise they are cleared.  understand_worker keeps its DiT's name in
\* g_loaded_und_dit, which nothing reads.
Succeeded ==
    LET kept(name) == IF policy = "never" THEN name ELSE ""
    IN  /\ mode = "running"
        /\ prog = <<>>
        /\ dead = "no"
        /\ mode' = "idle"
        /\ job' = [task |-> "none"]
        /\ loadedLm' = IF job.task \in {"lm", "understand"} THEN kept(job.lm) ELSE loadedLm
        /\ loadedDit' = IF job.task \in SynthTasks THEN kept(job.dit) ELSE loadedDit
        /\ loadedVae' = IF job.task # "lm" THEN kept(job.vae) ELSE loadedVae
        /\ UNCHANGED <<storeVars, prog, stack>>

\* The process has ended.
Dead ==
    /\ dead # "no"
    /\ UNCHANGED vars

Next ==
    \/ \E task \in Tasks :
          \E src \in Sources(task), ref \in References(task), adapter \in Adapters,
             lm \in NamesIn(Lms) \cup {""}, dit \in NamesIn(Dits) \cup {""},
             vae \in NamesIn(Vaes) \cup {""} :
               Begin(task, src, ref, lm, dit, vae, adapter)
    \/ Require
    \/ RequireNull
    \/ ReleaseTop
    \/ JobFails
    \/ Unwind
    \/ Failed
    \/ Succeeded
    \/ Dead

Spec == Init /\ [][Next]_vars

-----------------------------------------------------------------------------
(* Properties.                                                               *)

\* Every variable stays in its range, and the handles the store counts as
\* held are those of the open scopes.
TypeOK ==
    /\ StoreTypeOK
    /\ mode \in {"idle", "running", "unwinding"}
    /\ \A i \in DOMAIN stack : held[stack[i]] > 0
    /\ loadedLm \in NamesIn(Lms) \cup {""}
    /\ loadedDit \in NamesIn(Dits) \cup {""}
    /\ loadedVae \in NamesIn(Vaes) \cup {""}

\* No job opens a scope inside another that strict forbids beside it, on any
\* of its paths, so the store never aborts the process (model-store.h calls a
\* conflicting require "a programming error in the caller").
NeverAborts == dead # "abort"

\* A job leaves nothing behind, whichever way it ended; under strict the GPU
\* is then empty.
IdleReleased ==
    mode = "idle" =>
        /\ \A a \in Addrs : held[a] = 0
        /\ policy = "strict" => Resident = {}

\* A remembered LM or DiT name is that of a module that is loaded, so a
\* request that leaves the name out does not load another one.
StickyLoaded ==
    /\ loadedLm # "" => Loaded(Lm(loadedLm))
    /\ loadedDit # "" => \E a \in Adapters : Loaded(Dit(loadedDit, a))
=============================================================================
