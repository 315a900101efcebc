----------------------------- MODULE ModuleLoad -----------------------------
(***************************************************************************)
(* What happens inside a miss of the store: the loaders of the eight kinds  *)
(* of modules, the backends they share (src/backend.h), and the adapter a   *)
(* DiT is loaded with.  A load runs under the store's mutex and is one      *)
(* action; it may be refused at any of its steps, and what it had taken by  *)
(* then is given back or not, as the loader's return at that step says.     *)
(***************************************************************************)
EXTENDS ModelStore, AdapterMerge, Sequences

CONSTANTS
    Kind,      \* each key's ModelKind
    Adapted,   \* the DiT key with an adapter
    Files,     \* the adapter files the directory may hold at a load
    Settings   \* how the server applies adapters: functional, normalized, zero

VaeKinds == {"vae_dec", "vae_enc"}

ASSUME KindAssumption ==
    \A k \in Keys : (k \in Exits) = (Kind[k] \in VaeKinds)

ASSUME SettingsAssumption ==
    Settings \subseteq [functional : BOOLEAN, normalized : BOOLEAN, zero : BOOLEAN]

\* Of each entry a file has, the shape fits or it does not.
ASSUME FilesAssumption ==
    \A f \in Files :
        /\ f.dir \in BOOLEAN /\ f.lokr \in BOOLEAN
        /\ \A part \in {f.a, f.b, f.m} :
              DOMAIN part = DOMAIN f.a /\ \A w \in DOMAIN part : part[w] \in Parts

VARIABLES
    refs,     \* g_backend_refs: the backends exist while it is positive
    stray,    \* what refused loads never gave back, by the step that took it
    careless, \* the keys of those loads
    setting,  \* the adapter mode and strength of this server and its request
    worn,     \* what the resident adapted DiT makes of its adapter
    cpu       \* the CPU tables that are filled

loadVars == <<storeVars, refs, stray, careless, setting, worn, cpu>>

\* The steps of each loader, in order.
LmSteps == <<"pool", "sched", "file", "config", "tensors", "upload", "kv", "arenas">>
TextSteps == <<"pool", "sched", "file", "tensors", "upload">>
CondSteps == <<"pool", "sched", "file", "tensors", "upload">>
DitSteps ==
    <<"mode", "pool", "sched", "file", "config", "tensors", "adapter", "upload", "prepare">>
TokSteps == <<"pool", "file", "tensors", "upload", "sched">>
DetokSteps == <<"pool", "file", "tensors", "upload", "sched">>
VaeSteps == <<"file", "pool", "sched", "upload", "tensors">>
VaeEncSteps == <<"file", "pool", "sched", "upload", "tensors">>

LoaderSteps(kind) ==
    CASE kind = "lm"      -> LmSteps
      [] kind = "text"    -> TextSteps
      [] kind = "cond"    -> CondSteps
      [] kind = "dit"     -> DitSteps
      [] kind = "tok"     -> TokSteps
      [] kind = "detok"   -> DetokSteps
      [] kind = "vae_dec" -> VaeSteps
      [] kind = "vae_enc" -> VaeEncSteps

\* backend_init makes the backends, which may fail, only when nobody has them;
\* otherwise they are shared.
MakesPool == refs = 0
Taken(n) == n + 1

\* The steps that take something a refused load may leave behind; the mapped
\* file is closed on every path.
Taking == {"pool", "sched", "tensors", "upload", "kv"}

\* The steps whose failure ends the process: gf_load_tensor does not return
\* without its tensor, and the VAE loaders have no other way to fail.
Ends(kind, step) ==
    \/ step = "pool" /\ MakesPool
    \/ step \in {"sched", "tensors", "kv"}
    \/ kind \in VaeKinds /\ step \in {"file", "upload"}

\* The steps whose failure makes the loader return false.  The LM's loader does
\* not look at the result of its upload.
Refuses(kind, step) ==
    \/ step \in {"file", "config", "arenas"}
    \/ step = "upload" /\ kind # "lm"

\* Slip: the DiT's loader returns as it is, too.
UndoesNone(kind) == FALSE

\* The DiT's loader frees the module on every refusal; the others return as they
\* are, and the store only deletes the struct.
Undoes(kind) == kind = "dit"

Left(kind, i) ==
    IF Undoes(kind) THEN {} ELSE {LoaderSteps(kind)[j] : j \in 1 .. i - 1} \cap Taking

StrayWith(S) == [s \in Taking |-> IF s \in S THEN stray[s] + 1 ELSE stray[s]]

\* backend_release, once for each module that is unloaded.
Given(n, modules) ==
    IF n >= Cardinality(modules) THEN n - Cardinality(modules) ELSE 0

Bare == [on |-> {}, how |-> "base", file |-> {}, due |-> {}]

\* An adapter of scale zero is no adapter.
Wears(k) == k = Adapted /\ ~setting.zero

\* Normalized strength needs factors beside the weights.
Unsupported == setting.normalized /\ ~setting.functional

\* adapter_functional_prepare comes after the upload.
Prepares(k) == Wears(k) /\ setting.functional

\* What a loaded DiT may wear, of the files it could find and accept.
Dress(f, functional) ==
    [on   |-> Usable(f),
     how  |-> IF functional THEN "beside" ELSE "merged",
     file |-> With(f.a),
     due  |-> IF f.dir THEN Targeted(f) \cap Staged ELSE {}]

Outfits ==
    [functional \in BOOLEAN |->
        {Dress(f, functional) : f \in {g \in Files : Accepts(g, functional)}}]

WornWithout(E) == IF Adapted \in E THEN Bare ELSE worn

LoadInit ==
    /\ StoreInit
    /\ refs = 0
    /\ stray = [s \in Taking |-> 0]
    /\ careless = {}
    /\ setting \in Settings
    /\ worn = Bare
    /\ cpu = {}

-----------------------------------------------------------------------------
Kept == UNCHANGED <<stray, careless, setting, cpu>>

HitAgain(k) == Hit(k) /\ Kept /\ UNCHANGED <<refs, worn>>

ClashAborts(k) == Clash(k) /\ Kept /\ UNCHANGED <<refs, worn>>

\* A load that goes through: the modules evicted for it give the backends back
\* first, then the new one takes them.
LoadModule(k, a) ==
    /\ Load(k, a)
    /\ refs' = Taken(Given(refs, Evictable(k)))
    /\ IF Wears(k)
       THEN /\ ~Unsupported
            /\ worn' \in Outfits[setting.functional]
       ELSE worn' = WornWithout(Evictable(k))
    /\ Kept

\* A load that is refused at its i-th step.  An adapter can be refused for its
\* file or because the merge fails half way, with weights changed that were
\* only staged.
LoadRefused(k, i) ==
    LET step == LoaderSteps(Kind[k])[i]
        left == Left(Kind[k], i)
    IN  /\ k \notin Exits
        /\ \/ Refuses(Kind[k], step)
           \/ step = "mode" /\ k = Adapted /\ Unsupported
           \/ step = "adapter" /\ Wears(k)
           \/ step = "prepare" /\ Prepares(k)
        /\ LoadFails(k)
        /\ stray' = StrayWith(left)
        /\ careless' = IF left = {} THEN careless ELSE careless \cup {k}
        /\ LET n == Given(refs, Evictable(k))
           IN  refs' = IF "pool" \in left THEN Taken(n) ELSE n
        /\ worn' = WornWithout(Evictable(k))
        /\ UNCHANGED <<setting, cpu>>

\* A load that ends the process.
LoadEnds(k, i) ==
    /\ dead = "no"
    /\ ~Loaded(k)
    /\ \A q \in Evictable(k) : gpu[q].refs = 0
    /\ Ends(Kind[k], LoaderSteps(Kind[k])[i])
    /\ dead' = "exit"
    /\ UNCHANGED <<policy, gpu, owner, held, refs, worn>> /\ Kept

\* store_release: unloading frees the module, and that releases the backends.
ReleaseModule(a) ==
    /\ held[a] > 0
    /\ Release(a)
    /\ LET gone == {k \in Resident : gpu'[k].ptr = Null}
       IN  refs' = Given(refs, gone) /\ worn' = WornWithout(gone)
    /\ Kept

\* store_bpe, store_silence, store_dit_meta, and store_fsm, which needs the
\* tokenizer first: filled by the first caller that succeeds, then kept.
FillTable(t) ==
    /\ dead = "no"
    /\ t \notin cpu
    /\ t = "fsm" => "bpe" \in cpu
    /\ cpu' = cpu \cup {t}
    /\ UNCHANGED <<storeVars, refs, stray, careless, setting, worn>>

LoadNext ==
    \/ \E k \in Keys : HitAgain(k) \/ ClashAborts(k)
    \/ \E k \in Keys, a \in Addrs : LoadModule(k, a)
    \/ \E k \in Keys : \E i \in DOMAIN LoaderSteps(Kind[k]) : LoadRefused(k, i) \/ LoadEnds(k, i)
    \/ \E a \in Addrs : ReleaseModule(a)
    \/ \E t \in {"bpe", "silence", "fsm", "meta"} : FillTable(t)

LoadSpec == LoadInit /\ [][LoadNext]_loadVars

-----------------------------------------------------------------------------
(* Properties.                                                               *)

\* Every loaded module has its backends: they are counted once for each module
\* that is loaded and once for each load that was refused and kept its own, so
\* they outlive every module, and go with the last one unless such a load was.
\* A DiT that is refused, for its adapter say, is never such a load.
PoolFollows ==
    /\ refs = Cardinality(Resident) + stray["pool"]
    /\ \A k \in careless : Kind[k] # "dit"

\* The adapter a resident DiT wears is the whole adapter wherever the code says
\* so: of a PEFT directory every staged weight its configuration names, with
\* factors beside the weights every weight of the file; it is never empty, and
\* a scale of zero leaves the weights as they are.
AdapterWhole ==
    IF Adapted \in Resident /\ ~setting.zero
    THEN /\ worn.on # {}
         /\ worn.due # {} => worn.on = worn.due
         /\ worn.how = "beside" => worn.on = worn.file
         /\ worn.how = "merged" => worn.on \subseteq Staged
    ELSE worn = Bare
=============================================================================
