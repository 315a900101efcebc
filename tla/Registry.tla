------------------------------ MODULE Registry ------------------------------
(***************************************************************************)
(* The models and adapters that the server knows by name, found once, when *)
(* it starts: src/model-registry.h, and what main and the workers of       *)
(* tools/ace-server.cpp ask of it.  A directory is the sequence of its     *)
(* entries in the order of their names; what the server sees of a GGUF     *)
(* file is the architecture in its header.                                 *)
(***************************************************************************)
EXTENDS Naturals, Sequences, FiniteSets, Functions

Buckets == {"lm", "dit", "enc", "vae"}

Architecture ==
    [lm |-> "acestep-lm", dit |-> "acestep-dit", enc |-> "acestep-text-enc",
     vae |-> "acestep-vae"]

\* The names of the chosen entries, in the order of the directory.
Names(entries, chosen) ==
    [k \in 1 .. Cardinality(chosen) |->
        entries[CHOOSE i \in chosen : Cardinality({j \in chosen : j <= i}) = k].name]

\* registry_scan with registry_classify_gguf: a file that is no GGUF, cannot be
\* read or has another architecture is skipped.
Scan(files) ==
    [b \in Buckets |->
        Names(files, {i \in DOMAIN files : files[i].gguf /\ files[i].arch = Architecture[b]})]

\* registry_scan_adapters: single files first, then the directories that hold
\* an adapter_model.safetensors.
ScanAdapters(entries) ==
    LET Kind(k) == Names(entries, {i \in DOMAIN entries : entries[i].kind = k})
    IN  Kind("safetensors") \o Kind("peft")

\* registry_find and registry_find_adapter.
Find(bucket, name) == name \in Range(bucket)

\* main's validation: some pipeline is complete, or at least the LM is there.
Usable(registry) ==
    \/ registry.lm # <<>>
    \/ \A b \in {"dit", "enc", "vae"} : registry[b] # <<>>

\* resolve_name: the request's own, else the one loaded, else the first.
ResolveName(bucket, requested, loaded) ==
    IF requested # "" THEN requested
    ELSE IF loaded # "" THEN loaded
    ELSE IF bucket # <<>> THEN bucket[1] ELSE ""

\* handle_caption: a name it can resolve in one way only.
Exact(bucket, name) == IF name = "" THEN Len(bucket) = 1 ELSE Find(bucket, name)
=============================================================================
