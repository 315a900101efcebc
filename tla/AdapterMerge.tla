---------------------------- MODULE AdapterMerge ----------------------------
(***************************************************************************)
(* src/adapter-merge.h and src/adapter-functional.h: which weights of a DiT *)
(* an adapter file changes, and when the file is refused.  A file is read   *)
(* entry by entry and grouped by the weight each entry belongs to; what is  *)
(* kept of an entry here is whether it is there and whether its shape fits. *)
(***************************************************************************)
EXTENDS FiniteSets

CONSTANTS
    Weights,  \* the decoder weights in the DiT's file
    Staged    \* those pending as they are in the file; others were converted

ASSUME StagedAssumption == Staged \subseteq Weights

Parts == {"none", "fits", "odd"}

(* A file:                                                                    *)
(*   dir      a PEFT directory, not a single file                             *)
(*   lokr     LyCORIS LoKr modules (one entry per module, in a)               *)
(*   alias    two names in it stand for the same entry                        *)
(*   config   adapter_config.json is there and valid                          *)
(*   dora     its use_dora                                                    *)
(*   targets  its target_modules, each the set of weights it names            *)
(*   a, b, m  for each weight lora_A, lora_B and the magnitude vector         *)

With(part) == {w \in DOMAIN part : part[w] # "none"}

Targeted(f) == UNION f.targets

\* Slip: a directory may hold fewer weights than its configuration names.
InventoryPartial(f) ==
    LET made == With(f.a)
    IN  /\ f.config
        /\ made # {}
        /\ With(f.b) = made
        /\ With(f.m) = IF f.dora THEN made ELSE {}
        /\ \A w \in made : "odd" \notin {f.a[w], f.b[w], f.m[w]}
        /\ made \subseteq Targeted(f) \cap Staged

\* The inventory a PEFT directory must pass before anything is merged.
Inventory(f) ==
    LET made == With(f.a)
    IN  /\ f.config
        /\ made # {}
        /\ With(f.b) = made
        /\ With(f.m) = IF f.dora THEN made ELSE {}
        /\ f.targets # {}
        /\ \A w \in made : "odd" \notin {f.a[w], f.b[w], f.m[w]}
        /\ made = Targeted(f) \cap Staged
        /\ \A t \in f.targets : t \cap made # {}

\* The entries the loop of adapter_merge_lora can use; it skips the others with
\* a warning.
LoraUsable(f) ==
    {w \in With(f.a) \cap Weights : f.a[w] = "fits" /\ f.b[w] = "fits" /\ f.m[w] # "odd"}

\* The same of adapter_merge_lokr: whole modules of fitting shapes.
LokrUsable(f) == {w \in With(f.a) \cap Weights : f.a[w] = "fits" /\ f.m[w] # "odd"}

Usable(f) == IF f.lokr THEN LokrUsable(f) ELSE LoraUsable(f)

Skipped(f) == With(f.a) \ Usable(f)

\* adapter_merge, for a merge into the weights and, with a consumer, for
\* factors beside them.
Accepts(f, functional) ==
    /\ Usable(f) # {}
    /\ IF f.lokr THEN ~functional /\ ~f.dir
       ELSE /\ ~f.alias
            /\ f.dir => Inventory(f)
            /\ functional => Skipped(f) = {}
    /\ functional \/ Usable(f) \subseteq Staged
=============================================================================
