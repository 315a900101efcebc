----------------------------- MODULE ModelStore -----------------------------
(***************************************************************************)
(* src/model-store.cpp: the one owner of the models on the GPU.  Pipelines *)
(* require a module by key and release the handle they were given; the     *)
(* eviction policy decides what stays loaded between the two.  Every entry *)
(* point holds one mutex throughout, so each is one action, whichever      *)
(* thread calls it.  Handles are addresses, and the allocator may give a   *)
(* freed address out again.                                                *)
(***************************************************************************)
EXTENDS Integers

CONSTANTS Keys,    \* the ModelKeys, told apart by ModelKeyEq
          Addrs,   \* the addresses the allocator hands out
          Null,    \* the null pointer
          NoKey,   \* no key
          Exits    \* the keys whose loader ends the process when it fails

ASSUME NullAssumption == Null \notin Addrs
ASSUME NoKeyAssumption == NoKey \notin Keys
ASSUME ExitsAssumption == Exits \subseteq Keys

Policies == {"strict", "never"}

VARIABLES
    policy,  \* EVICT_STRICT or EVICT_NEVER, set at creation
    gpu,     \* each key's entry: its pointer, or Null, and its refcount
    owner,   \* handle_to_key
    held,    \* how often callers hold each handle and owe its release
    dead     \* "no", or how the process ended: "abort" or "exit"

storeVars == <<policy, gpu, owner, held, dead>>

Absent == [ptr |-> Null, refs |-> 0]
Loaded(k) == gpu[k].ptr # Null
Resident == {k \in Keys : Loaded(k)}

StoreInit ==
    /\ policy \in Policies
    /\ gpu = [k \in Keys |-> Absent]
    /\ owner = [a \in Addrs |-> NoKey]
    /\ held = [a \in Addrs |-> 0]
    /\ dead = "no"

-----------------------------------------------------------------------------
\* Slip: a hit hands the pointer out without counting it.
HitUncounted(k) ==
    /\ dead = "no"
    /\ Loaded(k)
    /\ held' = [held EXCEPT ![gpu[k].ptr] = @ + 1]
    /\ UNCHANGED <<policy, gpu, owner, dead>>

\* cache_hit.
Hit(k) ==
    /\ dead = "no"
    /\ Loaded(k)
    /\ gpu' = [gpu EXCEPT ![k].refs = @ + 1]
    /\ held' = [held EXCEPT ![gpu[k].ptr] = @ + 1]
    /\ UNCHANGED <<policy, owner, dead>>

\* What evict_all_except would unload: nothing under EVICT_NEVER.
Evictable(k) == IF policy = "strict" THEN Resident \ {k} ELSE {}

\* evict_all_except aborts the process at a module that is still in use.
Clash(k) ==
    /\ dead = "no"
    /\ ~Loaded(k)
    /\ \E q \in Evictable(k) : gpu[q].refs > 0
    /\ dead' = "abort"
    /\ UNCHANGED <<policy, gpu, owner, held>>

\* Slip: unloading leaves the handle in handle_to_key.
OwnerKept(E) == owner

\* The entries and handles that are left once E is unloaded.
GpuWithout(E) == [k \in Keys |-> IF k \in E THEN Absent ELSE gpu[k]]
OwnerWithout(E) ==
    [a \in Addrs |-> IF \E k \in E : gpu[k].ptr = a THEN NoKey ELSE owner[a]]

\* A miss: evict, load at an address that is free by then, install_entry.
\* The handle is entered with emplace, which keeps an entry that is there.
Load(k, a) ==
    /\ dead = "no"
    /\ ~Loaded(k)
    /\ \A q \in Evictable(k) : gpu[q].refs = 0
    /\ LET E == Evictable(k)
       IN  /\ \A q \in Keys : GpuWithout(E)[q].ptr # a
           /\ gpu' = [GpuWithout(E) EXCEPT ![k] = [ptr |-> a, refs |-> 1]]
           /\ owner' = [OwnerWithout(E) EXCEPT ![a] = IF @ = NoKey THEN k ELSE @]
    /\ held' = [held EXCEPT ![a] = @ + 1]
    /\ UNCHANGED <<policy, dead>>

\* The same when the loader fails: the caller gets a null pointer, except
\* that the VAE loaders call exit.
LoadFails(k) ==
    /\ dead = "no"
    /\ ~Loaded(k)
    /\ \A q \in Evictable(k) : gpu[q].refs = 0
    /\ gpu' = GpuWithout(Evictable(k))
    /\ owner' = OwnerWithout(Evictable(k))
    /\ dead' = IF k \in Exits THEN "exit" ELSE "no"
    /\ UNCHANGED <<policy, held>>

\* Slip: the module is unloaded under either policy.
ReleaseUnloads(a) ==
    LET k == owner[a]
    IN  /\ dead = "no"
        /\ k # NoKey /\ Loaded(k)
        /\ held' = [held EXCEPT ![a] = @ - 1]
        /\ IF gpu[k].refs = 1
           THEN gpu' = GpuWithout({k}) /\ owner' = OwnerWithout({k})
           ELSE gpu' = [gpu EXCEPT ![k].refs = @ - 1] /\ UNCHANGED owner
        /\ UNCHANGED <<policy, dead>>

\* Slip: the module stays, whatever the policy.
ReleaseKeeps(a) ==
    LET k == owner[a]
    IN  /\ dead = "no"
        /\ k # NoKey /\ Loaded(k)
        /\ held' = [held EXCEPT ![a] = @ - 1]
        /\ gpu' = [gpu EXCEPT ![k].refs = @ - 1]
        /\ UNCHANGED <<policy, owner, dead>>

\* store_release of a handle the caller holds.  A handle the store does not
\* know is only warned about, and its caller is left with nothing.
Release(a) ==
    LET k == owner[a]
    IN  /\ dead = "no"
        /\ held' = [held EXCEPT ![a] = @ - 1]
        /\ IF k = NoKey THEN UNCHANGED <<gpu, owner>>
           ELSE IF ~Loaded(k)
                THEN owner' = [owner EXCEPT ![a] = NoKey] /\ UNCHANGED gpu
           ELSE IF gpu[k].refs = 1 /\ policy = "strict"
                THEN gpu' = GpuWithout({k}) /\ owner' = OwnerWithout({k})
           ELSE gpu' = [gpu EXCEPT ![k].refs = @ - 1] /\ UNCHANGED owner
        /\ UNCHANGED <<policy, dead>>

-----------------------------------------------------------------------------
(* The store with any callers that keep its contract: they release only what *)
(* they were given, and once.                                                *)

StoreNext ==
    \/ \E k \in Keys : Hit(k) \/ Clash(k) \/ LoadFails(k)
    \/ \E k \in Keys, a \in Addrs : Load(k, a)
    \/ \E a \in Addrs : held[a] > 0 /\ Release(a)

StoreSpec == StoreInit /\ [][StoreNext]_storeVars

-----------------------------------------------------------------------------
(* Properties.                                                               *)

\* Every variable stays in its range.
StoreTypeOK ==
    /\ policy \in Policies
    /\ gpu \in [Keys -> [ptr : Addrs \cup {Null}, refs : Nat]]
    /\ owner \in [Addrs -> Keys \cup {NoKey}]
    /\ held \in [Addrs -> Nat]
    /\ dead \in {"no", "abort", "exit"}

\* A refcount is the number of handles out, so a release never meets a count
\* of zero (the assert in store_release) and never unloads too early.
RefsAreHolds ==
    \A k \in Keys : Loaded(k) => gpu[k].refs = held[gpu[k].ptr]

\* A handle that is held belongs to a loaded module, and leads store_release
\* back to that module, even when its address was another module's before.
HandlesLive ==
    \A a \in Addrs :
        held[a] > 0 => owner[a] # NoKey /\ gpu[owner[a]].ptr = a

\* model-store.h: "At most one GPU module resident at a time", and it is
\* resident only while somebody holds it.
StrictKeepsOne ==
    policy = "strict" =>
        \A k, q \in Resident : k = q /\ gpu[k].refs > 0

\* model-store.h: under --keep-loaded "No reload, ever": what is loaded stays
\* loaded, at the address it has.
NeverUnloads ==
    [][policy = "never" =>
          \A k \in Resident : gpu'[k].ptr = gpu[k].ptr]_storeVars
=============================================================================
