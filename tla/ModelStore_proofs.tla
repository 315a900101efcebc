-------------------------- MODULE ModelStore_proofs --------------------------
(***************************************************************************)
(* Proofs about the model store, alone for any keys, addresses and callers *)
(* that keep its contract, and with the loaders inside its misses          *)
(* (ModuleLoad) for any adapter files: the store's own invariant holds in  *)
(* both, the backends outlive every module, an adapter is worn whole.      *)
(***************************************************************************)
EXTENDS ModuleLoad, FiniteSetTheorems, TLAPS

-----------------------------------------------------------------------------
(* The store.                                                                *)

\* The two maps of the store are inverse to each other: a loaded module's
\* pointer leads back to its key, and an entry of handle_to_key leads to a
\* loaded module.  With the counts this is inductive.
MapsAgree ==
    /\ \A k \in Keys : Loaded(k) => gpu[k].ptr \in Addrs /\ owner[gpu[k].ptr] = k
    /\ \A a \in Addrs : owner[a] # NoKey => gpu[owner[a]].ptr = a

\* What nobody owns is held by nobody.
NothingStray == \A a \in Addrs : owner[a] = NoKey => held[a] = 0

StoreInv ==
    /\ StoreTypeOK
    /\ MapsAgree
    /\ NothingStray
    /\ RefsAreHolds
    /\ StrictKeepsOne

-----------------------------------------------------------------------------

LEMMA StoreInitEstablishes == StoreInit => StoreInv
  BY NullAssumption
     DEF StoreInit, StoreInv, StoreTypeOK, MapsAgree, NothingStray, RefsAreHolds,
         StrictKeepsOne, Loaded, Resident, Absent, Policies

\* In a state of the invariant nothing is evictable that is not in use: what
\* strict keeps is held, so a load either finds an empty store or clashes.
LEMMA NothingToEvict ==
  ASSUME StoreInv, NEW k \in Keys,
         \A q \in Evictable(k) : gpu[q].refs = 0
  PROVE  Evictable(k) = {}
  BY DEF StoreInv, StrictKeepsOne, Evictable, Resident, StoreTypeOK

LEMMA HitKeeps ==
  ASSUME StoreInv, NEW k \in Keys, Hit(k)
  PROVE  StoreInv'
<1> USE DEF Hit
<1>0. /\ gpu[k].ptr \in Addrs /\ owner[gpu[k].ptr] = k
      /\ \A q \in Keys : gpu'[q] = IF q = k THEN [gpu[k] EXCEPT !.refs = gpu[k].refs + 1] ELSE gpu[q]
      /\ gpu[k] \in [ptr : Addrs \cup {Null}, refs : Nat]
      /\ \A a \in Addrs : held'[a] = IF a = gpu[k].ptr THEN held[a] + 1 ELSE held[a]
  BY DEF StoreInv, MapsAgree, StoreTypeOK
<1>1. StoreTypeOK'
  BY <1>0 DEF StoreInv, StoreTypeOK
<1>2. \A q \in Keys : gpu'[q].ptr = gpu[q].ptr /\ (Loaded(q)' <=> Loaded(q))
  BY <1>0 DEF Loaded
<1>3. MapsAgree' /\ NothingStray'
  BY <1>0, <1>2, NoKeyAssumption DEF StoreInv, StoreTypeOK, MapsAgree, NothingStray, Loaded
<1>4. RefsAreHolds'
  <2> SUFFICES ASSUME NEW q \in Keys, Loaded(q)
               PROVE  gpu'[q].refs = held'[gpu[q].ptr]
      BY <1>2 DEF RefsAreHolds
  <2>1. gpu[q].ptr \in Addrs /\ owner[gpu[q].ptr] = q /\ gpu[q].refs = held[gpu[q].ptr]
    BY DEF StoreInv, MapsAgree, RefsAreHolds
  <2>2. CASE q = k
    BY <1>0, <2>1, <2>2
  <2>3. CASE q # k
    BY <1>0, <2>1, <2>3
  <2> QED  BY <2>2, <2>3
<1>5. StrictKeepsOne'
  BY <1>0, <1>2 DEF StoreInv, StrictKeepsOne, Resident, StoreTypeOK
<1> QED  BY <1>1, <1>3, <1>4, <1>5 DEF StoreInv

LEMMA LoadKeeps ==
  ASSUME StoreInv, NEW k \in Keys, NEW a \in Addrs, Load(k, a)
  PROVE  StoreInv'
<1>0. Evictable(k) = {}
  BY NothingToEvict DEF Load
<1>1. /\ \A q \in Keys : gpu[q].ptr # a
      /\ gpu' = [gpu EXCEPT ![k] = [ptr |-> a, refs |-> 1]]
      /\ owner[a] = NoKey /\ held[a] = 0
      /\ owner' = [owner EXCEPT ![a] = k]
      /\ held' = [held EXCEPT ![a] = 1]
      /\ UNCHANGED <<policy, dead>>
      /\ ~Loaded(k)
  <2>1. GpuWithout({}) = gpu /\ OwnerWithout({}) = owner
    BY DEF StoreInv, StoreTypeOK, GpuWithout, OwnerWithout
  <2>2. \A q \in Keys : gpu[q].ptr # a
    BY <1>0, <2>1 DEF Load
  <2>3. owner[a] = NoKey /\ held[a] = 0
    BY <2>2 DEF StoreInv, StoreTypeOK, MapsAgree, NothingStray
  <2>4. /\ gpu' = [GpuWithout({}) EXCEPT ![k] = [ptr |-> a, refs |-> 1]]
        /\ owner' = [OwnerWithout({}) EXCEPT
                        ![a] = IF OwnerWithout({})[a] = NoKey THEN k ELSE OwnerWithout({})[a]]
        /\ held' = [held EXCEPT ![a] = held[a] + 1]
        /\ UNCHANGED <<policy, dead>>
        /\ ~Loaded(k)
    BY <1>0 DEF Load
  <2>5. held[a] + 1 = 1
    BY <2>3
  <2> QED  BY <2>1, <2>2, <2>3, <2>4, <2>5
<1>2. StoreTypeOK'
  BY <1>1 DEF StoreInv, StoreTypeOK
<1>3. MapsAgree' /\ NothingStray'
  BY <1>1, NullAssumption, NoKeyAssumption
     DEF StoreInv, StoreTypeOK, MapsAgree, NothingStray, Loaded
<1>4. RefsAreHolds'
  BY <1>1 DEF StoreInv, StoreTypeOK, RefsAreHolds, MapsAgree, Loaded
<1>5. StrictKeepsOne'
  <2> SUFFICES ASSUME policy = "strict" PROVE Resident' = {k} /\ gpu'[k].refs > 0
      BY <1>1 DEF StrictKeepsOne
  <2>1. Resident = {}
    BY <1>0, <1>1 DEF Evictable, Resident, Loaded
  <2> QED  BY <1>1, <2>1, NullAssumption DEF StoreInv, StoreTypeOK, Resident, Loaded
<1> QED  BY <1>2, <1>3, <1>4, <1>5 DEF StoreInv

LEMMA LoadFailsKeeps ==
  ASSUME StoreInv, NEW k \in Keys, LoadFails(k)
  PROVE  StoreInv'
<1>1. Evictable(k) = {}
  BY NothingToEvict DEF LoadFails
<1>2. gpu' = gpu /\ owner' = owner /\ held' = held /\ policy' = policy
  BY <1>1 DEF LoadFails, GpuWithout, OwnerWithout, StoreInv, StoreTypeOK
<1>3. StoreTypeOK'
  BY <1>2 DEF StoreInv, StoreTypeOK, LoadFails
<1> QED
  BY <1>2, <1>3 DEF StoreInv, MapsAgree, NothingStray, RefsAreHolds,
                    StrictKeepsOne, Resident, Loaded

LEMMA ReleaseKeepsInv ==
  ASSUME StoreInv, NEW a \in Addrs, held[a] > 0, Release(a)
  PROVE  StoreInv'
<1> DEFINE k == owner[a]
<1>0. /\ k \in Keys /\ gpu[k].ptr = a /\ Loaded(k)
      /\ gpu[k].refs = held[a] /\ held[a] \in Nat \ {0}
      /\ \A b \in Addrs : held'[b] = IF b = a THEN held[a] - 1 ELSE held[b]
      /\ \A q \in Keys : q # k => gpu[q].ptr # a
  BY NullAssumption DEF Release, StoreInv, StoreTypeOK, NothingStray, MapsAgree, RefsAreHolds, Loaded
<1>1. CASE gpu[k].refs = 1 /\ policy = "strict"
  <2>1. /\ \A q \in Keys : gpu'[q] = IF q = k THEN Absent ELSE gpu[q]
        /\ \A b \in Addrs : owner'[b] = IF b = a THEN NoKey ELSE owner[b]
        /\ gpu' = [q \in Keys |-> IF q = k THEN Absent ELSE gpu[q]]
        /\ owner' = [b \in Addrs |-> IF b = a THEN NoKey ELSE owner[b]]
    BY <1>0, <1>1, NoKeyAssumption DEF Release, GpuWithout, OwnerWithout
  <2>2. StoreTypeOK'
    BY <1>0, <2>1 DEF StoreInv, StoreTypeOK, Release, Absent
  <2>3. MapsAgree' /\ NothingStray'
    BY <1>0, <1>1, <2>1, NoKeyAssumption
       DEF StoreInv, StoreTypeOK, MapsAgree, NothingStray, Loaded, Absent
  <2>4. RefsAreHolds' /\ StrictKeepsOne'
    BY <1>0, <2>1 DEF StoreInv, StoreTypeOK, RefsAreHolds, StrictKeepsOne,
                      MapsAgree, Resident, Loaded, Absent, Release
  <2> QED  BY <2>2, <2>3, <2>4 DEF StoreInv
<1>2. CASE ~(gpu[k].refs = 1 /\ policy = "strict")
  <2>1. /\ gpu' = [gpu EXCEPT ![k].refs = gpu[k].refs - 1]
        /\ UNCHANGED <<owner, policy, dead>>
    BY <1>0, <1>2, NoKeyAssumption DEF Release
  <2>2. /\ \A q \in Keys : /\ gpu'[q].ptr = gpu[q].ptr
                           /\ (Loaded(q)' <=> Loaded(q))
                           /\ gpu'[q].refs = IF q = k THEN held'[a] ELSE gpu[q].refs
    BY <1>0, <2>1 DEF StoreInv, StoreTypeOK, Loaded
  <2>3. StoreTypeOK'
    BY <1>0, <2>1 DEF StoreInv, StoreTypeOK, Release
  <2>4. MapsAgree' /\ NothingStray'
    BY <1>0, <2>1, <2>2, NoKeyAssumption DEF StoreInv, StoreTypeOK, MapsAgree, NothingStray, Loaded
  <2>5. RefsAreHolds'
    BY <1>0, <2>2 DEF StoreInv, RefsAreHolds, MapsAgree
  <2>6. StrictKeepsOne'
    BY <1>0, <1>2, <2>1, <2>2 DEF StoreInv, StoreTypeOK, StrictKeepsOne, Resident
  <2> QED  BY <2>3, <2>4, <2>5, <2>6 DEF StoreInv
<1> QED  BY <1>1, <1>2

LEMMA StoreStepKeeps == StoreInv /\ [StoreNext]_storeVars => StoreInv'
<1> SUFFICES ASSUME StoreInv, [StoreNext]_storeVars PROVE StoreInv'
    OBVIOUS
<1>1. CASE \E k \in Keys : Hit(k)
  BY <1>1, HitKeeps
<1>2. CASE \E k \in Keys : LoadFails(k)
  BY <1>2, LoadFailsKeeps
<1>3. CASE \E k \in Keys, a \in Addrs : Load(k, a)
  BY <1>3, LoadKeeps
<1>4. CASE \E a \in Addrs : held[a] > 0 /\ Release(a)
  BY <1>4, ReleaseKeepsInv
<1>5. CASE \/ \E k \in Keys : Clash(k)
           \/ UNCHANGED storeVars
  BY <1>5 DEF Clash, storeVars, StoreInv, StoreTypeOK, MapsAgree, NothingStray,
              RefsAreHolds, StrictKeepsOne, Resident, Loaded
<1> QED  BY <1>1, <1>2, <1>3, <1>4, <1>5 DEF StoreNext

THEOREM StoreInvariant == StoreSpec => []StoreInv
<1> QED  BY StoreInitEstablishes, StoreStepKeeps, PTL DEF StoreSpec

\* What the runs check of the store, for any keys, addresses and callers.
THEOREM StoreSafety ==
  StoreSpec => [](StoreTypeOK /\ RefsAreHolds /\ HandlesLive /\ StrictKeepsOne)
<1>1. StoreInv => StoreTypeOK /\ RefsAreHolds /\ HandlesLive /\ StrictKeepsOne
  BY DEF StoreInv, StoreTypeOK, MapsAgree, NothingStray, HandlesLive
<1> QED  BY StoreInvariant, <1>1, PTL

LEMMA StoreStays ==
  ASSUME StoreInv, StoreNext, policy = "never", NEW k \in Resident
  PROVE  gpu'[k].ptr = gpu[k].ptr
<1>1. CASE \E q \in Keys : Hit(q) \/ Clash(q)
  BY <1>1 DEF Hit, Clash, StoreInv, StoreTypeOK, Resident
<1>2. CASE \E q \in Keys : LoadFails(q)
  BY <1>2 DEF LoadFails, GpuWithout, Evictable, Resident
<1>3. CASE \E q \in Keys, a \in Addrs : Load(q, a)
  BY <1>3 DEF Load, GpuWithout, Evictable, Resident
<1>4. CASE \E a \in Addrs : held[a] > 0 /\ Release(a)
  BY <1>4 DEF Release, StoreInv, StoreTypeOK, Resident
<1> QED  BY <1>1, <1>2, <1>3, <1>4 DEF StoreNext

\* Under EVICT_NEVER nothing is unloaded or moved.
THEOREM KeepLoaded == StoreSpec => NeverUnloads
<1>1. StoreInv /\ [StoreNext]_storeVars =>
        [policy = "never" =>
            \A k \in Resident : gpu'[k].ptr = gpu[k].ptr]_storeVars
  BY StoreStays DEF storeVars
<1> QED  BY <1>1, StoreInvariant, PTL DEF StoreSpec, NeverUnloads

-----------------------------------------------------------------------------
(* The loaders inside it.                                                    *)

\* What is resident is finite, and the backends are counted for it and for the
\* loads that kept theirs.
PoolInv ==
    /\ IsFiniteSet(Resident)
    /\ refs \in Nat
    /\ stray \in [Taking -> Nat]
    /\ PoolFollows

\* What the adapted DiT wears is one of the files, accepted as it was.
WornInv ==
    /\ setting \in Settings
    /\ IF Adapted \in Resident /\ ~setting.zero
       THEN \E f \in Files :
               /\ Accepts(f, setting.functional)
               /\ worn = Dress(f, setting.functional)
       ELSE worn = Bare

LoadInv == StoreInv /\ PoolInv /\ WornInv

-----------------------------------------------------------------------------
\* An accepted file is worn whole.
LEMMA DressedWhole ==
  ASSUME NEW f \in Files, NEW functional \in BOOLEAN, Accepts(f, functional)
  PROVE  LET w == Dress(f, functional)
         IN  /\ w.on # {}
             /\ w.due # {} => w.on = w.due
             /\ w.how = "beside" => w.on = w.file
             /\ w.how = "merged" => w.on \subseteq Staged
<1> DEFINE w == Dress(f, functional)
<1>1. /\ w.on = Usable(f) /\ w.file = With(f.a)
      /\ w.how = IF functional THEN "beside" ELSE "merged"
      /\ w.due = IF f.dir THEN Targeted(f) \cap Staged ELSE {}
  BY DEF Dress
<1> HIDE DEF w
<1>2. w.on # {}
  BY <1>1 DEF Accepts
<1>3. ASSUME w.due # {} PROVE w.on = w.due
  <2>1. f.dir /\ ~f.lokr /\ Inventory(f)
    BY <1>1, <1>3, Zenon DEF Accepts
  <2>2. /\ \A u \in DOMAIN f.a : f.a[u] \in Parts
        /\ DOMAIN f.b = DOMAIN f.a /\ \A u \in DOMAIN f.b : f.b[u] \in Parts
        /\ DOMAIN f.m = DOMAIN f.a /\ \A u \in DOMAIN f.m : f.m[u] \in Parts
    BY FilesAssumption, Zenon
  <2>3. With(f.b) = With(f.a) /\ With(f.a) = Targeted(f) \cap Staged
        /\ \A u \in With(f.a) : f.a[u] # "odd" /\ f.b[u] # "odd" /\ f.m[u] # "odd"
    BY <2>1 DEF Inventory
  <2>4. With(f.a) \subseteq Weights
    BY <2>3, StagedAssumption
  <2>5. ASSUME NEW u \in With(f.a) PROVE f.a[u] = "fits" /\ f.b[u] = "fits"
    BY <2>2, <2>3 DEF With, Parts
  <2>6. LoraUsable(f) = With(f.a)
    BY <2>3, <2>4, <2>5 DEF LoraUsable
  <2>7. Usable(f) = LoraUsable(f)
    BY <2>1, Zenon DEF Usable
  <2> QED
    BY <1>1, <2>1, <2>3, <2>6, <2>7, Zenon
<1>4. ASSUME w.how = "beside" PROVE w.on = w.file
  <2>1. functional
    BY <1>1, <1>4
  <2>2. ~f.lokr /\ Skipped(f) = {}
    BY <2>1, Zenon DEF Accepts
  <2>3. LoraUsable(f) \subseteq With(f.a)
    BY DEF LoraUsable
  <2>4. Usable(f) = LoraUsable(f)
    BY <2>2, Zenon DEF Usable
  <2> QED
    BY <1>1, <2>2, <2>3, <2>4 DEF Skipped
<1>5. ASSUME w.how = "merged" PROVE w.on \subseteq Staged
  <2>1. ~functional
    BY <1>1, <1>5
  <2> QED
    BY <1>1, <2>1, Zenon DEF Accepts
<1> QED
  BY <1>2, <1>3, <1>4, <1>5 DEF w

LEMMA WornWhole == WornInv => AdapterWhole
<1> SUFFICES ASSUME WornInv PROVE AdapterWhole
  OBVIOUS
<1>1. CASE Adapted \in Resident /\ ~setting.zero
  <2>1. setting.functional \in BOOLEAN
    BY SettingsAssumption DEF WornInv
  <2>2. PICK f \in Files :
           Accepts(f, setting.functional) /\ worn = Dress(f, setting.functional)
    BY <1>1, Zenon DEF WornInv
  <2> QED
    BY <1>1, <2>1, <2>2, DressedWhole, Zenon DEF AdapterWhole
<1>2. CASE ~(Adapted \in Resident /\ ~setting.zero)
  BY <1>2, Zenon DEF WornInv, AdapterWhole
<1> QED
  BY <1>1, <1>2

-----------------------------------------------------------------------------
LEMMA LoadInitEstablishes == LoadInit => LoadInv
<1> SUFFICES ASSUME LoadInit PROVE LoadInv
  OBVIOUS
<1>1. StoreInv
  BY StoreInitEstablishes DEF LoadInit
<1>2. Resident = {}
  BY DEF LoadInit, StoreInit, Resident, Loaded, Absent
<1>3. PoolInv
  <2>1. /\ refs = 0 /\ stray = [s \in Taking |-> 0] /\ careless = {}
    BY DEF LoadInit
  <2>2. IsFiniteSet(Resident) /\ Cardinality(Resident) = 0
    BY <1>2, FS_EmptySet
  <2>3. stray["pool"] = 0
    BY <2>1 DEF Taking
  <2> QED
    BY <2>1, <2>2, <2>3 DEF PoolInv, PoolFollows
<1>4. WornInv
  BY <1>2, Zenon DEF LoadInit, WornInv
<1> QED
  BY <1>1, <1>3, <1>4 DEF LoadInv

\* A step that loads and unloads nothing, and takes no backends.
LEMMA SameModules ==
  ASSUME LoadInv, Resident' = Resident, refs' = refs, worn' = worn,
         stray' = stray, careless' = careless, setting' = setting
  PROVE  PoolInv' /\ WornInv'
<1>1. PoolInv'
  BY DEF LoadInv, PoolInv, PoolFollows
<1>2. WornInv'
  BY Zenon DEF LoadInv, WornInv
<1> QED
  BY <1>1, <1>2

LEMMA HitAgainKeeps == ASSUME LoadInv, NEW k \in Keys, HitAgain(k) PROVE LoadInv'
<1>1. /\ Hit(k) /\ refs' = refs /\ worn' = worn
      /\ stray' = stray /\ careless' = careless /\ setting' = setting
  BY DEF HitAgain, Kept
<1>2. StoreInv'
  BY <1>1, HitKeeps DEF LoadInv
<1>3. Resident' = Resident
  BY <1>1 DEF Hit, Resident, Loaded, LoadInv, StoreInv, StoreTypeOK
<1> QED
  BY <1>1, <1>2, <1>3, SameModules DEF LoadInv

\* The store as it is, whatever becomes of the process.
LEMMA StoreUntouched ==
  ASSUME StoreInv, UNCHANGED <<policy, gpu, owner, held>>, dead' \in {"no", "abort", "exit"}
  PROVE  StoreInv' /\ Resident' = Resident
  BY DEF StoreInv, StoreTypeOK, MapsAgree, NothingStray, RefsAreHolds, StrictKeepsOne,
         Resident, Loaded

LEMMA ClashKeeps == ASSUME LoadInv, NEW k \in Keys, ClashAborts(k) PROVE LoadInv'
<1>1. /\ UNCHANGED <<policy, gpu, owner, held>> /\ dead' = "abort" /\ refs' = refs /\ worn' = worn
      /\ stray' = stray /\ careless' = careless /\ setting' = setting
  BY DEF ClashAborts, Clash, Kept
<1>2. StoreInv' /\ Resident' = Resident
  BY <1>1, StoreUntouched DEF LoadInv
<1> QED
  BY <1>1, <1>2, SameModules DEF LoadInv

LEMMA LoadEndsKeeps ==
  ASSUME LoadInv, NEW k \in Keys, NEW i, LoadEnds(k, i) PROVE LoadInv'
<1>1. /\ UNCHANGED <<policy, gpu, owner, held>> /\ dead' = "exit" /\ refs' = refs /\ worn' = worn
      /\ stray' = stray /\ careless' = careless /\ setting' = setting
  BY DEF LoadEnds, Kept
<1>2. StoreInv' /\ Resident' = Resident
  BY <1>1, StoreUntouched DEF LoadInv
<1> QED
  BY <1>1, <1>2, SameModules DEF LoadInv

LEMMA FillKeeps == ASSUME LoadInv, NEW t, FillTable(t) PROVE LoadInv'
<1>1. /\ UNCHANGED storeVars /\ refs' = refs /\ worn' = worn
      /\ stray' = stray /\ careless' = careless /\ setting' = setting
  BY DEF FillTable
<1>2. StoreInv' /\ Resident' = Resident
  BY <1>1, StoreUntouched DEF LoadInv, storeVars, StoreInv, StoreTypeOK
<1> QED
  BY <1>1, <1>2, SameModules DEF LoadInv

LEMMA NothingGiven == ASSUME NEW n \in Nat PROVE Given(n, {}) = n
  BY FS_EmptySet DEF Given

LEMMA LoadModuleKeeps ==
  ASSUME LoadInv, NEW k \in Keys, NEW a \in Addrs, LoadModule(k, a) PROVE LoadInv'
<1>1. /\ Load(k, a) /\ refs' = Taken(Given(refs, Evictable(k)))
      /\ stray' = stray /\ careless' = careless /\ setting' = setting
  BY DEF LoadModule, Kept
<1>2. StoreInv'
  BY <1>1, LoadKeeps DEF LoadInv
<1>3. Evictable(k) = {}
  BY <1>1, NothingToEvict DEF Load, LoadInv
<1>4. /\ gpu' = [gpu EXCEPT ![k] = [ptr |-> a, refs |-> 1]] /\ ~Loaded(k)
  <2>1. GpuWithout({}) = gpu
    BY DEF LoadInv, StoreInv, StoreTypeOK, GpuWithout
  <2> QED
    BY <1>1, <1>3, <2>1 DEF Load
<1>5. Resident' = Resident \cup {k} /\ k \notin Resident
  BY <1>4, NullAssumption DEF Resident, Loaded, LoadInv, StoreInv, StoreTypeOK
<1>6. PoolInv'
  <2>1. IsFiniteSet(Resident) /\ refs \in Nat /\ stray \in [Taking -> Nat] /\ PoolFollows
    BY DEF LoadInv, PoolInv
  <2>2. IsFiniteSet(Resident') /\ Cardinality(Resident') = Cardinality(Resident) + 1
    BY <1>5, <2>1, FS_AddElement
  <2>3. refs' = refs + 1
    BY <1>1, <1>3, <2>1, NothingGiven DEF Taken
  <2>4. Cardinality(Resident) \in Nat /\ stray["pool"] \in Nat
    BY <2>1, FS_CardinalityType DEF Taking
  <2> QED
    BY <1>1, <2>1, <2>2, <2>3, <2>4 DEF PoolInv, PoolFollows
<1>7. WornInv'
  <2>1. setting \in Settings /\ setting.functional \in BOOLEAN
    BY SettingsAssumption DEF LoadInv, WornInv
  <2>2. CASE k = Adapted /\ ~setting.zero
    <3>1. Wears(k)
      BY <2>2, Zenon DEF Wears
    <3>2. worn' \in Outfits[setting.functional]
      BY <3>1, Zenon DEF LoadModule
    <3>3. Outfits[setting.functional] =
            {Dress(f, setting.functional) : f \in {g \in Files : Accepts(g, setting.functional)}}
      BY <2>1, Zenon DEF Outfits
    <3>4. \E f \in Files : Accepts(f, setting.functional) /\ worn' = Dress(f, setting.functional)
      BY <3>2, <3>3, Zenon
    <3> QED
      BY <1>1, <1>5, <2>1, <2>2, <3>4, Zenon DEF WornInv
  <2>3. CASE ~(k = Adapted /\ ~setting.zero)
    <3>1. ~Wears(k)
      BY <2>3, Zenon DEF Wears
    <3>2. worn' = WornWithout({})
      BY <3>1, <1>3, Zenon DEF LoadModule
    <3>3. worn' = worn
      BY <3>2, Zenon DEF WornWithout
    <3>4. setting.zero \/ (Adapted \in Resident' <=> Adapted \in Resident)
      BY <2>3, <1>5, Zenon
    <3>5. WornInv
      BY DEF LoadInv
    <3> QED
      BY <1>1, <3>3, <3>4, <3>5, Zenon DEF WornInv
  <2> QED
    BY <2>2, <2>3
<1> QED
  BY <1>2, <1>6, <1>7 DEF LoadInv

LEMMA LoadRefusedKeeps ==
  ASSUME LoadInv, NEW k \in Keys, NEW i \in DOMAIN LoaderSteps(Kind[k]), LoadRefused(k, i)
  PROVE  LoadInv'
<1> DEFINE left == Left(Kind[k], i)
<1>1. /\ LoadFails(k) /\ stray' = StrayWith(left) /\ setting' = setting
      /\ careless' = IF left = {} THEN careless ELSE careless \cup {k}
      /\ refs' = IF "pool" \in left THEN Taken(Given(refs, Evictable(k)))
                                    ELSE Given(refs, Evictable(k))
      /\ worn' = WornWithout(Evictable(k))
  BY DEF LoadRefused
<1>2. left \subseteq Taking /\ (Kind[k] = "dit" => left = {})
  BY DEF Left, Undoes
<1> HIDE DEF left
<1>3. StoreInv'
  BY <1>1, LoadFailsKeeps DEF LoadInv
<1>4. Evictable(k) = {}
  BY <1>1, NothingToEvict DEF LoadFails, LoadInv
<1>5. Resident' = Resident
  BY <1>1, <1>4 DEF LoadFails, GpuWithout, Resident, Loaded, LoadInv, StoreInv, StoreTypeOK
<1>6. PoolInv'
  <2>1. IsFiniteSet(Resident) /\ refs \in Nat /\ stray \in [Taking -> Nat] /\ PoolFollows
    BY DEF LoadInv, PoolInv
  <2>2. stray' \in [Taking -> Nat]
    BY <1>1, <2>1 DEF StrayWith
  <2>3. stray'["pool"] = IF "pool" \in left THEN stray["pool"] + 1 ELSE stray["pool"]
    BY <1>1 DEF StrayWith, Taking
  <2>4. refs' = IF "pool" \in left THEN refs + 1 ELSE refs
    BY <1>1, <1>4, <2>1, NothingGiven DEF Taken
  <2>5. Cardinality(Resident) \in Nat /\ stray["pool"] \in Nat
    BY <2>1, FS_CardinalityType DEF Taking
  <2>6. \A q \in careless' : Kind[q] # "dit"
    BY <1>1, <1>2, <2>1 DEF PoolFollows
  <2>7. refs' \in Nat /\ refs' = Cardinality(Resident) + stray'["pool"]
    BY <2>1, <2>3, <2>4, <2>5 DEF PoolFollows
  <2> QED
    BY <1>5, <2>1, <2>2, <2>6, <2>7 DEF PoolInv, PoolFollows
<1>7. WornInv'
  <2>1. worn' = worn
    BY <1>1, <1>4, Zenon DEF WornWithout
  <2> QED
    BY <1>1, <1>5, <2>1, Zenon DEF LoadInv, WornInv
<1> QED
  BY <1>3, <1>6, <1>7 DEF LoadInv

LEMMA ReleaseModuleKeeps ==
  ASSUME LoadInv, NEW a \in Addrs, ReleaseModule(a) PROVE LoadInv'
<1> DEFINE k == owner[a]
           gone == {q \in Resident : gpu'[q].ptr = Null}
<1>1. /\ held[a] > 0 /\ Release(a) /\ refs' = Given(refs, gone) /\ worn' = WornWithout(gone)
      /\ stray' = stray /\ careless' = careless /\ setting' = setting
  BY DEF ReleaseModule, Kept
<1>2. StoreInv'
  BY <1>1, ReleaseKeepsInv DEF LoadInv
<1>3. gone \subseteq Resident /\ Resident' = Resident \ gone /\ (gone = {} \/ gone = {k})
  <2>1. k \in Keys /\ Loaded(k) /\ gpu[k].ptr = a
    BY <1>1, NullAssumption DEF LoadInv, StoreInv, StoreTypeOK, NothingStray, MapsAgree, Loaded
  <2>2. CASE gpu[k].refs = 1 /\ policy = "strict"
    <3>1. \A q \in Keys : gpu'[q] = IF q = k THEN Absent ELSE gpu[q]
      BY <1>1, <2>1, <2>2, NoKeyAssumption DEF Release, GpuWithout
    <3> QED
      BY <2>1, <3>1 DEF Resident, Loaded, Absent
  <2>3. CASE ~(gpu[k].refs = 1 /\ policy = "strict")
    <3>1. gpu' = [gpu EXCEPT ![k].refs = gpu[k].refs - 1]
      BY <1>1, <2>1, <2>3, NoKeyAssumption DEF Release
    <3>2. \A q \in Keys : gpu'[q].ptr = gpu[q].ptr
      BY <3>1, <2>1 DEF LoadInv, StoreInv, StoreTypeOK
    <3> QED
      BY <3>2 DEF Resident, Loaded
  <2> QED
    BY <2>2, <2>3
<1> HIDE DEF gone, k
<1>4. PoolInv'
  <2>1. IsFiniteSet(Resident) /\ refs \in Nat /\ stray \in [Taking -> Nat] /\ PoolFollows
    BY DEF LoadInv, PoolInv
  <2>2. Cardinality(Resident) \in Nat /\ stray["pool"] \in Nat
    BY <2>1, FS_CardinalityType DEF Taking
  <2>3. CASE gone = {}
    <3>1. refs' = refs /\ Resident' = Resident
      BY <1>1, <1>3, <2>1, <2>3, NothingGiven
    <3> QED
      BY <1>1, <2>1, <3>1 DEF PoolInv, PoolFollows
  <2>4. CASE gone = {k} /\ k \in Resident
    <3>1. /\ IsFiniteSet(Resident') /\ Cardinality(Resident') = Cardinality(Resident) - 1
          /\ Resident' = Resident \ {k}
      BY <1>3, <2>1, <2>4, FS_RemoveElement
    <3>2. Cardinality(gone) = 1
      BY <2>4, FS_Singleton
    <3>3. Cardinality(Resident') \in Nat
      BY <3>1, FS_CardinalityType
    <3>4. refs >= 1
      BY <2>1, <2>2, <3>1, <3>3 DEF PoolFollows
    <3>5. refs' = refs - 1
      BY <1>1, <2>1, <3>2, <3>4 DEF Given
    <3> QED
      BY <1>1, <2>1, <2>2, <3>1, <3>4, <3>5 DEF PoolInv, PoolFollows
  <2> QED
    BY <1>3, <2>3, <2>4
<1>5. WornInv'
  <2>1. worn' = IF Adapted \in gone THEN Bare ELSE worn
    BY <1>1, Zenon DEF WornWithout
  <2>2. Adapted \in Resident' <=> Adapted \in Resident /\ Adapted \notin gone
    BY <1>3
  <2>3. WornInv
    BY DEF LoadInv
  <2>4. CASE Adapted \in gone
    BY <1>1, <2>1, <2>2, <2>3, <2>4, Zenon DEF WornInv
  <2>5. CASE Adapted \notin gone
    BY <1>1, <2>1, <2>2, <2>3, <2>5, Zenon DEF WornInv
  <2> QED
    BY <2>4, <2>5
<1> QED
  BY <1>2, <1>4, <1>5 DEF LoadInv

LEMMA LoadStepKeeps == LoadInv /\ [LoadNext]_loadVars => LoadInv'
<1> SUFFICES ASSUME LoadInv, [LoadNext]_loadVars PROVE LoadInv'
  OBVIOUS
<1>1. ASSUME NEW k \in Keys, HitAgain(k) \/ ClashAborts(k) PROVE LoadInv'
  BY <1>1, HitAgainKeeps, ClashKeeps
<1>2. ASSUME NEW k \in Keys, NEW a \in Addrs, LoadModule(k, a) PROVE LoadInv'
  BY <1>2, LoadModuleKeeps
<1>3. ASSUME NEW k \in Keys, NEW i \in DOMAIN LoaderSteps(Kind[k]), LoadRefused(k, i) \/ LoadEnds(k, i)
      PROVE  LoadInv'
  BY <1>3, LoadRefusedKeeps, LoadEndsKeeps
<1>4. ASSUME NEW a \in Addrs, ReleaseModule(a) PROVE LoadInv'
  BY <1>4, ReleaseModuleKeeps
<1>5. ASSUME NEW t, FillTable(t) PROVE LoadInv'
  BY <1>5, FillKeeps
<1>6. CASE UNCHANGED loadVars
  <2>1. /\ UNCHANGED storeVars /\ refs' = refs /\ worn' = worn
        /\ stray' = stray /\ careless' = careless /\ setting' = setting
    BY <1>6 DEF loadVars
  <2>2. StoreInv' /\ Resident' = Resident
    BY <2>1, StoreUntouched DEF LoadInv, storeVars, StoreInv, StoreTypeOK
  <2> QED
    BY <2>1, <2>2, SameModules DEF LoadInv
<1> QED
  BY <1>1, <1>2, <1>3, <1>4, <1>5, <1>6, Zenon DEF LoadNext

THEOREM LoadInvariant == LoadSpec => []LoadInv
<1> QED
  BY LoadInitEstablishes, LoadStepKeeps, PTL DEF LoadSpec

\* With any loaders' failures, any adapter files and any callers: the backends
\* outlive every module, a refused DiT keeps nothing, an adapter is worn whole,
\* and the store keeps the invariants it has without them.
THEOREM LoadSafety ==
  LoadSpec => [](RefsAreHolds /\ HandlesLive /\ StrictKeepsOne /\ PoolFollows /\ AdapterWhole)
<1>1. LoadInv => RefsAreHolds /\ HandlesLive /\ StrictKeepsOne /\ PoolFollows /\ AdapterWhole
  BY WornWhole DEF LoadInv, PoolInv, StoreInv, StoreTypeOK, MapsAgree, NothingStray, HandlesLive
<1> QED
  BY LoadInvariant, <1>1, PTL

\* A step with the loaders is one of the store, or leaves what is loaded alone.
LEMMA LoadStays ==
  ASSUME LoadInv, [LoadNext]_loadVars
  PROVE  StoreNext \/ gpu' = gpu
<1>1. ASSUME NEW k \in Keys, HitAgain(k) PROVE Hit(k)
  BY <1>1 DEF HitAgain
<1>2. ASSUME NEW k \in Keys, ClashAborts(k) PROVE Clash(k)
  BY <1>2 DEF ClashAborts
<1>3. ASSUME NEW k \in Keys, NEW a \in Addrs, LoadModule(k, a) PROVE Load(k, a)
  BY <1>3 DEF LoadModule
<1>4. ASSUME NEW k \in Keys, NEW i \in DOMAIN LoaderSteps(Kind[k]),
             LoadRefused(k, i) \/ LoadEnds(k, i)
      PROVE  LoadFails(k) \/ gpu' = gpu
  BY <1>4 DEF LoadRefused, LoadEnds
<1>5. ASSUME NEW a \in Addrs, ReleaseModule(a) PROVE held[a] > 0 /\ Release(a)
  BY <1>5 DEF ReleaseModule
<1>6. ASSUME NEW t, FillTable(t) PROVE gpu' = gpu
  BY <1>6 DEF FillTable, storeVars
<1>7. CASE UNCHANGED loadVars
  BY <1>7 DEF loadVars, storeVars
<1> QED
  BY <1>1, <1>2, <1>3, <1>4, <1>5, <1>6, <1>7, Zenon DEF LoadNext, StoreNext

\* Under EVICT_NEVER nothing is unloaded or moved by the loaders either, whether
\* they succeed, are refused or end the process (model-store.cpp's eviction).
THEOREM LoadsKeepLoaded == LoadSpec => NeverUnloads
<1>1. LoadInv /\ [LoadNext]_loadVars =>
        [policy = "never" =>
            \A k \in Resident : gpu'[k].ptr = gpu[k].ptr]_storeVars
  BY LoadStays, StoreStays DEF LoadInv, storeVars
<1> QED
  BY <1>1, LoadInvariant, PTL DEF LoadSpec, NeverUnloads
=============================================================================
