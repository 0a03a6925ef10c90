----------------------------- MODULE LayerStore -----------------------------
(***************************************************************************)
(* layer/layer_store.go: the store of image layers and container mounts on *)
(* top of a graph driver and a metadata directory (layer/filestore.go).    *)
(*                                                                         *)
(* A ChainID determines the layers below it, so the parent of a layer is   *)
(* the constant ParentOf; the parent NoLayer is "".  A process makes one call  *)
(* at a time and holds at most one reference to a layer and to a mount.    *)
(* Each call is cut at its driver and metadata operations, each of which   *)
(* may fail, and the daemon may crash between any two of them.             *)
(***************************************************************************)
EXTENDS Integers, FiniteSets

CONSTANTS LayerUsers, Chains, ParentOf, MountNames, IDs, NoLayer,
          MaxDepth,               \* maxLayerDepth
          LayerLoads              \* what the daemon may be put through: the chains and the
                                  \* mounts asked for, and the bounds on failed operations
                                  \* and on crashes

ASSUME LayerAssumption ==
  /\ IsFiniteSet(LayerUsers) /\ IsFiniteSet(Chains) /\ IsFiniteSet(MountNames)
  /\ ParentOf \in [Chains -> Chains \cup {NoLayer}]
  /\ LayerLoads \subseteq [chains : SUBSET Chains, names : SUBSET MountNames, faults : Nat, crashes : Nat]
  /\ NoLayer \notin Chains /\ NoLayer \notin LayerUsers /\ NoLayer \notin MountNames /\ NoLayer \notin IDs

VARIABLES
  layerL, mountL,        \* the process that holds the mutex, or NoLayer
  layerMap,              \* the chains that have a roLayer
  referenceCount, references,
  cacheID,               \* of each layer: its name in the driver
  mounts, mountParent, mountRefs,
  meta, mountMeta,       \* metadata: none, full, or torn by an interrupted operation
  data, mountData,       \* what the driver stores for layers, and for mounts
  txs,                   \* the layers whose metadata transaction is open
  orphans,               \* there are driver layers or transactions that nobody names:
                         \* no step can touch them, so data and txs do not list them
  lpc, at, pin, id,      \* of each process; pin: the layer it has counted up
  lfaults, lcrashes,
  damaged,               \* layers whose removal was interrupted half-way (history)
  panicked,
  layerLoad              \* the member of LayerLoads this behaviour is about

locks == <<layerL, mountL>>
layers == <<layerMap, referenceCount, references, cacheID>>
mountVars == <<mounts, mountParent, mountRefs>>
disk == <<meta, mountMeta, data, mountData, txs, orphans>>
procs == <<lpc, at, pin, id>>
hist == <<lfaults, lcrashes, damaged, panicked, layerLoad>>
layerVars == <<locks, layers, mountVars, disk, procs, hist>>

LayerInit ==
  /\ layerL = NoLayer /\ mountL = NoLayer
  /\ layerMap = {}
  /\ referenceCount = [c \in Chains |-> 0]
  /\ references = [c \in Chains |-> {}]
  /\ cacheID = [c \in Chains |-> NoLayer]
  /\ mounts = {}
  /\ mountParent = [n \in MountNames |-> NoLayer]
  /\ mountRefs = [n \in MountNames |-> {}]
  /\ meta = [c \in Chains |-> "none"] /\ mountMeta = [n \in MountNames |-> "none"]
  /\ data = {} /\ mountData = [n \in MountNames |-> {}]
  /\ txs = {} /\ orphans = FALSE
  /\ lpc = [p \in LayerUsers |-> "idle"]
  /\ at = [p \in LayerUsers |-> NoLayer] /\ pin = [p \in LayerUsers |-> NoLayer] /\ id = [p \in LayerUsers |-> NoLayer]
  /\ lfaults = 0 /\ lcrashes = 0
  /\ damaged = {} /\ panicked = FALSE
  /\ layerLoad \in LayerLoads

depth[c \in Chains] == IF ParentOf[c] = NoLayer THEN 1 ELSE depth[ParentOf[c]] + 1

\* GenerateRandomID: a name that is nowhere in use.
UnusedID == {i \in IDs : /\ i \notin data \cup txs
                         /\ \A c \in Chains : cacheID[c] # i
                         /\ \A p \in LayerUsers : id[p] # i}
Fresh == CHOOSE i \in UnusedID : TRUE

GotoL(p, where) == lpc' = [lpc EXCEPT ![p] = where]
LayerOK == UNCHANGED lfaults
LayerFails == lfaults < layerLoad.faults /\ lfaults' = lfaults + 1

\* Where an error return goes: through the deferred release of the parent.
Unwound(p) == IF pin[p] = NoLayer THEN "return" ELSE "unpin"
-----------------------------------------------------------------------------
\* getWithoutLock, under layerL
Retain(p, c) == /\ referenceCount' = [referenceCount EXCEPT ![c] = @ + 1]
                /\ pin' = [pin EXCEPT ![p] = c]

GetLayer(p, c) ==
  /\ lpc[p] = "idle" /\ layerL = NoLayer
  /\ c \in layerMap /\ p \notin references[c]
  /\ referenceCount' = [referenceCount EXCEPT ![c] = @ + 1]
  /\ references' = [references EXCEPT ![c] = @ \cup {p}]
  /\ UNCHANGED <<locks, layerMap, cacheID, mountVars, disk, procs, hist>>

\* registerWithDescriptor: retain the parent, check the depth.
RegisterStart(p, c) ==
  /\ lpc[p] = "idle" /\ layerL = NoLayer
  /\ p \notin references[c]
  /\ at' = [at EXCEPT ![p] = c]
  /\ IF ParentOf[c] = NoLayer
     THEN GotoL(p, "create") /\ UNCHANGED <<referenceCount, pin>>
     ELSE /\ ParentOf[c] \in layerMap
          /\ Retain(p, ParentOf[c])
          /\ GotoL(p, IF depth[ParentOf[c]] >= MaxDepth THEN "unpin" ELSE "create")
  /\ UNCHANGED <<locks, layerMap, references, cacheID, mountVars, disk, id, hist>>

RegisterCreate(p) ==
  /\ lpc[p] = "create"
  /\ \/ /\ UnusedID # {}
        /\ id' = [id EXCEPT ![p] = Fresh]
        /\ data' = data \cup {Fresh}
        /\ GotoL(p, "begin") /\ LayerOK
     \/ LayerFails /\ GotoL(p, Unwound(p)) /\ UNCHANGED <<id, data>>
  /\ UNCHANGED <<locks, layers, mountVars, meta, mountMeta, mountData, txs, orphans, at, pin,
                 lcrashes, damaged, panicked, layerLoad>>

\* StartTransaction; when it fails the driver's layer is left behind.
RegisterBegin(p) ==
  /\ lpc[p] = "begin"
  /\ \/ txs' = txs \cup {id[p]} /\ GotoL(p, "apply") /\ LayerOK /\ UNCHANGED <<data, orphans>>
     \/ /\ LayerFails /\ GotoL(p, Unwound(p))
        /\ data' = data \ {id[p]} /\ orphans' = TRUE /\ UNCHANGED txs
  /\ UNCHANGED <<locks, layers, mountVars, meta, mountMeta, mountData, at, pin, id,
                 lcrashes, damaged, panicked, layerLoad>>

\* applyTar and storeLayer
RegisterApply(p) ==
  /\ lpc[p] = "apply"
  /\ \/ GotoL(p, "commit") /\ LayerOK
     \/ LayerFails /\ GotoL(p, "clean")
  /\ UNCHANGED <<locks, layers, mountVars, disk, at, pin, id, lcrashes, damaged, panicked, layerLoad>>

\* Under layerL: another process was first ...
RegisterExisting(p) ==
  /\ lpc[p] = "commit" /\ layerL = NoLayer
  /\ at[p] \in layerMap
  /\ referenceCount' = [referenceCount EXCEPT ![at[p]] = @ + 1]
  /\ references' = [references EXCEPT ![at[p]] = @ \cup {p}]
  /\ GotoL(p, "clean")
  /\ UNCHANGED <<locks, layerMap, cacheID, mountVars, disk, at, pin, id, hist>>

\* ... or the new layer is entered, its metadata renamed to m, ...
EnterLayer(p, m) ==
  LET c == at[p] IN
  /\ lpc[p] = "commit" /\ layerL = NoLayer
  /\ meta' = [meta EXCEPT ![c] = m]
  /\ txs' = txs \ {id[p]}
  /\ cacheID' = [cacheID EXCEPT ![c] = id[p]]
  /\ layerMap' = layerMap \cup {c}
  /\ referenceCount' = [referenceCount EXCEPT ![c] = 1]
  /\ references' = [references EXCEPT ![c] = {p}]
  /\ pin' = [pin EXCEPT ![p] = NoLayer]
  /\ GotoL(p, "return")
  /\ UNCHANGED <<locks, mountVars, mountMeta, data, mountData, orphans, at, id, lcrashes, damaged,
                 panicked, layerLoad>>

\* Fault: the map is not looked at again before the new layer is entered.
RegisterCommit_Blind(p) == EnterLayer(p, "full") /\ LayerOK

\* Fault: the error of Commit is not looked at.
RegisterCommit_Ignored(p) ==
  /\ lpc[p] = "commit" /\ at[p] \notin layerMap
  /\ \E m \in {"none", "full"} : EnterLayer(p, m)
  /\ LayerOK

RegisterCommit(p) ==
  /\ lpc[p] = "commit" /\ at[p] \notin layerMap
  /\ meta[at[p]] = "none"
  /\ EnterLayer(p, "full")
  /\ LayerOK

\* ... or Commit fails: always when a torn directory is in the way.
RegisterCommitError(p) ==
  /\ lpc[p] = "commit" /\ layerL = NoLayer
  /\ at[p] \notin layerMap
  /\ IF meta[at[p]] = "none" THEN LayerFails ELSE LayerOK
  /\ GotoL(p, "clean")
  /\ UNCHANGED <<locks, layers, mountVars, disk, at, pin, id, lcrashes, damaged, panicked, layerLoad>>

\* The deferred clean-up: driver.Remove and tx.Cancel, whose errors are logged.
RegisterCleanOr(p, kept) ==
  /\ lpc[p] = "clean"
  /\ \/ LayerOK /\ orphans' = (orphans \/ kept)
     \/ LayerFails /\ orphans' = TRUE
  /\ data' = data \ {id[p]} /\ txs' = txs \ {id[p]}
  /\ GotoL(p, Unwound(p))
  /\ UNCHANGED <<locks, layers, mountVars, meta, mountMeta, mountData, at, pin, id,
                 lcrashes, damaged, panicked, layerLoad>>

\* Fault: the driver's layer stays.
RegisterClean_Kept(p) == RegisterCleanOr(p, TRUE)

RegisterClean(p) == RegisterCleanOr(p, FALSE)

\* The end of a call; with it the mutexes that are still held go.
ReturnL(p) ==
  /\ lpc[p] = "return"
  /\ GotoL(p, "idle")
  /\ at' = [at EXCEPT ![p] = NoLayer] /\ id' = [id EXCEPT ![p] = NoLayer]
  /\ layerL' = IF layerL = p THEN NoLayer ELSE layerL
  /\ mountL' = IF mountL = p THEN NoLayer ELSE mountL
  /\ UNCHANGED <<layers, mountVars, disk, pin, hist>>

-----------------------------------------------------------------------------
\* Release: under layerL, drop the reference and count down.
Release(p, c) ==
  /\ lpc[p] = "idle" /\ layerL = NoLayer
  /\ c \in layerMap /\ p \in references[c]
  /\ references' = [references EXCEPT ![c] = @ \ {p}]
  /\ layerL' = p
  /\ pin' = [pin EXCEPT ![p] = c]
  /\ GotoL(p, "release")
  /\ UNCHANGED <<mountL, layerMap, referenceCount, cacheID, mountVars, disk, at, id, hist>>

\* The deferred release of the parent after an error.
Unpin(p) ==
  /\ lpc[p] = "unpin" /\ layerL = NoLayer
  /\ layerL' = p
  /\ GotoL(p, "release")
  /\ UNCHANGED <<mountL, layers, mountVars, disk, at, pin, id, hist>>

\* releaseLayer: one turn of the loop counts down pin[p] ...
ReleaseCount(p) ==
  LET c == pin[p] IN
  /\ lpc[p] = "release"
  /\ IF referenceCount[c] = 0
     THEN panicked' = TRUE /\ GotoL(p, "return") /\ UNCHANGED <<referenceCount, at>>
     ELSE /\ referenceCount' = [referenceCount EXCEPT ![c] = @ - 1]
          /\ IF referenceCount[c] > 1
             THEN GotoL(p, "return") /\ UNCHANGED <<at, panicked>>
             ELSE /\ panicked' = (references[c] # {})
                  /\ at' = [at EXCEPT ![p] = c]
                  /\ GotoL(p, IF references[c] # {} THEN "return" ELSE "remove")
  /\ pin' = [pin EXCEPT ![p] = NoLayer]
  /\ UNCHANGED <<locks, layerMap, references, cacheID, mountVars, disk, id,
                 lfaults, lcrashes, damaged, layerLoad>>

\* ... deleteLayer removes the driver's layer ...
ReleaseRemove(p) ==
  /\ lpc[p] = "remove"
  /\ \/ data' = data \ {cacheID[at[p]]} /\ GotoL(p, "forget") /\ LayerOK
     \/ LayerFails /\ GotoL(p, "return") /\ UNCHANGED data
  /\ UNCHANGED <<locks, layers, mountVars, meta, mountMeta, mountData, txs, orphans, at, pin, id,
                 lcrashes, damaged, panicked, layerLoad>>

\* ... and the metadata; the layer leaves the map and its parent is next.
ReleaseForget(p) ==
  LET c == at[p] IN
  /\ lpc[p] = "forget"
  /\ \/ /\ meta' = [meta EXCEPT ![c] = "none"]
        /\ layerMap' = layerMap \ {c}
        /\ cacheID' = [cacheID EXCEPT ![c] = NoLayer]
        /\ damaged' = damaged \ {c}
        /\ pin' = [pin EXCEPT ![p] = ParentOf[c]]
        /\ GotoL(p, IF ParentOf[c] = NoLayer THEN "return" ELSE "release")
        /\ LayerOK
     \/ /\ LayerFails
        /\ \E m \in {meta[c], "torn"} : meta' = [meta EXCEPT ![c] = m]
        /\ damaged' = damaged \cup {c}
        /\ GotoL(p, "return")
        /\ UNCHANGED <<layerMap, cacheID, pin>>
  /\ UNCHANGED <<locks, referenceCount, references, mountVars, mountMeta, data, mountData,
                 txs, orphans, at, id, lcrashes, panicked, layerLoad>>
-----------------------------------------------------------------------------
\* CreateRWLayer, under mountL: retain the parent under layerL as well, ...
MountStart(p, n, c) ==
  /\ lpc[p] = "idle" /\ mountL = NoLayer
  /\ n \notin mounts
  /\ mountL' = p
  /\ at' = [at EXCEPT ![p] = c] /\ id' = [id EXCEPT ![p] = n]
  /\ GotoL(p, "mount")
  \* the new random mountID no longer names what an earlier attempt left behind
  /\ mountData' = [mountData EXCEPT ![n] = {}]
  /\ orphans' = (orphans \/ mountData[n] # {})
  /\ UNCHANGED <<layerL, layers, mountVars, meta, mountMeta, data, txs, pin, hist>>

MountParent(p) ==
  /\ lpc[p] = "mount" /\ layerL = NoLayer
  /\ IF at[p] \in layerMap THEN Retain(p, at[p])
     ELSE UNCHANGED <<referenceCount, pin>>
  /\ GotoL(p, IF at[p] \in layerMap \cup {NoLayer} THEN "mountInit" ELSE "return")
  /\ UNCHANGED <<locks, layerMap, references, cacheID, mountVars, disk, at, id, hist>>

\* ... create the init layer and the mount, ...
MountCreate(p, here, part, next) ==
  /\ lpc[p] = here
  /\ \/ /\ mountData' = [mountData EXCEPT ![id[p]] = @ \cup {part}]
        /\ \/ GotoL(p, next) /\ LayerOK
           \/ part = "init" /\ LayerFails /\ GotoL(p, Unwound(p))
     \/ LayerFails /\ GotoL(p, Unwound(p)) /\ UNCHANGED mountData
  /\ UNCHANGED <<locks, layers, mountVars, meta, mountMeta, data, txs, orphans, at, pin, id,
                 lcrashes, damaged, panicked, layerLoad>>

MountInit(p) == MountCreate(p, "mountInit", "init", "mountRW")
MountRW(p) == MountCreate(p, "mountRW", "rw", "mountSave")

\* ... and save it: without the parent when that is what failed.
MountSave(p) ==
  LET n == id[p] IN
  /\ lpc[p] = "mountSave"
  /\ \/ /\ mountMeta' = [mountMeta EXCEPT ![n] = "full"]
        /\ mounts' = mounts \cup {n}
        /\ mountParent' = [mountParent EXCEPT ![n] = at[p]]
        /\ mountRefs' = [mountRefs EXCEPT ![n] = {p}]
        /\ pin' = [pin EXCEPT ![p] = NoLayer]
        /\ GotoL(p, "return") /\ LayerOK
     \/ /\ LayerFails
        /\ \E m \in {mountMeta[n], "torn"} : mountMeta' = [mountMeta EXCEPT ![n] = m]
        /\ GotoL(p, Unwound(p))
        /\ UNCHANGED <<mountVars, pin>>
  /\ UNCHANGED <<locks, layers, meta, data, mountData, txs, orphans, at, id, lcrashes, damaged,
                 panicked, layerLoad>>

GetRWLayer(p, n) ==
  /\ lpc[p] = "idle" /\ mountL = NoLayer
  /\ n \in mounts /\ p \notin mountRefs[n]
  /\ mountRefs' = [mountRefs EXCEPT ![n] = @ \cup {p}]
  /\ UNCHANGED <<locks, layers, mounts, mountParent, disk, procs, hist>>

\* ReleaseRWLayer: the last reference removes the mount.
ReleaseRWLayer(p, n) ==
  /\ lpc[p] = "idle" /\ mountL = NoLayer
  /\ n \in mounts /\ p \in mountRefs[n]
  /\ mountRefs' = [mountRefs EXCEPT ![n] = @ \ {p}]
  /\ IF mountRefs[n] = {p}
     THEN /\ mountL' = p
          /\ GotoL(p, "unmountRW")
          /\ id' = [id EXCEPT ![p] = n]
     ELSE UNCHANGED <<mountL, lpc, id>>
  /\ UNCHANGED <<layerL, layers, mounts, mountParent, disk, at, pin, hist>>

\* A failure to remove a part leaves the caller with its reference.
UnmountPart(p, here, part, next) ==
  LET n == id[p] IN
  /\ lpc[p] = here
  /\ \/ /\ mountData' = [mountData EXCEPT ![n] = @ \ {part}]
        /\ GotoL(p, next) /\ LayerOK
        /\ UNCHANGED mountRefs
     \/ /\ LayerFails /\ GotoL(p, "return")
        /\ mountRefs' = [mountRefs EXCEPT ![n] = @ \cup {p}]
        /\ UNCHANGED mountData
  /\ UNCHANGED <<locks, layers, mounts, mountParent, meta, mountMeta, data, txs, orphans, at,
                 pin, id,
                 lcrashes, damaged, panicked, layerLoad>>

UnmountRW(p) == UnmountPart(p, "unmountRW", "rw", "unmountInit")
UnmountInit(p) == UnmountPart(p, "unmountInit", "init", "unmountMeta")

UnmountMeta(p) ==
  LET n == id[p] IN
  /\ lpc[p] = "unmountMeta"
  /\ \/ /\ mountMeta' = [mountMeta EXCEPT ![n] = "none"]
        /\ mounts' = mounts \ {n}
        /\ pin' = [pin EXCEPT ![p] = mountParent[n]]
        /\ GotoL(p, IF mountParent[n] = NoLayer THEN "return" ELSE "unpin") /\ LayerOK
        /\ UNCHANGED mountRefs
     \/ /\ LayerFails /\ GotoL(p, "return")
        /\ \E m \in {mountMeta[n], "torn"} : mountMeta' = [mountMeta EXCEPT ![n] = m]
        /\ mountRefs' = [mountRefs EXCEPT ![n] = @ \cup {p}]
        /\ UNCHANGED <<mounts, pin>>
  /\ UNCHANGED <<locks, layers, mountParent, meta, data, mountData, txs, orphans, at, id,
                 lcrashes, damaged, panicked, layerLoad>>
-----------------------------------------------------------------------------
\* The layers with a property that all layers below them have as well.
Downward(P) == UNION {S \in SUBSET P : \A c \in S : ParentOf[c] \in S \cup {NoLayer}}

\* The layers that loadLayer accepts: their metadata and that of all layers below
\* can be read.
Loadable(m) == Downward({c \in Chains : m[c] = "full"})

\* NewStoreFromGraphDriver over the metadata m and mm.  A torn mount directory may
\* load, but without its parent (some).
RestoreFrom(m, mm, some, childrenCounted) ==
  LET loaded == Loadable(m)
      whole == {n \in MountNames : mm[n] = "full" /\ mountParent[n] \in loaded \cup {NoLayer}}
  IN /\ layerMap' = loaded
     /\ mounts' = whole \cup some
     /\ mountParent' = [n \in MountNames |-> IF n \in whole THEN mountParent[n] ELSE NoLayer]
     /\ referenceCount' =
          [c \in Chains |->
             (IF childrenCounted THEN Cardinality({d \in loaded : ParentOf[d] = c}) ELSE 0)
             + Cardinality({n \in whole : mountParent[n] = c})]
     /\ references' = [c \in Chains |-> {}]
     /\ mountRefs' = [n \in MountNames |-> {}]
     /\ cacheID' = [c \in Chains |-> IF m[c] = "full" THEN cacheID[c] ELSE NoLayer]

\* Fault: only the mounts are counted.
Restore_Uncounted(m, mm, some) == RestoreFrom(m, mm, some, FALSE)

LayerRestore(m, mm, some) == RestoreFrom(m, mm, some, TRUE)

\* The daemon dies, perhaps in the middle of a file operation, and is restarted.
LayerCrash ==
  LET removing == {c \in Chains : \E p \in LayerUsers : lpc[p] = "forget" /\ at[p] = c}
      writing == {n \in MountNames :
                    \E p \in LayerUsers : lpc[p] \in {"mountSave", "unmountMeta"} /\ id[p] = n}
  IN
  /\ lcrashes < layerLoad.crashes
  /\ lcrashes' = lcrashes + 1
  /\ \E tl \in SUBSET removing, tm \in SUBSET writing :
       /\ meta' = [c \in Chains |-> IF c \in tl THEN "torn" ELSE meta[c]]
       /\ mountMeta' = [n \in MountNames |-> IF n \in tm THEN "torn" ELSE mountMeta[n]]
  /\ \E some \in SUBSET {n \in MountNames : mountMeta'[n] = "torn"} : LayerRestore(meta', mountMeta', some)
  /\ damaged' = damaged \cup removing
  /\ layerL' = NoLayer /\ mountL' = NoLayer
  /\ lpc' = [p \in LayerUsers |-> "idle"]
  /\ at' = [p \in LayerUsers |-> NoLayer] /\ pin' = [p \in LayerUsers |-> NoLayer] /\ id' = [p \in LayerUsers |-> NoLayer]
  /\ data' = {cacheID'[c] : c \in Chains} \cap data
  /\ txs' = {}
  /\ orphans' = (orphans \/ data' # data \/ txs # {})
  /\ UNCHANGED <<mountData, lfaults, panicked, layerLoad>>

RegisterStep(p) == \/ RegisterCreate(p) \/ RegisterBegin(p) \/ RegisterApply(p)
                   \/ RegisterExisting(p) \/ RegisterCommit(p) \/ RegisterCommitError(p)
                   \/ RegisterClean(p)
ReleaseStep(p) == \/ Unpin(p) \/ ReleaseCount(p) \/ ReleaseRemove(p) \/ ReleaseForget(p)
MountStep(p) == \/ MountParent(p) \/ MountInit(p) \/ MountRW(p) \/ MountSave(p)
                \/ UnmountRW(p) \/ UnmountInit(p) \/ UnmountMeta(p)

LayerNext ==
  \/ \E p \in LayerUsers :
       \/ \E c \in layerLoad.chains : GetLayer(p, c) \/ RegisterStart(p, c) \/ Release(p, c)
       \/ \E n \in layerLoad.names : GetRWLayer(p, n) \/ ReleaseRWLayer(p, n)
       \/ \E n \in layerLoad.names, c \in layerLoad.chains \cup {NoLayer} : MountStart(p, n, c)
       \/ RegisterStep(p) \/ ReleaseStep(p) \/ MountStep(p) \/ ReturnL(p)
  \/ LayerCrash

LayerSpec == LayerInit /\ [][LayerNext]_layerVars
-----------------------------------------------------------------------------
\* Who counts on a layer: references given out, layers and mounts on top of it,
\* calls in progress.
Tagged(kind, S) == {<<kind, x>> : x \in S}
LayersOn(c) == {d \in layerMap : ParentOf[d] = c}
MountsOn(c) == {n \in mounts : mountParent[n] = c}
CallsOn(c) == {p \in LayerUsers : pin[p] = c}
Pins(c) == Tagged("ref", references[c]) \cup Tagged("child", LayersOn(c))
             \cup Tagged("mount", MountsOn(c)) \cup Tagged("call", CallsOn(c))

\* The reference count of a layer is exactly the number of those that count on it,
\* on every error path of Register, CreateRWLayer and the two releases, and after a
\* restart (layer_store.go:86-95, 195, 255-261, 337, 388, 451-457), so that none of
\* the panics of releaseLayer can happen (385-398).
CountExact == ~panicked /\ \A c \in Chains : referenceCount[c] = Cardinality(Pins(c))

\* A layer that anybody counts on is in the map with its metadata and its data, and
\* so is its parent, unless an earlier removal of it was interrupted half-way
\* (layer_store.go:360-379): in particular the parent of a layer that is being
\* registered or mounted cannot be removed under it.
HeldIntact ==
  \A c \in Chains :
    /\ Pins(c) # {} => c \in layerMap /\ (ParentOf[c] # NoLayer => ParentOf[c] \in layerMap)
    /\ Pins(c) # {} /\ c \notin damaged => meta[c] = "full" /\ cacheID[c] \in data

\* With no call in progress, and when nothing failed and nothing crashed, driver and
\* metadata hold what the store knows and nothing else, and it is all in use:
\* losing a registration race and every release clean up (layer_store.go:287-297,
\* 316-320, 404).
NothingLeft ==
  (\A p \in LayerUsers : lpc[p] = "idle") /\ lfaults = 0 /\ lcrashes = 0
  => /\ data = {cacheID[c] : c \in layerMap} /\ txs = {} /\ ~orphans
     /\ \A c \in Chains : (meta[c] = "full" <=> c \in layerMap)
     /\ \A c \in layerMap : Pins(c) # {}
     /\ \A n \in MountNames : (mountData[n] # {} <=> n \in mounts)

\* The layers with no half-removed layer at or below them.
Sound == Downward(Chains \ damaged)

\* A layer that somebody counts on survives a crash at any point, with its data
\* (layer_store.go:73-104; the rename in filestore.go:134 is the commit point).
CrashKeepsLayers ==
  [][lcrashes' > lcrashes =>
       \A c \in Sound : Pins(c) # {} => /\ c \in layerMap'
                                        /\ cacheID'[c] = cacheID[c] /\ cacheID'[c] \in data']_layerVars
=============================================================================
