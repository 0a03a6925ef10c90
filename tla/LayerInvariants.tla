-------------------------- MODULE LayerInvariants ---------------------------
(***************************************************************************)
(* The inductive invariant of LayerStore: the counts and what a call holds *)
(* at each of its steps (CountInv), the names, the data and the metadata   *)
(* of the layers through failures and crashes (DiskInv), and what is       *)
(* stored when nothing has failed (CleanInv).                              *)
(***************************************************************************)
EXTENDS LayerStore

Creating == {"create", "begin", "apply", "commit"}     \* of a new layer
Registering == Creating \cup {"clean"}
Named == {"begin", "apply", "commit", "clean"}         \* with a name in the driver
Releasing == {"release", "remove", "forget"}           \* under layerL
Removing == {"remove", "forget"}
Mounted == {"mountInit", "mountRW", "mountSave"}       \* with the parent counted up
Mounting == Mounted \cup {"mount"}
Unmounting == {"unmountRW", "unmountInit", "unmountMeta"}
LPcs == {"idle", "return", "unpin"} \cup Registering \cup Releasing \cup Mounting \cup Unmounting

LsTypeOK ==
  /\ layerL \in LayerUsers \cup {NoLayer} /\ mountL \in LayerUsers \cup {NoLayer}
  /\ layerMap \in SUBSET Chains /\ mounts \in SUBSET MountNames
  /\ referenceCount \in [Chains -> Nat] /\ references \in [Chains -> SUBSET LayerUsers]
  /\ mountParent \in [MountNames -> Chains \cup {NoLayer}]
  /\ lpc \in [LayerUsers -> LPcs]
  /\ at \in [LayerUsers -> Chains \cup {NoLayer}] /\ pin \in [LayerUsers -> Chains \cup {NoLayer}]
  /\ id \in [LayerUsers -> IDs \cup MountNames \cup {NoLayer}]
  /\ layerLoad \in LayerLoads

\* What a call holds at each of its steps.
CallOK(p) ==
  /\ lpc[p] \in Releasing => layerL = p
  /\ lpc[p] \in Mounting \cup Unmounting => mountL = p
  /\ lpc[p] \in {"idle", "return", "mount"} \cup Unmounting \cup Removing => pin[p] = NoLayer
  /\ lpc[p] \in {"unpin", "release"} => pin[p] # NoLayer
  /\ lpc[p] \in Registering => at[p] \in Chains /\ pin[p] = ParentOf[at[p]]
  /\ lpc[p] \in Creating => p \notin references[at[p]]
  /\ lpc[p] \in Mounted => pin[p] = at[p]
  /\ lpc[p] \in Mounting => id[p] \in MountNames \ mounts
  /\ lpc[p] \in Unmounting => id[p] \in mounts
  /\ lpc[p] \in Removing => at[p] \in layerMap /\ referenceCount[at[p]] = 0

\* Only layers in the map are counted on.
MapOK ==
  /\ \A c \in Chains : references[c] # {} => c \in layerMap
  /\ \A c \in layerMap : ParentOf[c] \in layerMap \cup {NoLayer}
  /\ \A n \in mounts : mountParent[n] \in layerMap \cup {NoLayer}
  /\ \A p \in LayerUsers : pin[p] \in layerMap \cup {NoLayer}

CountOK ==
  \A c \in Chains : referenceCount[c] = Cardinality(references[c]) + Cardinality(LayersOn(c))
                                        + Cardinality(MountsOn(c)) + Cardinality(CallsOn(c))

\* The inductive invariant of the counts.
CountInv == LsTypeOK /\ MapOK /\ CountOK /\ ~panicked /\ \A p \in LayerUsers : CallOK(p)
-----------------------------------------------------------------------------
\* Names in the driver belong to one layer or to one call, and a layer has its data
\* until the call that removes it has come to its metadata.
Forgetting(c) == \E p \in LayerUsers : lpc[p] = "forget" /\ at[p] = c
DiskTypeOK ==
  /\ cacheID \in [Chains -> IDs \cup {NoLayer}] /\ data \in SUBSET IDs
  /\ meta \in [Chains -> {"none", "full", "torn"}] /\ mountData \in [MountNames -> SUBSET {"init", "rw"}]
  /\ lfaults \in Nat /\ lcrashes \in Nat
DiskInv ==
  /\ DiskTypeOK
  /\ \A c \in Chains : meta[c] = "full" /\ c \notin damaged => cacheID[c] \in data \/ Forgetting(c)
  /\ \A c \in layerMap : c \notin damaged => meta[c] = "full"
  /\ \A c, d \in Chains : cacheID[c] = cacheID[d] /\ cacheID[c] # NoLayer => c = d
  /\ \A p \in LayerUsers : lpc[p] \in Named =>
       /\ id[p] \in data
       /\ \A c \in Chains : cacheID[c] # id[p]
       /\ \A q \in LayerUsers : lpc[q] \in Named /\ id[q] = id[p] => q = p
-----------------------------------------------------------------------------
\* When nothing has failed and nothing has crashed: the driver and the metadata hold
\* what the map and the calls in progress account for.
DriverClean ==
  /\ \A i \in data : \/ \E c \in layerMap : cacheID[c] = i /\ ~Forgetting(c)
                     \/ \E p \in LayerUsers : lpc[p] \in Named /\ id[p] = i
  /\ \A i \in txs : \E p \in LayerUsers : lpc[p] \in Named \ {"begin"} /\ id[p] = i
  /\ ~orphans /\ damaged = {}
  /\ \A c \in Chains : meta[c] = "full" <=> c \in layerMap
MapClean ==
  \A c \in layerMap : referenceCount[c] # 0 \/ \E p \in LayerUsers : lpc[p] \in Removing /\ at[p] = c
Parts(n) == IF n \in mounts THEN {"init", "rw"} ELSE {}
PartsAt(w) == IF w \in {"mount", "mountInit", "unmountMeta"} THEN {}
              ELSE IF w \in {"mountRW", "unmountInit"} THEN {"init"} ELSE {"init", "rw"}
MountsClean ==
  /\ \A n \in MountNames : \/ mountData[n] = Parts(n)
                           \/ \E p \in LayerUsers : lpc[p] \in Mounting \cup Unmounting /\ id[p] = n
  /\ \A p \in LayerUsers : lpc[p] \in Mounting \cup Unmounting => mountData[id[p]] = PartsAt(lpc[p])
CleanInv == lfaults = 0 /\ lcrashes = 0 => DriverClean /\ MapClean /\ MountsClean

LsInv == CountInv /\ DiskInv /\ CleanInv
=============================================================================
