-------------------------- MODULE LayerDiskProofs ---------------------------
(***************************************************************************)
(* Proofs about the layer store: the names of the layers in the driver,    *)
(* their data and their metadata, through failures and crashes, and that   *)
(* nothing else is there when nothing has failed.                          *)
(***************************************************************************)
EXTENDS LayerInvariants, TLAPS

\* More time for a leaf than by default, and a second attempt, for slow machines.
USE SMTT(30), Z3T(30), ZenonT(30)

\* The layers with a property all the way down: the largest set closed under parents.
LEMMA DownwardIs ==
  ASSUME NEW P \in SUBSET Chains
  PROVE  /\ Downward(P) \subseteq P
         /\ \A c \in Downward(P) : ParentOf[c] \in Downward(P) \cup {NoLayer}
         /\ \A S \in SUBSET P : (\A c \in S : ParentOf[c] \in S \cup {NoLayer}) => S \subseteq Downward(P)
<1>1. Downward(P) \subseteq P
  BY DEF Downward
<1>2. ASSUME NEW c \in Downward(P) PROVE ParentOf[c] \in Downward(P) \cup {NoLayer}
  <2>1. PICK S \in SUBSET P : c \in S /\ \A d \in S : ParentOf[d] \in S \cup {NoLayer}
    BY DEF Downward
  <2> QED
    BY <2>1 DEF Downward
<1>3. ASSUME NEW S \in SUBSET P, \A c \in S : ParentOf[c] \in S \cup {NoLayer} PROVE S \subseteq Downward(P)
  BY <1>3 DEF Downward
<1> QED
  BY <1>1, <1>2, <1>3

-----------------------------------------------------------------------------
(* Steps on the driver and the metadata.                                  *)

\* The calls of the others stay where they are.
OthersStay(p) == \A q \in LayerUsers : q # p => lpc'[q] = lpc[q] /\ at'[q] = at[q] /\ id'[q] = id[q]

\* A step of p that leaves the layers on disk alone.
QuietStep(p) ==
  /\ OthersStay(p) /\ UNCHANGED <<layerMap, cacheID, meta, data, damaged>>
  /\ lpc[p] # "forget" /\ lpc'[p] # "forget"
  /\ lpc'[p] \in Named => lpc[p] \in Named /\ id'[p] = id[p]

\* What a step of p does to the driver and the metadata, in six kinds.
LEMMA QuietSteps ==
  ASSUME LsTypeOK, NEW p \in LayerUsers,
         \/ \E c \in layerLoad.chains : GetLayer(p, c) \/ RegisterStart(p, c) \/ Release(p, c)
         \/ \E n \in layerLoad.names : GetRWLayer(p, n) \/ ReleaseRWLayer(p, n)
         \/ \E n \in layerLoad.names, c \in layerLoad.chains \cup {NoLayer} : MountStart(p, n, c)
         \/ RegisterApply(p) \/ RegisterExisting(p) \/ RegisterCommitError(p)
         \/ Unpin(p) \/ ReleaseCount(p) \/ MountStep(p) \/ ReturnL(p)
  PROVE  QuietStep(p)
<1>1. UNCHANGED <<layerMap, cacheID, meta, data, damaged>>
  BY Zenon DEF GetLayer, RegisterStart, Release, GetRWLayer, ReleaseRWLayer, MountStart, RegisterApply,
         RegisterExisting, RegisterCommitError, Unpin, ReleaseCount, ReturnL, MountStep, MountParent,
         MountInit, MountRW, MountCreate, MountSave, UnmountRW, UnmountInit, UnmountPart, UnmountMeta,
         layers, disk, hist
<1>2. lpc' = lpc \/ \E w : lpc' = [lpc EXCEPT ![p] = w]
  BY Zenon DEF GetLayer, RegisterStart, Release, GetRWLayer, ReleaseRWLayer, MountStart, RegisterApply,
         RegisterExisting, RegisterCommitError, Unpin, ReleaseCount, ReturnL, MountStep, MountParent,
         MountInit, MountRW, MountCreate, MountSave, UnmountRW, UnmountInit, UnmountPart, UnmountMeta,
         GotoL, procs
<1>3. at' = at \/ \E w : at' = [at EXCEPT ![p] = w]
  BY Zenon DEF GetLayer, RegisterStart, Release, GetRWLayer, ReleaseRWLayer, MountStart, RegisterApply,
         RegisterExisting, RegisterCommitError, Unpin, ReleaseCount, ReturnL, MountStep, MountParent,
         MountInit, MountRW, MountCreate, MountSave, UnmountRW, UnmountInit, UnmountPart, UnmountMeta,
         procs
<1>4. id' = id \/ \E w : id' = [id EXCEPT ![p] = w]
  BY Zenon DEF GetLayer, RegisterStart, Release, GetRWLayer, ReleaseRWLayer, MountStart, RegisterApply,
         RegisterExisting, RegisterCommitError, Unpin, ReleaseCount, ReturnL, MountStep, MountParent,
         MountInit, MountRW, MountCreate, MountSave, UnmountRW, UnmountInit, UnmountPart, UnmountMeta,
         procs
<1>5. OthersStay(p)
  BY <1>2, <1>3, <1>4 DEF OthersStay, LsTypeOK
<1> DEFINE Quietly == /\ lpc[p] # "forget" /\ lpc'[p] # "forget"
                      /\ lpc'[p] \in Named => lpc[p] \in Named /\ id'[p] = id[p]
<1>6. ASSUME RegisterApply(p) \/ RegisterExisting(p) \/ RegisterCommitError(p) PROVE Quietly
  <2>1. lpc[p] \in {"apply", "commit"} /\ id' = id /\ \E w \in {"commit", "clean"} : lpc' = [lpc EXCEPT ![p] = w]
    BY <1>6, Zenon DEF RegisterApply, RegisterExisting, RegisterCommitError, GotoL
  <2> QED
    BY <2>1, Zenon DEF Named, LsTypeOK
<1>7. ASSUME \/ \E c \in layerLoad.chains : GetLayer(p, c) \/ RegisterStart(p, c) \/ Release(p, c)
             \/ \E n \in layerLoad.names : GetRWLayer(p, n) \/ ReleaseRWLayer(p, n)
             \/ \E n \in layerLoad.names, c \in layerLoad.chains \cup {NoLayer} : MountStart(p, n, c)
      PROVE  Quietly
  <2>1. /\ lpc[p] = "idle"
        /\ \/ lpc' = lpc
           \/ \E w \in {"create", "unpin", "release", "unmountRW", "mount"} : lpc' = [lpc EXCEPT ![p] = w]
    BY <1>7, Zenon
       DEF GetLayer, RegisterStart, Release, GetRWLayer, ReleaseRWLayer, MountStart, procs, GotoL
  <2> QED
    BY <2>1 DEF Named, LsTypeOK
<1>8. ASSUME Unpin(p) \/ ReleaseCount(p) \/ ReturnL(p) PROVE Quietly
  <2>1. /\ lpc[p] # "forget"
        /\ \E w \in {"release", "remove", "return", "idle"} : lpc' = [lpc EXCEPT ![p] = w]
    BY <1>8, Zenon DEF Unpin, ReleaseCount, ReturnL, GotoL
  <2> QED
    BY <2>1, Zenon DEF Named, LsTypeOK
<1>9. ASSUME MountStep(p) PROVE Quietly
  <2>1. /\ lpc[p] # "forget"
        /\ \E w \in {"mountInit", "return", "unpin", "mountRW", "mountSave", "unmountInit", "unmountMeta"} :
             lpc' = [lpc EXCEPT ![p] = w]
    <3>1. Unwound(p) \in {"return", "unpin"}
      BY DEF Unwound
    <3>2. CASE MountParent(p) \/ MountSave(p) \/ UnmountMeta(p)
      BY <3>1, <3>2, Zenon DEF MountParent, MountSave, UnmountMeta, GotoL
    <3>3. CASE MountInit(p) \/ MountRW(p)
      BY <3>1, <3>3, Zenon DEF MountInit, MountRW, MountCreate, GotoL
    <3>4. CASE UnmountRW(p) \/ UnmountInit(p)
      BY <3>4, Zenon DEF UnmountRW, UnmountInit, UnmountPart, GotoL
    <3> QED
      BY <1>9, <3>2, <3>3, <3>4, Zenon DEF MountStep
  <2> QED
    BY <2>1, Zenon DEF Named, LsTypeOK
<1>10. Quietly
  BY <1>6, <1>7, <1>8, <1>9, Zenon
<1> QED
  BY <1>1, <1>5, <1>10, Zenon DEF QuietStep

\* Such a step keeps the disk in order.
LEMMA QuietDisk ==
  ASSUME DiskInv, NEW p \in LayerUsers, QuietStep(p), DiskTypeOK' PROVE DiskInv'
<1>1. \A c \in Chains : Forgetting(c) => Forgetting(c)'
  BY DEF Forgetting, QuietStep, OthersStay
<1>2. \A q \in LayerUsers : lpc'[q] \in Named => lpc[q] \in Named /\ id'[q] = id[q]
  BY DEF QuietStep, OthersStay
<1>3. UNCHANGED <<layerMap, cacheID, meta, data, damaged>>
  BY DEF QuietStep
<1> QED
  BY <1>1, <1>2, <1>3 DEF DiskInv

\* The steps of p.
LayerStep(p) ==
  \/ \E c \in layerLoad.chains : GetLayer(p, c) \/ RegisterStart(p, c) \/ Release(p, c)
  \/ \E n \in layerLoad.names : GetRWLayer(p, n) \/ ReleaseRWLayer(p, n)
  \/ \E n \in layerLoad.names, c \in layerLoad.chains \cup {NoLayer} : MountStart(p, n, c)
  \/ RegisterStep(p) \/ ReleaseStep(p) \/ MountStep(p) \/ ReturnL(p)

\* The types of what is on disk.
LEMMA StepDiskType ==
  ASSUME LsTypeOK, DiskInv, NEW p \in LayerUsers, LayerStep(p) PROVE DiskTypeOK'
<1>0. DiskTypeOK
  BY DEF DiskInv
<1>1. lfaults' \in Nat /\ lcrashes' \in Nat
  <2>1. lcrashes' = lcrashes /\ (lfaults' = lfaults \/ lfaults' = lfaults + 1)
    BY Zenon DEF LayerStep, LayerOK, LayerFails, hist,
         GetLayer, RegisterStart, Release, GetRWLayer, ReleaseRWLayer, MountStart, RegisterStep,
         RegisterCreate, RegisterBegin, RegisterApply, RegisterExisting, RegisterCommit, EnterLayer,
         RegisterCommitError, RegisterClean, RegisterCleanOr, ReleaseStep, Unpin, ReleaseCount,
         ReleaseRemove, ReleaseForget, ReturnL, MountStep, MountParent, MountInit, MountRW, MountCreate,
         MountSave, UnmountRW, UnmountInit, UnmountPart, UnmountMeta
  <2> QED
    BY <1>0, <2>1 DEF DiskTypeOK
<1>2. mountData' \in [MountNames -> SUBSET {"init", "rw"}]
  <2>1. \/ mountData' = mountData
        \/ \E n : mountData' = [mountData EXCEPT ![n] = {}]
        \/ \E n, part : part \in {"init", "rw"} /\ mountData' = [mountData EXCEPT ![n] = @ \cup {part}]
        \/ \E n, part : mountData' = [mountData EXCEPT ![n] = @ \ {part}]
    BY Zenon DEF LayerStep, disk,
         GetLayer, RegisterStart, Release, GetRWLayer, ReleaseRWLayer, MountStart, RegisterStep,
         RegisterCreate, RegisterBegin, RegisterApply, RegisterExisting, RegisterCommit, EnterLayer,
         RegisterCommitError, RegisterClean, RegisterCleanOr, ReleaseStep, Unpin, ReleaseCount,
         ReleaseRemove, ReleaseForget, ReturnL, MountStep, MountParent, MountInit, MountRW, MountCreate,
         MountSave, UnmountRW, UnmountInit, UnmountPart, UnmountMeta
  <2> QED
    BY <1>0, <2>1 DEF DiskTypeOK
<1>3. meta' \in [Chains -> {"none", "full", "torn"}]
  <2>1. \/ meta' = meta
        \/ \E c \in Chains \cup {NoLayer} : \E m \in {"none", "full", "torn", meta[c]} :
              meta' = [meta EXCEPT ![c] = m]
    <3>1. at[p] \in Chains \cup {NoLayer}
      BY DEF LsTypeOK
    <3> QED
      BY <3>1, Zenon DEF LayerStep, disk,
         GetLayer, RegisterStart, Release, GetRWLayer, ReleaseRWLayer, MountStart, RegisterStep,
         RegisterCreate, RegisterBegin, RegisterApply, RegisterExisting, RegisterCommit, EnterLayer,
         RegisterCommitError, RegisterClean, RegisterCleanOr, ReleaseStep, Unpin, ReleaseCount,
         ReleaseRemove, ReleaseForget, ReturnL, MountStep, MountParent, MountInit, MountRW, MountCreate,
         MountSave, UnmountRW, UnmountInit, UnmountPart, UnmountMeta
  <2> QED
    BY <1>0, <2>1 DEF DiskTypeOK
<1>4. cacheID' \in [Chains -> IDs \cup {NoLayer}]
  <2>1. \/ cacheID' = cacheID
        \/ lpc[p] = "commit" /\ \E c : cacheID' = [cacheID EXCEPT ![c] = id[p]]
        \/ \E c : cacheID' = [cacheID EXCEPT ![c] = NoLayer]
    BY Zenon DEF LayerStep, layers,
         GetLayer, RegisterStart, Release, GetRWLayer, ReleaseRWLayer, MountStart, RegisterStep,
         RegisterCreate, RegisterBegin, RegisterApply, RegisterExisting, RegisterCommit, EnterLayer,
         RegisterCommitError, RegisterClean, RegisterCleanOr, ReleaseStep, Unpin, ReleaseCount,
         ReleaseRemove, ReleaseForget, ReturnL, MountStep, MountParent, MountInit, MountRW, MountCreate,
         MountSave, UnmountRW, UnmountInit, UnmountPart, UnmountMeta
  <2>2. lpc[p] = "commit" => id[p] \in IDs
    BY DEF DiskInv, DiskTypeOK, Named
  <2> QED
    BY <1>0, <2>1, <2>2 DEF DiskTypeOK
<1>5. data' \in SUBSET IDs
  <2>1. data' = data \/ (UnusedID # {} /\ data' = data \cup {Fresh}) \/ \E i : data' = data \ {i}
    BY Zenon DEF LayerStep, disk,
         GetLayer, RegisterStart, Release, GetRWLayer, ReleaseRWLayer, MountStart, RegisterStep,
         RegisterCreate, RegisterBegin, RegisterApply, RegisterExisting, RegisterCommit, EnterLayer,
         RegisterCommitError, RegisterClean, RegisterCleanOr, ReleaseStep, Unpin, ReleaseCount,
         ReleaseRemove, ReleaseForget, ReturnL, MountStep, MountParent, MountInit, MountRW, MountCreate,
         MountSave, UnmountRW, UnmountInit, UnmountPart, UnmountMeta
  <2>2. UnusedID # {} => Fresh \in IDs
    BY DEF Fresh, UnusedID
  <2> QED
    BY <1>0, <2>1, <2>2 DEF DiskTypeOK
<1> QED
  BY <1>1, <1>2, <1>3, <1>4, <1>5 DEF DiskTypeOK

LEMMA StepStays == ASSUME LsTypeOK, NEW p \in LayerUsers, LayerStep(p) PROVE OthersStay(p)
<1>1. lpc' = lpc \/ \E w : lpc' = [lpc EXCEPT ![p] = w]
  BY Zenon DEF LayerStep, GotoL, procs,
         GetLayer, RegisterStart, Release, GetRWLayer, ReleaseRWLayer, MountStart, RegisterStep,
         RegisterCreate, RegisterBegin, RegisterApply, RegisterExisting, RegisterCommit, EnterLayer,
         RegisterCommitError, RegisterClean, RegisterCleanOr, ReleaseStep, Unpin, ReleaseCount,
         ReleaseRemove, ReleaseForget, ReturnL, MountStep, MountParent, MountInit, MountRW, MountCreate,
         MountSave, UnmountRW, UnmountInit, UnmountPart, UnmountMeta
<1>2. at' = at \/ \E w : at' = [at EXCEPT ![p] = w]
  BY Zenon DEF LayerStep, procs,
         GetLayer, RegisterStart, Release, GetRWLayer, ReleaseRWLayer, MountStart, RegisterStep,
         RegisterCreate, RegisterBegin, RegisterApply, RegisterExisting, RegisterCommit, EnterLayer,
         RegisterCommitError, RegisterClean, RegisterCleanOr, ReleaseStep, Unpin, ReleaseCount,
         ReleaseRemove, ReleaseForget, ReturnL, MountStep, MountParent, MountInit, MountRW, MountCreate,
         MountSave, UnmountRW, UnmountInit, UnmountPart, UnmountMeta
<1>3. id' = id \/ \E w : id' = [id EXCEPT ![p] = w]
  BY Zenon DEF LayerStep, procs,
         GetLayer, RegisterStart, Release, GetRWLayer, ReleaseRWLayer, MountStart, RegisterStep,
         RegisterCreate, RegisterBegin, RegisterApply, RegisterExisting, RegisterCommit, EnterLayer,
         RegisterCommitError, RegisterClean, RegisterCleanOr, ReleaseStep, Unpin, ReleaseCount,
         ReleaseRemove, ReleaseForget, ReturnL, MountStep, MountParent, MountInit, MountRW, MountCreate,
         MountSave, UnmountRW, UnmountInit, UnmountPart, UnmountMeta
<1> QED
  BY <1>1, <1>2, <1>3 DEF OthersStay, LsTypeOK

\* Register creates a layer in the driver under a new name.
LEMMA CreateDisk ==
  ASSUME LsTypeOK, DiskInv, NEW p \in LayerUsers, RegisterCreate(p), OthersStay(p), DiskTypeOK' PROVE DiskInv'
<1>0. lpc[p] = "create" /\ UNCHANGED <<layerMap, cacheID, meta, damaged, at>>
  BY DEF RegisterCreate, layers
<1>1. CASE UnusedID # {} /\ id' = [id EXCEPT ![p] = Fresh] /\ data' = data \cup {Fresh} /\ lpc' = [lpc EXCEPT ![p] = "begin"]
  <2>1. Fresh \in UnusedID
    BY <1>1 DEF Fresh
  <2>2. Fresh \in IDs /\ (\A c \in Chains : cacheID[c] # Fresh) /\ (\A q \in LayerUsers : id[q] # Fresh)
    BY <2>1 DEF UnusedID
  <2>3. id'[p] = Fresh /\ lpc'[p] = "begin"
    BY <1>1 DEF LsTypeOK
  <2> HIDE DEF Fresh
  <2>4. \A c \in Chains : Forgetting(c) => Forgetting(c)'
    BY <1>0 DEF Forgetting, OthersStay
  <2>5. ASSUME NEW q \in LayerUsers, lpc'[q] \in Named
        PROVE  /\ id'[q] \in data'
               /\ \A c \in Chains : cacheID'[c] # id'[q]
               /\ \A r \in LayerUsers : lpc'[r] \in Named /\ id'[r] = id'[q] => r = q
    BY <1>0, <1>1, <2>2, <2>3, <2>5 DEF DiskInv, OthersStay
  <2> QED
    BY <1>0, <1>1, <2>4, <2>5 DEF DiskInv
<1>2. CASE lpc' = [lpc EXCEPT ![p] = Unwound(p)] /\ UNCHANGED <<id, data>>
  <2>1. lpc'[p] \notin Named /\ lpc'[p] # "forget"
    BY <1>2 DEF Unwound, Named, LsTypeOK
  <2> QED
    BY <1>0, <1>2, <2>1, QuietDisk DEF QuietStep
<1> QED
  BY <1>1, <1>2 DEF RegisterCreate, GotoL

\* Register goes on, or cleans up: what it removes from the driver is its own.
LEMMA OwnDataDisk ==
  ASSUME LsTypeOK, DiskInv, NEW p \in LayerUsers, RegisterBegin(p) \/ RegisterClean(p), OthersStay(p), DiskTypeOK'
  PROVE  DiskInv'
<1>1. /\ lpc[p] \in {"begin", "clean"} /\ UNCHANGED <<layerMap, cacheID, meta, damaged, at, id>>
      /\ \/ data' = data /\ lpc' = [lpc EXCEPT ![p] = "apply"]
         \/ data' = data \ {id[p]} /\ lpc' = [lpc EXCEPT ![p] = Unwound(p)]
  BY Zenon DEF RegisterBegin, RegisterClean, RegisterCleanOr, GotoL, layers
<1>2. \A c \in Chains : Forgetting(c) => Forgetting(c)'
  BY <1>1 DEF Forgetting, OthersStay
<1>3. lpc[p] \in Named /\ \A c \in Chains : cacheID[c] # id[p]
  BY <1>1 DEF DiskInv, Named
<1>4. data' = data \/ (data' = data \ {id[p]} /\ lpc'[p] \notin Named)
  BY <1>1 DEF Unwound, Named, LsTypeOK
<1>5. \A q \in LayerUsers : lpc'[q] \in Named => lpc[q] \in Named /\ id'[q] = id[q] /\ (data' = data \/ q # p)
  BY <1>1, <1>3, <1>4 DEF OthersStay
<1>6. \A q \in LayerUsers : lpc'[q] \in Named => id'[q] \in data'
  BY <1>3, <1>4, <1>5 DEF DiskInv
<1> QED
  BY <1>1, <1>2, <1>3, <1>4, <1>5, <1>6 DEF DiskInv

\* Register hands its name in the driver to the new layer.
LEMMA CommitDisk ==
  ASSUME CountInv, DiskInv, NEW p \in LayerUsers, RegisterCommit(p), OthersStay(p), DiskTypeOK'
  PROVE  DiskInv'
<1> DEFINE x == at[p]
<1>1. /\ lpc[p] = "commit" /\ x \notin layerMap /\ lpc' = [lpc EXCEPT ![p] = "return"]
      /\ UNCHANGED <<data, damaged, at, id>>
      /\ meta' = [meta EXCEPT ![x] = "full"] /\ cacheID' = [cacheID EXCEPT ![x] = id[p]]
      /\ layerMap' = layerMap \cup {x}
  BY Zenon DEF RegisterCommit, EnterLayer, GotoL
<1>2. x \in Chains
  BY <1>1, Zenon DEF CountInv, CallOK, Registering, Creating
<1> HIDE DEF x
<1>3. id[p] \in data /\ id[p] # NoLayer /\ lpc[p] \in Named /\ lpc'[p] \notin Named /\ lpc[p] # "forget"
  BY <1>1, LayerAssumption DEF DiskInv, DiskTypeOK, Named, CountInv, LsTypeOK
<1>4. \A c \in Chains : /\ meta'[c] = IF c = x THEN "full" ELSE meta[c]
                        /\ cacheID'[c] = IF c = x THEN id[p] ELSE cacheID[c]
  BY <1>1 DEF DiskInv, DiskTypeOK
<1>5. \A c \in Chains : Forgetting(c) => Forgetting(c)'
  BY <1>1, <1>3 DEF Forgetting, OthersStay
<1>6. \A c \in Chains : meta'[c] = "full" /\ c \notin damaged' => cacheID'[c] \in data' \/ Forgetting(c)'
  BY <1>1, <1>3, <1>4, <1>5 DEF DiskInv
<1>7. \A c \in layerMap' : c \notin damaged' => meta'[c] = "full"
  BY <1>1, <1>2, <1>4 DEF DiskInv, CountInv, LsTypeOK
<1>8. \A c, d \in Chains : cacheID'[c] = cacheID'[d] /\ cacheID'[c] # NoLayer => c = d
  BY <1>3, <1>4 DEF DiskInv
<1>9. ASSUME NEW q \in LayerUsers, lpc'[q] \in Named
      PROVE  /\ id'[q] \in data'
             /\ \A c \in Chains : cacheID'[c] # id'[q]
             /\ \A r \in LayerUsers : lpc'[r] \in Named /\ id'[r] = id'[q] => r = q
  <2>1. q # p /\ lpc[q] \in Named /\ id[q] # id[p]
    BY <1>3, <1>9 DEF OthersStay, DiskInv
  <2> QED
    BY <1>1, <1>3, <1>4, <1>9, <2>1 DEF OthersStay, DiskInv
<1> QED
  BY <1>6, <1>7, <1>8, <1>9 DEF DiskInv

\* deleteLayer removes the data of the layer and of no other ...
LEMMA RemoveDisk ==
  ASSUME CountInv, DiskInv, NEW p \in LayerUsers, ReleaseRemove(p), OthersStay(p), DiskTypeOK'
  PROVE  DiskInv'
<1>1. lpc[p] = "remove" /\ UNCHANGED <<layerMap, cacheID, meta, damaged, at, id>>
  BY DEF ReleaseRemove, layers
<1>2. PICK x \in Chains : x = at[p]
  <2>1. LsTypeOK /\ CallOK(p)
    BY DEF CountInv
  <2> QED
    BY <1>1, <2>1, Zenon DEF CallOK, Removing, LsTypeOK
<1>3. CASE data' = data \ {cacheID[x]} /\ lpc' = [lpc EXCEPT ![p] = "forget"]
  <2>1. lpc'[p] = "forget" /\ at'[p] = x
    BY <1>1, <1>2, <1>3 DEF CountInv, LsTypeOK
  <2>2. Forgetting(x)' /\ \A c \in Chains : Forgetting(c) => Forgetting(c)'
    BY <1>1, <2>1 DEF Forgetting, OthersStay
  <2>3. \A q \in LayerUsers : lpc'[q] \in Named => lpc[q] \in Named /\ id'[q] = id[q]
    BY <2>1 DEF OthersStay, Named
  <2>4. \A c \in Chains : cacheID[c] \in data => cacheID[c] \in data' \/ c = x
    <3>1. NoLayer \notin data
      BY LayerAssumption, Zenon DEF DiskInv, DiskTypeOK
    <3> QED
      BY <1>2, <1>3, <3>1 DEF DiskInv
  <2>5. \A q \in LayerUsers : lpc[q] \in Named => id[q] \in data'
    BY <1>2, <1>3 DEF DiskInv
  <2> QED
    BY <1>1, <2>2, <2>3, <2>4, <2>5 DEF DiskInv
<1>4. CASE data' = data /\ lpc' = [lpc EXCEPT ![p] = "return"]
  <2>1. lpc'[p] = "return"
    BY <1>4 DEF CountInv, LsTypeOK
  <2> QED
    BY <1>1, <1>4, <2>1, QuietDisk DEF QuietStep, Named
<1> QED
  BY <1>2, <1>3, <1>4 DEF ReleaseRemove, GotoL

\* ... and then its metadata.
LEMMA ForgetDisk ==
  ASSUME CountInv, DiskInv, NEW p \in LayerUsers, ReleaseForget(p), OthersStay(p), DiskTypeOK'
  PROVE  DiskInv'
<1>1. lpc[p] = "forget" /\ UNCHANGED <<data, at, id>>
  BY Zenon DEF ReleaseForget
<1>2. PICK x \in Chains : x = at[p]
  <2>1. LsTypeOK /\ CallOK(p)
    BY DEF CountInv
  <2> QED
    BY <1>1, <2>1 DEF CallOK, Removing, LsTypeOK
<1>3. \E w \in {"return", "release"} : lpc' = [lpc EXCEPT ![p] = w]
  BY Zenon DEF ReleaseForget, GotoL
<1>4. lpc'[p] \notin Named
  BY <1>3 DEF Named, CountInv, LsTypeOK
<1>5. \A q \in LayerUsers : lpc'[q] \in Named => lpc[q] \in Named /\ id'[q] = id[q]
  BY <1>4 DEF OthersStay
<1>6. \A c \in Chains : c # x /\ Forgetting(c) => Forgetting(c)'
  BY <1>2 DEF Forgetting, OthersStay
<1>7. \/ /\ meta' = [meta EXCEPT ![x] = "none"] /\ layerMap' = layerMap \ {x}
         /\ cacheID' = [cacheID EXCEPT ![x] = NoLayer] /\ damaged' = damaged \ {x}
      \/ /\ \E m : meta' = [meta EXCEPT ![x] = m]
         /\ damaged' = damaged \cup {x} /\ UNCHANGED <<layerMap, cacheID>>
  BY <1>2, Zenon DEF ReleaseForget
<1>8. /\ \A c \in Chains : c # x => meta'[c] = meta[c] /\ cacheID'[c] = cacheID[c]
      /\ \A c \in Chains : cacheID'[c] \in {cacheID[c], NoLayer}
      /\ (meta'[x] = "none" /\ x \notin layerMap') \/ x \in damaged'
      /\ \A c \in Chains : c # x => (c \in damaged' <=> c \in damaged) /\ (c \in layerMap' <=> c \in layerMap)
  BY <1>7 DEF DiskInv, DiskTypeOK
<1>9. \A c \in Chains : meta'[c] = "full" /\ c \notin damaged' => cacheID'[c] \in data' \/ Forgetting(c)'
  BY <1>1, <1>6, <1>8 DEF DiskInv
<1>10. \A c \in layerMap' : c \notin damaged' => meta'[c] = "full"
  BY <1>7, <1>8 DEF DiskInv, CountInv, LsTypeOK
<1>11. \A c, d \in Chains : cacheID'[c] = cacheID'[d] /\ cacheID'[c] # NoLayer => c = d
  <2>1. \A c, d \in Chains : cacheID[c] = cacheID[d] /\ cacheID[c] # NoLayer => c = d
    BY Zenon DEF DiskInv
  <2>2. \A c \in Chains : cacheID'[c] # NoLayer => cacheID'[c] = cacheID[c]
    BY <1>8, Zenon
  <2> QED
    BY <2>1, <2>2, Zenon
<1>12. ASSUME NEW q \in LayerUsers, lpc'[q] \in Named
      PROVE  /\ id'[q] \in data'
             /\ \A c \in Chains : cacheID'[c] # id'[q]
             /\ \A r \in LayerUsers : lpc'[r] \in Named /\ id'[r] = id'[q] => r = q
  <2>1. id[q] # NoLayer /\ lpc[q] \in Named
    BY <1>5, <1>12, LayerAssumption DEF DiskInv, DiskTypeOK
  <2> QED
    BY <1>1, <1>5, <1>8, <1>12, <2>1 DEF DiskInv
<1> QED
  BY <1>9, <1>10, <1>11, <1>12 DEF DiskInv

\* A crash: the layers that were being removed are the damaged ones.
LEMMA CrashDisk == ASSUME CountInv, DiskInv, LayerCrash PROVE DiskInv'
<1>0. DiskTypeOK
  BY DEF DiskInv
<1>1. PICK tl \in SUBSET {c \in Chains : Forgetting(c)} :
        meta' = [c \in Chains |-> IF c \in tl THEN "torn" ELSE meta[c]]
  BY Zenon DEF LayerCrash, Forgetting
<1>2. /\ layerMap' = Loadable(meta')
      /\ cacheID' = [c \in Chains |-> IF meta'[c] = "full" THEN cacheID[c] ELSE NoLayer]
  BY Zenon DEF LayerCrash, LayerRestore, RestoreFrom
<1>3. /\ data' = {cacheID'[c] : c \in Chains} \cap data /\ lpc' = [p \in LayerUsers |-> "idle"]
      /\ damaged' = damaged \cup {c \in Chains : Forgetting(c)}
      /\ lcrashes' = lcrashes + 1 /\ UNCHANGED <<mountData, lfaults>>
  BY Zenon DEF LayerCrash, Forgetting
<1>4. DiskTypeOK'
  BY <1>0, <1>1, <1>2, <1>3 DEF DiskTypeOK
<1>5. \A c \in layerMap' : c \in Chains /\ meta'[c] = "full"
  <2>1. {c \in Chains : meta'[c] = "full"} \in SUBSET Chains
    OBVIOUS
  <2> QED
    BY <1>2, <2>1, DownwardIs DEF Loadable
<1>6. ASSUME NEW c \in Chains, meta'[c] = "full", c \notin damaged' PROVE cacheID'[c] \in data'
  <2>1. c \notin damaged /\ ~Forgetting(c)
    BY <1>3, <1>6
  <2>2. meta[c] = "full"
    BY <1>1, <1>6, <2>1
  <2>3. cacheID[c] \in data /\ cacheID'[c] = cacheID[c]
    BY <1>2, <1>6, <2>1, <2>2 DEF DiskInv
  <2> QED
    BY <1>3, <2>3
<1>7. \A c, d \in Chains : cacheID'[c] = cacheID'[d] /\ cacheID'[c] # NoLayer => c = d
  BY <1>2 DEF DiskInv
<1>8. \A p \in LayerUsers : lpc'[p] \notin Named
  BY <1>3 DEF Named
<1> QED
  BY <1>4, <1>5, <1>6, <1>7, <1>8 DEF DiskInv

LEMMA InitDisk == LayerInit => DiskInv
<1> SUFFICES ASSUME LayerInit PROVE DiskInv
  OBVIOUS
<1>1. DiskTypeOK
  BY DEF LayerInit, DiskTypeOK
<1> QED
  BY <1>1 DEF LayerInit, DiskInv, Named

\* A step of a call keeps the disk in order.
LEMMA StepDisk == ASSUME CountInv, DiskInv, NEW p \in LayerUsers, LayerStep(p) PROVE DiskInv'
<1>1. LsTypeOK
  BY DEF CountInv
<1>2. OthersStay(p) /\ DiskTypeOK'
  BY <1>1, StepStays, StepDiskType
<1>3. CASE \/ RegisterCreate(p) \/ RegisterBegin(p) \/ RegisterClean(p) \/ RegisterCommit(p)
           \/ ReleaseRemove(p) \/ ReleaseForget(p)
  BY <1>1, <1>2, <1>3, CreateDisk, OwnDataDisk, CommitDisk, RemoveDisk, ForgetDisk, Zenon
<1>4. CASE \/ \E c \in layerLoad.chains : GetLayer(p, c) \/ RegisterStart(p, c) \/ Release(p, c)
           \/ \E n \in layerLoad.names : GetRWLayer(p, n) \/ ReleaseRWLayer(p, n)
           \/ \E n \in layerLoad.names, c \in layerLoad.chains \cup {NoLayer} : MountStart(p, n, c)
           \/ RegisterApply(p) \/ RegisterExisting(p) \/ RegisterCommitError(p)
           \/ Unpin(p) \/ ReleaseCount(p) \/ MountStep(p) \/ ReturnL(p)
  <2>1. QuietStep(p)
    BY <1>1, <1>4, QuietSteps, Zenon
  <2> QED
    BY <1>2, <2>1, QuietDisk
<1> QED
  BY <1>3, <1>4, Zenon DEF LayerStep, RegisterStep, ReleaseStep

-----------------------------------------------------------------------------
(* What the driver holds when nothing has failed.                          *)

\* Steps that leave driver and metadata alone.
LEMMA DriverFrame ==
  ASSUME DriverClean, NEW p \in LayerUsers, QuietStep(p), UNCHANGED txs, ~orphans',
         lpc[p] \in Named => lpc'[p] \in Named \ {"begin"} /\ id'[p] = id[p]
  PROVE  DriverClean'
<1>1. \A c \in Chains \cup layerMap : Forgetting(c)' => Forgetting(c)
  BY DEF Forgetting, QuietStep, OthersStay
<1>2. \A q \in LayerUsers : /\ lpc[q] \in Named => lpc'[q] \in Named /\ id'[q] = id[q]
                            /\ lpc[q] \in Named \ {"begin"} => lpc'[q] \in Named \ {"begin"}
  BY DEF QuietStep, OthersStay
<1>3. UNCHANGED <<layerMap, cacheID, meta, data, damaged>>
  BY DEF QuietStep
<1>4. \A i \in data' : \/ \E c \in layerMap' : cacheID'[c] = i /\ ~Forgetting(c)'
                       \/ \E q \in LayerUsers : lpc'[q] \in Named /\ id'[q] = i
  BY <1>1, <1>2, <1>3 DEF DriverClean
<1>5. \A i \in txs' : \E q \in LayerUsers : lpc'[q] \in Named \ {"begin"} /\ id'[q] = i
  BY <1>2 DEF DriverClean
<1>6. damaged' = {} /\ \A c \in Chains : meta'[c] = "full" <=> c \in layerMap'
  BY <1>3 DEF DriverClean
<1> QED
  BY <1>4, <1>5, <1>6, Zenon DEF DriverClean

\* Nothing fails in a step after which nothing has failed.
LEMMA NoFailure ==
  ASSUME DiskInv, NEW p \in LayerUsers, LayerStep(p), lfaults' = 0, lcrashes' = 0
  PROVE  lfaults = 0 /\ lcrashes = 0 /\ ~LayerFails
<1>1. lfaults \in Nat
  BY DEF DiskInv, DiskTypeOK
<1>2. lcrashes' = lcrashes /\ (lfaults' = lfaults \/ lfaults' = lfaults + 1)
  BY Zenon DEF LayerStep, LayerOK, LayerFails, hist,
         GetLayer, RegisterStart, Release, GetRWLayer, ReleaseRWLayer, MountStart, RegisterStep,
         RegisterCreate, RegisterBegin, RegisterApply, RegisterExisting, RegisterCommit, EnterLayer,
         RegisterCommitError, RegisterClean, RegisterCleanOr, ReleaseStep, Unpin, ReleaseCount,
         ReleaseRemove, ReleaseForget, ReturnL, MountStep, MountParent, MountInit, MountRW, MountCreate,
         MountSave, UnmountRW, UnmountInit, UnmountPart, UnmountMeta
<1> QED
  BY <1>1, <1>2 DEF LayerFails

\* The steps of Register in the driver.
LEMMA CreateDriver ==
  ASSUME LsTypeOK, DriverClean, NEW p \in LayerUsers, RegisterCreate(p), OthersStay(p), ~LayerFails
  PROVE  DriverClean'
<1>1. /\ lpc[p] = "create" /\ id' = [id EXCEPT ![p] = Fresh] /\ data' = data \cup {Fresh}
      /\ lpc' = [lpc EXCEPT ![p] = "begin"]
      /\ UNCHANGED <<layerMap, cacheID, meta, damaged, txs, orphans, at>>
  BY DEF RegisterCreate, GotoL, layers
<1>2. lpc'[p] = "begin" /\ id'[p] = Fresh
  BY <1>1 DEF LsTypeOK
<1> HIDE DEF Fresh
<1>3. \A c \in Chains \cup layerMap : Forgetting(c)' => Forgetting(c)
  BY <1>1, <1>2 DEF Forgetting, OthersStay
<1>4. \A q \in LayerUsers : lpc[q] \in Named => lpc'[q] = lpc[q] /\ id'[q] = id[q]
  BY <1>1 DEF OthersStay, Named
<1>5. \A i \in data' : \/ \E c \in layerMap' : cacheID'[c] = i /\ ~Forgetting(c)'
                       \/ \E q \in LayerUsers : lpc'[q] \in Named /\ id'[q] = i
  BY <1>1, <1>2, <1>3, <1>4 DEF DriverClean, Named
<1>6. \A i \in txs' : \E q \in LayerUsers : lpc'[q] \in Named \ {"begin"} /\ id'[q] = i
  BY <1>1, <1>4 DEF DriverClean
<1>7. ~orphans' /\ damaged' = {} /\ \A c \in Chains : meta'[c] = "full" <=> c \in layerMap'
  BY <1>1, Zenon DEF DriverClean
<1> QED
  BY <1>5, <1>6, <1>7, Zenon DEF DriverClean

LEMMA BeginDriver ==
  ASSUME LsTypeOK, DriverClean, NEW p \in LayerUsers, RegisterBegin(p), OthersStay(p), ~LayerFails
  PROVE  DriverClean'
<1>1. /\ lpc[p] = "begin" /\ txs' = txs \cup {id[p]} /\ lpc' = [lpc EXCEPT ![p] = "apply"]
      /\ UNCHANGED <<layerMap, cacheID, meta, damaged, data, orphans, at, id>>
  BY DEF RegisterBegin, GotoL, layers
<1>2. lpc'[p] = "apply" /\ id'[p] = id[p]
  BY <1>1 DEF LsTypeOK
<1>3. \A c \in Chains \cup layerMap : Forgetting(c)' => Forgetting(c)
  BY <1>1, <1>2 DEF Forgetting, OthersStay
<1>4. \A q \in LayerUsers : /\ lpc[q] \in Named => lpc'[q] \in Named /\ id'[q] = id[q]
                            /\ lpc[q] \in Named \ {"begin"} => lpc'[q] \in Named \ {"begin"}
  BY <1>1, <1>2 DEF OthersStay, Named
<1>5. \A i \in data' : \/ \E c \in layerMap' : cacheID'[c] = i /\ ~Forgetting(c)'
                       \/ \E q \in LayerUsers : lpc'[q] \in Named /\ id'[q] = i
  BY <1>1, <1>3, <1>4 DEF DriverClean
<1>6. \A i \in txs' : \E q \in LayerUsers : lpc'[q] \in Named \ {"begin"} /\ id'[q] = i
  BY <1>1, <1>2, <1>4 DEF DriverClean, Named
<1>7. ~orphans' /\ damaged' = {} /\ \A c \in Chains : meta'[c] = "full" <=> c \in layerMap'
  BY <1>1, Zenon DEF DriverClean
<1> QED
  BY <1>5, <1>6, <1>7, Zenon DEF DriverClean

LEMMA CleanDriver ==
  ASSUME LsTypeOK, DriverClean, NEW p \in LayerUsers, RegisterClean(p), OthersStay(p), ~LayerFails
  PROVE  DriverClean'
<1>1. /\ lpc[p] = "clean" /\ txs' = txs \ {id[p]} /\ data' = data \ {id[p]}
      /\ lpc' = [lpc EXCEPT ![p] = Unwound(p)]
      /\ UNCHANGED <<layerMap, cacheID, meta, damaged, at, id>>
  BY DEF RegisterClean, RegisterCleanOr, GotoL, layers
<1>2. orphans' = (orphans \/ FALSE)
  BY DEF RegisterClean, RegisterCleanOr
<1>3. lpc'[p] # "forget"
  BY <1>1 DEF Unwound, LsTypeOK
<1>4. \A c \in Chains \cup layerMap : Forgetting(c)' => Forgetting(c)
  BY <1>1, <1>3 DEF Forgetting, OthersStay
<1>5. \A q \in LayerUsers : q # p => lpc'[q] = lpc[q] /\ id'[q] = id[q]
  BY <1>1 DEF OthersStay
<1>6. \A i \in data' : \/ \E c \in layerMap' : cacheID'[c] = i /\ ~Forgetting(c)'
                       \/ \E q \in LayerUsers : lpc'[q] \in Named /\ id'[q] = i
  BY <1>1, <1>4, <1>5 DEF DriverClean
<1>7. \A i \in txs' : \E q \in LayerUsers : lpc'[q] \in Named \ {"begin"} /\ id'[q] = i
  BY <1>1, <1>5 DEF DriverClean
<1>8. ~orphans' /\ damaged' = {} /\ \A c \in Chains : meta'[c] = "full" <=> c \in layerMap'
  BY <1>1, <1>2, Zenon DEF DriverClean
<1> QED
  BY <1>6, <1>7, <1>8, Zenon DEF DriverClean

LEMMA CommitDriver ==
  ASSUME CountInv, DiskInv, DriverClean, NEW p \in LayerUsers, RegisterCommit(p), OthersStay(p)
  PROVE  DriverClean'
<1>0. LsTypeOK /\ CallOK(p)
  BY DEF CountInv
<1>1. PICK x \in Chains : x = at[p]
  BY <1>0 DEF RegisterCommit, CallOK, Registering, Creating
<1>2. /\ lpc[p] = "commit" /\ x \notin layerMap /\ lpc' = [lpc EXCEPT ![p] = "return"]
      /\ meta' = [meta EXCEPT ![x] = "full"] /\ cacheID' = [cacheID EXCEPT ![x] = id[p]]
      /\ layerMap' = layerMap \cup {x} /\ txs' = txs \ {id[p]}
      /\ UNCHANGED <<data, damaged, orphans, at, id>>
  BY <1>1, Zenon DEF RegisterCommit, EnterLayer, GotoL
<1>3. /\ \A c \in Chains : c # x => cacheID'[c] = cacheID[c] /\ meta'[c] = meta[c]
      /\ cacheID'[x] = id[p] /\ meta'[x] = "full" /\ lpc'[p] = "return"
  BY <1>0, <1>2 DEF DiskInv, DiskTypeOK, LsTypeOK
<1>4. \A c \in Chains : Forgetting(c)' => Forgetting(c)
  BY <1>2, <1>3 DEF Forgetting, OthersStay
<1>5. ~Forgetting(x)
  BY <1>2, Zenon DEF Forgetting, CountInv, CallOK, Removing
<1>6. \A q \in LayerUsers : q # p => lpc'[q] = lpc[q] /\ id'[q] = id[q]
  BY DEF OthersStay
<1>7. layerMap \subseteq Chains
  BY <1>0 DEF LsTypeOK
<1>8. ASSUME NEW i \in data'
      PROVE  \/ \E c \in layerMap' : cacheID'[c] = i /\ ~Forgetting(c)'
             \/ \E q \in LayerUsers : lpc'[q] \in Named /\ id'[q] = i
  <2>1. CASE \E c \in layerMap : cacheID[c] = i /\ ~Forgetting(c)
    BY <1>2, <1>3, <1>4, <1>7, <2>1
  <2>2. CASE \E q \in LayerUsers : lpc[q] \in Named /\ id[q] = i
    BY <1>2, <1>3, <1>4, <1>5, <1>6, <2>2
  <2> QED
    BY <1>2, <2>1, <2>2, Zenon DEF DriverClean
<1>9. \A i \in txs' : \E q \in LayerUsers : lpc'[q] \in Named \ {"begin"} /\ id'[q] = i
  BY <1>2, <1>6 DEF DriverClean
<1>10. ~orphans' /\ damaged' = {}
  BY <1>2, Zenon DEF DriverClean
<1>11. \A c \in Chains : meta'[c] = "full" <=> c \in layerMap'
  BY <1>2, <1>3 DEF DriverClean
<1> QED
  BY <1>8, <1>9, <1>10, <1>11, Zenon DEF DriverClean

\* The steps of releaseLayer in the driver.
LEMMA RemoveDriver ==
  ASSUME CountInv, DriverClean, NEW p \in LayerUsers, ReleaseRemove(p), OthersStay(p), ~LayerFails
  PROVE  DriverClean'
<1>0. LsTypeOK /\ CallOK(p)
  BY DEF CountInv
<1>1. PICK x \in Chains : x = at[p]
  BY <1>0, Zenon DEF ReleaseRemove, CallOK, Removing, LsTypeOK
<1>2. /\ lpc[p] = "remove" /\ lpc' = [lpc EXCEPT ![p] = "forget"] /\ data' = data \ {cacheID[x]}
      /\ UNCHANGED <<layerMap, cacheID, meta, damaged, txs, orphans, at, id>>
  BY <1>1, Zenon DEF ReleaseRemove, GotoL, layers
<1>3. lpc'[p] = "forget" /\ at'[p] = x
  BY <1>0, <1>1, <1>2 DEF LsTypeOK
<1>4. \A c \in Chains \cup layerMap : Forgetting(c)' => Forgetting(c) \/ c = x
  BY <1>2, <1>3 DEF Forgetting, OthersStay
<1>5. \A q \in LayerUsers : lpc[q] \in Named => lpc'[q] = lpc[q] /\ id'[q] = id[q]
  BY <1>2 DEF OthersStay, Named
<1>6. \A i \in data' : \/ \E c \in layerMap' : cacheID'[c] = i /\ ~Forgetting(c)'
                       \/ \E q \in LayerUsers : lpc'[q] \in Named /\ id'[q] = i
  BY <1>2, <1>4, <1>5 DEF DriverClean
<1>7. \A i \in txs' : \E q \in LayerUsers : lpc'[q] \in Named \ {"begin"} /\ id'[q] = i
  BY <1>2, <1>5 DEF DriverClean
<1>8. ~orphans' /\ damaged' = {} /\ \A c \in Chains : meta'[c] = "full" <=> c \in layerMap'
  BY <1>2, Zenon DEF DriverClean
<1> QED
  BY <1>6, <1>7, <1>8, Zenon DEF DriverClean

LEMMA ForgetDriver ==
  ASSUME CountInv, DiskInv, DriverClean, NEW p \in LayerUsers, ReleaseForget(p), OthersStay(p), ~LayerFails
  PROVE  DriverClean'
<1>0. LsTypeOK /\ CallOK(p)
  BY DEF CountInv
<1>1. PICK x \in Chains : x = at[p]
  BY <1>0, Zenon DEF ReleaseForget, CallOK, Removing, LsTypeOK
<1>2. /\ lpc[p] = "forget" /\ meta' = [meta EXCEPT ![x] = "none"] /\ layerMap' = layerMap \ {x}
      /\ cacheID' = [cacheID EXCEPT ![x] = NoLayer] /\ damaged' = damaged \ {x}
      /\ lpc' = [lpc EXCEPT ![p] = IF ParentOf[x] = NoLayer THEN "return" ELSE "release"]
      /\ UNCHANGED <<data, txs, orphans, at, id>>
  BY <1>1, Zenon DEF ReleaseForget, GotoL
<1>3. /\ \A c \in Chains : c # x => cacheID'[c] = cacheID[c] /\ meta'[c] = meta[c]
      /\ meta'[x] = "none" /\ lpc'[p] \in {"return", "release"}
  BY <1>0, <1>2 DEF DiskInv, DiskTypeOK, LsTypeOK
<1>4. Forgetting(x) /\ \A c \in Chains : Forgetting(c)' => Forgetting(c)
  BY <1>1, <1>2, <1>3, ZenonT(30) DEF Forgetting, OthersStay
<1>5. \A q \in LayerUsers : lpc[q] \in Named => lpc'[q] = lpc[q] /\ id'[q] = id[q]
  BY <1>2, Zenon DEF OthersStay, Named
<1>6. layerMap \subseteq Chains
  BY <1>0 DEF LsTypeOK
<1>7. ASSUME NEW i \in data'
      PROVE  \/ \E c \in layerMap' : cacheID'[c] = i /\ ~Forgetting(c)'
             \/ \E q \in LayerUsers : lpc'[q] \in Named /\ id'[q] = i
  <2>1. CASE \E c \in layerMap : cacheID[c] = i /\ ~Forgetting(c)
    BY <1>2, <1>3, <1>4, <1>6, <2>1
  <2>2. CASE \E q \in LayerUsers : lpc[q] \in Named /\ id[q] = i
    BY <1>5, <2>2
  <2> QED
    BY <1>2, <2>1, <2>2 DEF DriverClean
<1>8. \A i \in txs' : \E q \in LayerUsers : lpc'[q] \in Named \ {"begin"} /\ id'[q] = i
  BY <1>2, <1>5 DEF DriverClean
<1>9. ~orphans' /\ damaged' = {}
  BY <1>2, Zenon DEF DriverClean
<1>10. \A c \in Chains : meta'[c] = "full" <=> c \in layerMap'
  BY <1>2, <1>3 DEF DriverClean
<1> QED
  BY <1>7, <1>8, <1>9, <1>10, Zenon DEF DriverClean

\* A mount is created under a name that has nothing in the driver.
LEMMA NothingThere ==
  ASSUME CountInv, MountsClean, mountL = NoLayer, NEW n \in MountNames
  PROVE  mountData[n] = Parts(n)
<1>1. \A q \in LayerUsers : lpc[q] \notin Mounting \cup Unmounting
  BY LayerAssumption DEF CountInv, CallOK
<1> QED
  BY <1>1 DEF MountsClean

\* Driver and metadata after any step of a call.
LEMMA StepDriver ==
  ASSUME CountInv, DiskInv, DriverClean, MountsClean, NEW p \in LayerUsers, LayerStep(p), ~LayerFails
  PROVE  DriverClean'
<1>0. LsTypeOK
  BY DEF CountInv
<1>1. OthersStay(p)
  BY <1>0, StepStays
<1>2. CASE \/ RegisterCreate(p) \/ RegisterBegin(p) \/ RegisterClean(p) \/ RegisterCommit(p)
           \/ ReleaseRemove(p) \/ ReleaseForget(p)
  BY <1>0, <1>1, <1>2, CreateDriver, BeginDriver, CleanDriver, CommitDriver, RemoveDriver, ForgetDriver, Zenon
<1>3. CASE \/ \E c \in layerLoad.chains : GetLayer(p, c) \/ RegisterStart(p, c) \/ Release(p, c)
           \/ \E n \in layerLoad.names : GetRWLayer(p, n) \/ ReleaseRWLayer(p, n)
           \/ \E n \in layerLoad.names, c \in layerLoad.chains \cup {NoLayer} : MountStart(p, n, c)
           \/ RegisterApply(p) \/ RegisterExisting(p) \/ RegisterCommitError(p)
           \/ Unpin(p) \/ ReleaseCount(p) \/ MountStep(p) \/ ReturnL(p)
  <2>1. QuietStep(p)
    BY <1>0, <1>3, QuietSteps, Zenon
  <2>2. UNCHANGED txs
    BY <1>3, Zenon DEF GetLayer, RegisterStart, Release, GetRWLayer, ReleaseRWLayer, MountStart, RegisterApply,
         RegisterExisting, RegisterCommitError, Unpin, ReleaseCount, ReturnL, MountStep, MountParent,
         MountInit, MountRW, MountCreate, MountSave, UnmountRW, UnmountInit, UnmountPart, UnmountMeta, disk
  <2>3. ~orphans'
    <3>1. ~orphans
      BY DEF DriverClean
    <3>2. CASE \E n \in layerLoad.names, c \in layerLoad.chains \cup {NoLayer} : MountStart(p, n, c)
      <4>1. PICK n \in layerLoad.names, c \in layerLoad.chains \cup {NoLayer} : MountStart(p, n, c)
        BY <3>2
      <4>2. n \in MountNames /\ mountL = NoLayer /\ n \notin mounts /\ orphans' = (orphans \/ mountData[n] # {})
        BY <1>0, <4>1, LayerAssumption DEF MountStart, LsTypeOK
      <4>3. mountData[n] = {}
        BY <4>2, NothingThere DEF Parts
      <4> QED
        BY <3>1, <4>2, <4>3, Zenon
    <3>3. CASE orphans' = orphans
      BY <3>1, <3>3, Zenon
    <3> QED
      BY <1>3, <3>2, <3>3, Zenon
         DEF GetLayer, RegisterStart, Release, GetRWLayer, ReleaseRWLayer, RegisterApply,
         RegisterExisting, RegisterCommitError, Unpin, ReleaseCount, ReturnL, MountStep, MountParent,
         MountInit, MountRW, MountCreate, MountSave, UnmountRW, UnmountInit, UnmountPart, UnmountMeta, disk
  <2>4. lpc[p] \in Named => lpc'[p] \in Named \ {"begin"} /\ id'[p] = id[p]
    <3>1. CASE RegisterApply(p) \/ RegisterExisting(p) \/ RegisterCommitError(p)
      <4>1. id' = id /\ \E w \in {"commit", "clean"} : lpc' = [lpc EXCEPT ![p] = w]
        BY <3>1 DEF RegisterApply, RegisterExisting, RegisterCommitError, GotoL
      <4> QED
        BY <1>0, <4>1 DEF LsTypeOK, Named
    <3>2. CASE \/ \E c \in layerLoad.chains : GetLayer(p, c) \/ RegisterStart(p, c) \/ Release(p, c)
               \/ \E n \in layerLoad.names : GetRWLayer(p, n) \/ ReleaseRWLayer(p, n)
               \/ \E n \in layerLoad.names, c \in layerLoad.chains \cup {NoLayer} : MountStart(p, n, c)
      <4>1. lpc[p] = "idle"
        BY <3>2, Zenon DEF GetLayer, RegisterStart, Release, GetRWLayer, ReleaseRWLayer, MountStart
      <4> QED
        BY <4>1 DEF Named
    <3>3. CASE Unpin(p) \/ ReleaseCount(p) \/ MountStep(p) \/ ReturnL(p)
      <4>1. lpc[p] \in {"unpin", "release", "return", "mount", "mountInit", "mountRW", "mountSave",
                       "unmountRW", "unmountInit", "unmountMeta"}
        BY <3>3, Zenon DEF Unpin, ReleaseCount, ReturnL, MountStep, MountParent, MountInit, MountRW,
           MountCreate, MountSave, UnmountRW, UnmountInit, UnmountPart, UnmountMeta
      <4> QED
        BY <4>1 DEF Named
    <3> QED
      BY <1>3, <3>1, <3>2, <3>3, Zenon
  <2> QED
    BY <2>1, <2>2, <2>3, <2>4, DriverFrame
<1> QED
  BY <1>2, <1>3, Zenon DEF LayerStep, RegisterStep, ReleaseStep
-----------------------------------------------------------------------------
(* The map and the mounts when nothing has failed.                         *)

\* Steps that leave the layers in use in use.
LEMMA MapFrame ==
  ASSUME MapClean, NEW p \in LayerUsers, OthersStay(p),
         \A c \in layerMap' : c \in layerMap \/ referenceCount'[c] # 0,
         \A c \in layerMap' : referenceCount[c] # 0 => referenceCount'[c] # 0 \/ (lpc'[p] \in Removing /\ at'[p] = c),
         lpc[p] \in Removing => (lpc'[p] \in Removing /\ at'[p] = at[p]) \/ at[p] \notin layerMap'
  PROVE  MapClean'
  BY DEF MapClean, OthersStay

\* Steps that have to do with no mount ...
LEMMA MountsFrame ==
  ASSUME MountsClean, NEW p \in LayerUsers, OthersStay(p), UNCHANGED <<mounts, mountData>>,
         lpc[p] \notin Mounting \cup Unmounting, lpc'[p] \notin Mounting \cup Unmounting
  PROVE  MountsClean'
<1>1. \A q \in LayerUsers : lpc[q] \in Mounting \cup Unmounting => lpc'[q] = lpc[q] /\ id'[q] = id[q]
  BY DEF OthersStay
<1>2. \A q \in LayerUsers : lpc'[q] \in Mounting \cup Unmounting => lpc'[q] = lpc[q] /\ id'[q] = id[q]
  BY DEF OthersStay
<1>3. \A n : Parts(n)' = Parts(n)
  BY Zenon DEF Parts
<1> QED
  BY <1>1, <1>2, <1>3 DEF MountsClean

\* ... and steps that have to do with the mount n.
LEMMA MountsStep ==
  ASSUME CountInv, MountsClean, NEW p \in LayerUsers, OthersStay(p), NEW n \in MountNames,
         mountL \in {p, NoLayer},
         lpc[p] \in Mounting \cup Unmounting => id[p] = n,
         \A k \in MountNames : k # n => mountData'[k] = mountData[k] /\ (k \in mounts' <=> k \in mounts),
         \/ lpc'[p] \notin Mounting \cup Unmounting /\ mountData'[n] = Parts(n)'
         \/ lpc'[p] \in Mounting \cup Unmounting /\ id'[p] = n /\ mountData'[n] = PartsAt(lpc'[p])
  PROVE  MountsClean'
<1>1. \A q \in LayerUsers : q # p => lpc[q] \notin Mounting \cup Unmounting
  BY LayerAssumption DEF CountInv, CallOK
<1>2. \A q \in LayerUsers : q # p => lpc'[q] \notin Mounting \cup Unmounting
  BY <1>1 DEF OthersStay
<1>3. \A k \in MountNames : k # n => mountData'[k] = Parts(k)'
  <2> TAKE k \in MountNames
  <2> HAVE k # n
  <2>1. mountData[k] = Parts(k)
    BY <1>1 DEF MountsClean
  <2>2. Parts(k)' = Parts(k)
    BY DEF Parts
  <2> QED
    BY <2>1, <2>2
<1>4. mountData'[n] = Parts(n)' \/ (lpc'[p] \in Mounting \cup Unmounting /\ id'[p] = n)
  OBVIOUS
<1>5. \A k \in MountNames : \/ mountData'[k] = Parts(k)'
                            \/ \E q \in LayerUsers : lpc'[q] \in Mounting \cup Unmounting /\ id'[q] = k
  BY <1>3, <1>4
<1>6. \A q \in LayerUsers : lpc'[q] \in Mounting \cup Unmounting => mountData'[id'[q]] = PartsAt(lpc'[q])
  BY <1>2
<1> QED
  BY <1>5, <1>6 DEF MountsClean

\* The layers in the map stay in use or are being removed.
LEMMA StepMap ==
  ASSUME CountInv, MapClean, NEW p \in LayerUsers, LayerStep(p), ~LayerFails,
         \A x \in Chains : pin[p] = x /\ referenceCount[x] = 1 => references[x] = {}
  PROVE  MapClean'
<1>0. LsTypeOK /\ CallOK(p)
  BY DEF CountInv
<1>1. OthersStay(p)
  BY <1>0, StepStays
<1>2. CASE ReleaseCount(p)
  <2>1. PICK x \in Chains : x = pin[p]
    BY <1>0, <1>2, Zenon DEF ReleaseCount, CallOK, LsTypeOK
  <2>2. referenceCount[x] \in Nat /\ lpc[p] = "release" /\ layerMap' = layerMap
    BY <1>0, <1>2, ZenonT(30) DEF ReleaseCount, LsTypeOK
  <2>3. CASE referenceCount[x] # 1
    <3>1. referenceCount' = referenceCount \/ (referenceCount[x] > 1 /\ referenceCount' = [referenceCount EXCEPT ![x] = @ - 1])
      BY <1>2, <2>1, <2>2, <2>3 DEF ReleaseCount
    <3>2. \A c \in layerMap' : referenceCount[c] # 0 => referenceCount'[c] # 0
      BY <1>0, <2>2, <3>1 DEF LsTypeOK
    <3> QED
      BY <1>1, <2>2, <3>2, MapFrame DEF Removing
  <2>4. CASE referenceCount[x] = 1
    <3>1. references[x] = {}
      BY <2>1, <2>4
    <3>2. /\ referenceCount' = [referenceCount EXCEPT ![x] = @ - 1] /\ at' = [at EXCEPT ![p] = x]
          /\ lpc' = [lpc EXCEPT ![p] = "remove"]
      BY <1>2, <2>1, <2>4, <3>1 DEF ReleaseCount, GotoL
    <3>3. /\ at'[p] = x /\ lpc'[p] = "remove"
          /\ \A c \in layerMap' : c # x => referenceCount'[c] = referenceCount[c]
      BY <1>0, <2>2, <3>2 DEF LsTypeOK
    <3> QED
      BY <1>1, <2>2, <3>3, MapFrame, Zenon DEF Removing
  <2> QED
    BY <2>3, <2>4
<1>3. CASE ReleaseRemove(p)
  <2>1. lpc' = [lpc EXCEPT ![p] = "forget"] /\ UNCHANGED <<layerMap, referenceCount, at>>
    BY <1>3 DEF ReleaseRemove, GotoL, layers
  <2>2. lpc'[p] = "forget"
    BY <1>0, <2>1 DEF LsTypeOK
  <2> QED
    BY <1>1, <2>1, <2>2, MapFrame DEF Removing
<1>4. CASE ReleaseForget(p)
  <2>1. layerMap' = layerMap \ {at[p]} /\ referenceCount' = referenceCount
    BY <1>4, Zenon DEF ReleaseForget
  <2> QED
    BY <1>1, <2>1, MapFrame
<1>5. CASE RegisterCommit(p)
  <2>1. PICK x \in Chains : x = at[p]
    BY <1>0, <1>5, Zenon DEF RegisterCommit, CallOK, Registering, Creating
  <2>2. lpc[p] = "commit" /\ layerMap' = layerMap \cup {x} /\ referenceCount' = [referenceCount EXCEPT ![x] = 1]
    BY <1>5, <2>1, Zenon DEF RegisterCommit, EnterLayer
  <2>3. \A c \in layerMap' : referenceCount'[c] = IF c = x THEN 1 ELSE referenceCount[c]
    BY <1>0, <2>2 DEF LsTypeOK
  <2>4. lpc[p] \notin Removing
    BY <2>2, ZenonT(30) DEF Removing
  <2>5. \A c \in layerMap' : /\ c \in layerMap \/ referenceCount'[c] # 0
                             /\ referenceCount[c] # 0 => referenceCount'[c] # 0
    BY <2>2, <2>3
  <2> QED
    BY <1>1, <2>4, <2>5, MapFrame, Zenon
<1>6. ASSUME \/ \E c \in layerLoad.chains : GetLayer(p, c) \/ RegisterStart(p, c) \/ Release(p, c)
             \/ \E n \in layerLoad.names : GetRWLayer(p, n) \/ ReleaseRWLayer(p, n)
             \/ \E n \in layerLoad.names, c \in layerLoad.chains \cup {NoLayer} : MountStart(p, n, c)
             \/ RegisterCreate(p) \/ RegisterBegin(p) \/ RegisterApply(p) \/ RegisterExisting(p)
             \/ RegisterCommitError(p) \/ RegisterClean(p)
             \/ Unpin(p) \/ MountStep(p) \/ ReturnL(p)
      PROVE  MapClean'
  <2>1. layerMap' = layerMap /\ (referenceCount' = referenceCount \/ \E c : referenceCount' = [referenceCount EXCEPT ![c] = @ + 1])
    BY <1>6, Zenon DEF GetLayer, RegisterStart, Release, GetRWLayer, ReleaseRWLayer, MountStart, RegisterCreate,
         RegisterBegin, RegisterApply, RegisterExisting, RegisterCommitError, RegisterClean, RegisterCleanOr,
         Unpin, ReturnL, MountStep, MountParent, Retain, MountInit, MountRW, MountCreate, MountSave,
         UnmountRW, UnmountInit, UnmountPart, UnmountMeta, layers
  <2>2. lpc[p] \notin Removing
    BY <1>6, Zenon DEF GetLayer, RegisterStart, Release, GetRWLayer, ReleaseRWLayer, MountStart, RegisterCreate,
         RegisterBegin, RegisterApply, RegisterExisting, RegisterCommitError, RegisterClean, RegisterCleanOr,
         Unpin, ReturnL, MountStep, MountParent, MountInit, MountRW, MountCreate, MountSave,
         UnmountRW, UnmountInit, UnmountPart, UnmountMeta, Removing
  <2>3. \A c \in layerMap' : referenceCount[c] # 0 => referenceCount'[c] # 0
    BY <1>0, <2>1 DEF LsTypeOK
  <2> QED
    BY <1>1, <2>1, <2>2, <2>3, MapFrame, Zenon
<1> QED
  BY <1>2, <1>3, <1>4, <1>5, <1>6, Zenon DEF LayerStep, RegisterStep, ReleaseStep

\* The parts of the mounts in the driver.
LEMMA StepMounts ==
  ASSUME CountInv, DiskInv, MountsClean, NEW p \in LayerUsers, LayerStep(p), ~LayerFails
  PROVE  MountsClean'
<1>0. LsTypeOK /\ CallOK(p)
  BY DEF CountInv
<1>1. OthersStay(p)
  BY <1>0, StepStays
<1>2. ASSUME \/ \E c \in layerLoad.chains : GetLayer(p, c) \/ RegisterStart(p, c) \/ Release(p, c)
             \/ \E n \in layerLoad.names : GetRWLayer(p, n)
             \/ RegisterStep(p) \/ ReleaseStep(p) \/ ReturnL(p)
      PROVE  MountsClean'
  <2>1. UNCHANGED <<mounts, mountData>>
    BY <1>2, Zenon DEF GetLayer, RegisterStart, Release, GetRWLayer, RegisterStep, RegisterCreate,
         RegisterBegin, RegisterApply, RegisterExisting, RegisterCommit, EnterLayer, RegisterCommitError,
         RegisterClean, RegisterCleanOr, ReleaseStep, Unpin, ReleaseCount, ReleaseRemove, ReleaseForget,
         ReturnL, mountVars, disk
  <2>2. lpc[p] \notin Mounting \cup Unmounting
    BY <1>2, Zenon DEF GetLayer, RegisterStart, Release, GetRWLayer, RegisterStep, RegisterCreate,
         RegisterBegin, RegisterApply, RegisterExisting, RegisterCommit, EnterLayer, RegisterCommitError,
         RegisterClean, RegisterCleanOr, ReleaseStep, Unpin, ReleaseCount, ReleaseRemove, ReleaseForget,
         ReturnL, Mounting, Mounted, Unmounting
  <2>3. lpc' = lpc \/ \E w \in {"idle", "return", "unpin"} \cup Registering \cup Releasing : lpc' = [lpc EXCEPT ![p] = w]
    <3>1. Unwound(p) \in {"return", "unpin"}
      BY DEF Unwound
    <3>2. CASE RegisterStep(p)
      BY <3>1, <3>2, Zenon DEF RegisterStep, RegisterCreate, RegisterBegin, RegisterApply, RegisterExisting,
         RegisterCommit, EnterLayer, RegisterCommitError, RegisterClean, RegisterCleanOr, GotoL,
         Registering, Creating
    <3>3. CASE ReleaseStep(p) \/ ReturnL(p)
      BY <3>3, Zenon DEF ReleaseStep, Unpin, ReleaseCount, ReleaseRemove, ReleaseForget, ReturnL, GotoL, Releasing
    <3>4. CASE \/ \E c \in layerLoad.chains : GetLayer(p, c) \/ RegisterStart(p, c) \/ Release(p, c)
               \/ \E n \in layerLoad.names : GetRWLayer(p, n)
      BY <3>4, Zenon DEF GetLayer, RegisterStart, Release, GetRWLayer, procs, GotoL, Registering, Creating, Releasing
    <3> QED
      BY <1>2, <3>2, <3>3, <3>4, Zenon
  <2>4. lpc'[p] \notin Mounting \cup Unmounting
    BY <1>0, <2>2, <2>3 DEF LsTypeOK, Registering, Creating, Releasing, Mounting, Mounted, Unmounting
  <2> QED
    BY <1>1, <2>1, <2>2, <2>4, MountsFrame
<1>3. ASSUME NEW n \in MountNames, NEW c \in Chains \cup {NoLayer}, MountStart(p, n, c) PROVE MountsClean'
  <2>1. /\ mountL = NoLayer /\ lpc[p] = "idle" /\ mounts' = mounts
        /\ mountData' = [mountData EXCEPT ![n] = {}]
        /\ id' = [id EXCEPT ![p] = n] /\ lpc' = [lpc EXCEPT ![p] = "mount"]
    BY <1>3 DEF MountStart, GotoL, mountVars
  <2>2. /\ id'[p] = n /\ lpc'[p] = "mount" /\ mountData'[n] = {}
        /\ \A k \in MountNames : k # n => mountData'[k] = mountData[k]
    BY <1>0, <2>1 DEF LsTypeOK, DiskInv, DiskTypeOK
  <2> QED
    BY <1>1, <2>1, <2>2, MountsStep DEF Mounting, Mounted, Unmounting, PartsAt
<1>4. ASSUME NEW n \in MountNames, ReleaseRWLayer(p, n) PROVE MountsClean'
  <2>1. /\ mountL = NoLayer /\ lpc[p] = "idle" /\ n \in mounts /\ UNCHANGED <<mounts, mountData>>
        /\ \/ id' = [id EXCEPT ![p] = n] /\ lpc' = [lpc EXCEPT ![p] = "unmountRW"]
           \/ UNCHANGED <<lpc, id>>
    BY <1>4 DEF ReleaseRWLayer, GotoL, disk
  <2>2. (id'[p] = n /\ lpc'[p] = "unmountRW") \/ lpc'[p] = "idle"
    BY <1>0, <2>1 DEF LsTypeOK
  <2>3. mountData[n] = {"init", "rw"}
    BY <2>1, NothingThere, Zenon DEF Parts
  <2> QED
    BY <1>1, <2>1, <2>2, <2>3, MountsStep DEF Mounting, Mounted, Unmounting, PartsAt, Parts
<1>5. ASSUME MountStep(p) PROVE MountsClean'
  <2>1. lpc[p] \in Mounting \cup Unmounting
    BY <1>5, Zenon DEF MountStep, MountParent, MountInit, MountRW, MountCreate, MountSave, UnmountRW, UnmountInit,
         UnmountPart, UnmountMeta, Mounting, Mounted, Unmounting
  <2>2. PICK n \in MountNames : n = id[p]
    BY <1>0, <2>1, Zenon DEF CallOK, LsTypeOK
  <2>3. mountL = p /\ mountData[n] = PartsAt(lpc[p]) /\ id' = id
    BY <1>0, <1>5, <2>1, <2>2, ZenonT(30) DEF CallOK, MountsClean, MountStep, MountParent, MountInit, MountRW, MountCreate,
         MountSave, UnmountRW, UnmountInit, UnmountPart, UnmountMeta
  <2>4. lpc[p] \in Mounting => n \notin mounts
    BY <1>0, <2>2 DEF CallOK
  <2>5. CASE MountParent(p)
    <3>1. /\ UNCHANGED <<mounts, mountData>> /\ lpc[p] = "mount"
          /\ \E w \in {"mountInit", "return"} : lpc' = [lpc EXCEPT ![p] = w]
      BY <2>5, Zenon DEF MountParent, GotoL, mountVars, disk
    <3>2. lpc'[p] \in {"mountInit", "return"} /\ mountData[n] = {} /\ n \notin mounts
      BY <1>0, <2>3, <2>4, <3>1 DEF LsTypeOK, PartsAt, Mounting
    <3> QED
      BY <1>1, <2>2, <2>3, <3>1, <3>2, MountsStep DEF Mounting, Mounted, Unmounting, PartsAt, Parts
  <2>6. CASE MountInit(p) \/ MountRW(p)
    <3>1. /\ mounts' = mounts
          /\ \/ /\ lpc[p] = "mountInit" /\ lpc' = [lpc EXCEPT ![p] = "mountRW"]
                /\ mountData' = [mountData EXCEPT ![n] = @ \cup {"init"}]
             \/ /\ lpc[p] = "mountRW" /\ lpc' = [lpc EXCEPT ![p] = "mountSave"]
                /\ mountData' = [mountData EXCEPT ![n] = @ \cup {"rw"}]
      BY <2>2, <2>6, Zenon DEF MountInit, MountRW, MountCreate, GotoL, mountVars
    <3>2. /\ \A k \in MountNames : k # n => mountData'[k] = mountData[k]
          /\ (lpc'[p] = "mountRW" /\ mountData'[n] = {"init"}) \/ (lpc'[p] = "mountSave" /\ mountData'[n] = {"init", "rw"})
      BY <1>0, <2>3, <3>1 DEF LsTypeOK, DiskInv, DiskTypeOK, PartsAt
    <3>3. lpc'[p] \in Mounting \cup Unmounting /\ mountData'[n] = PartsAt(lpc'[p])
      BY <3>2 DEF Mounting, Mounted, Unmounting, PartsAt
    <3> QED
      BY <1>1, <2>2, <2>3, <3>1, <3>2, <3>3, MountsStep, ZenonT(30)
  <2>7. CASE MountSave(p)
    <3>1. /\ lpc[p] = "mountSave" /\ mounts' = mounts \cup {n} /\ mountData' = mountData
          /\ lpc' = [lpc EXCEPT ![p] = "return"]
      BY <2>2, <2>7 DEF MountSave, GotoL
    <3>2. lpc'[p] = "return" /\ mountData[n] = {"init", "rw"}
      BY <1>0, <2>3, <3>1, Zenon DEF LsTypeOK, PartsAt
    <3>3. lpc'[p] \notin Mounting \cup Unmounting /\ mountData'[n] = Parts(n)'
      BY <3>1, <3>2 DEF Mounting, Mounted, Unmounting, Parts
    <3> QED
      BY <1>1, <2>2, <2>3, <3>1, <3>3, MountsStep, Zenon
  <2>8. CASE UnmountRW(p) \/ UnmountInit(p)
    <3>1. /\ mounts' = mounts
          /\ \/ /\ lpc[p] = "unmountRW" /\ lpc' = [lpc EXCEPT ![p] = "unmountInit"]
                /\ mountData' = [mountData EXCEPT ![n] = @ \ {"rw"}]
             \/ /\ lpc[p] = "unmountInit" /\ lpc' = [lpc EXCEPT ![p] = "unmountMeta"]
                /\ mountData' = [mountData EXCEPT ![n] = @ \ {"init"}]
      BY <2>2, <2>8, Zenon DEF UnmountRW, UnmountInit, UnmountPart, GotoL
    <3>2. /\ \A k \in MountNames : k # n => mountData'[k] = mountData[k]
          /\ (lpc'[p] = "unmountInit" /\ mountData'[n] = {"init"}) \/ (lpc'[p] = "unmountMeta" /\ mountData'[n] = {})
      BY <1>0, <2>3, <3>1 DEF LsTypeOK, DiskInv, DiskTypeOK, PartsAt
    <3>3. lpc'[p] \in Mounting \cup Unmounting /\ mountData'[n] = PartsAt(lpc'[p])
      BY <3>2 DEF Mounting, Mounted, Unmounting, PartsAt
    <3> QED
      BY <1>1, <2>2, <2>3, <3>1, <3>2, <3>3, MountsStep, Zenon
  <2>9. CASE UnmountMeta(p)
    <3>1. /\ lpc[p] = "unmountMeta" /\ mounts' = mounts \ {n} /\ mountData' = mountData
          /\ \E w \in {"return", "unpin"} : lpc' = [lpc EXCEPT ![p] = w]
      BY <2>2, <2>9, Zenon DEF UnmountMeta, GotoL
    <3>2. lpc'[p] \in {"return", "unpin"} /\ mountData[n] = {}
      BY <1>0, <2>3, <3>1, ZenonT(30) DEF LsTypeOK, PartsAt
    <3>3. lpc'[p] \notin Mounting \cup Unmounting /\ mountData'[n] = Parts(n)'
      BY <3>1, <3>2 DEF Mounting, Mounted, Unmounting, Parts
    <3> QED
      BY <1>1, <2>2, <2>3, <3>1, <3>3, MountsStep, Zenon
  <2> QED
    BY <1>5, <2>5, <2>6, <2>7, <2>8, <2>9, Zenon DEF MountStep
<1>6. layerLoad.names \subseteq MountNames /\ layerLoad.chains \subseteq Chains
  BY <1>0, LayerAssumption DEF LsTypeOK
<1>7. ASSUME NEW n \in layerLoad.names, ReleaseRWLayer(p, n) PROVE MountsClean'
  BY <1>4, <1>6, <1>7, Zenon
<1>8. ASSUME NEW n \in layerLoad.names, NEW c \in layerLoad.chains \cup {NoLayer}, MountStart(p, n, c) PROVE MountsClean'
  <2>1. n \in MountNames /\ c \in Chains \cup {NoLayer}
    BY <1>6
  <2> QED
    BY <1>3, <1>8, <2>1
<1> QED
  BY <1>2, <1>5, <1>7, <1>8, Zenon DEF LayerStep
=============================================================================
