------------------------- MODULE LayerStoreProofs ---------------------------
(***************************************************************************)
(* Theorems about the layer store, and before them the last steps of the   *)
(* invariant of the counts: those that take a holder away, and a restart.  *)
(***************************************************************************)
EXTENDS LayerHolderProofs, LayerDiskProofs

\* More time for a leaf than by default, and a second attempt, for slow machines.
USE SMTT(30), Z3T(30), ZenonT(30)

\* releaseLayer drops a layer: its pin of the parent becomes one of the call.
LEMMA ReleaseForgetInv == ASSUME CountInv, NEW p \in LayerUsers, ReleaseForget(p) PROVE CountInv'
<1>0. LsTypeOK /\ CallOK(p) /\ MapOK
  BY DEF CountInv
<1> DEFINE c == at[p]
<1>1. /\ lpc[p] = "forget" /\ layerL = p /\ pin[p] = NoLayer /\ c \in layerMap /\ c \in Chains
      /\ referenceCount[c] = 0
      /\ UNCHANGED <<layerL, mountL, referenceCount, references, mounts, mountParent, at, id,
                     panicked, layerLoad>>
  BY <1>0, Zenon DEF ReleaseForget, CallOK, Releasing, Removing, LsTypeOK, locks, mountVars
<1>2. ~panicked'
  BY <1>1, Zenon DEF CountInv
<1>3. CASE /\ layerMap' = layerMap \ {c} /\ pin' = [pin EXCEPT ![p] = ParentOf[c]]
           /\ lpc' = [lpc EXCEPT ![p] = IF ParentOf[c] = NoLayer THEN "return" ELSE "release"]
  <2> HIDE DEF c
  <2>1. references[c] = {} /\ LayersOn(c) = {} /\ MountsOn(c) = {} /\ CallsOn(c) = {}
    BY <1>1, ZeroCount
  <2>2. /\ ParentOf[c] \in (layerMap \cup {NoLayer}) \ {c} /\ ParentOf[c] \in Chains \cup {NoLayer}
    BY <1>0, <1>1, <2>1, LayerAssumption DEF MapOK, LayersOn
  <2>3. /\ LsTypeOK' /\ StepOf(p) /\ pin'[p] = ParentOf[c]
        /\ lpc'[p] = IF ParentOf[c] = NoLayer THEN "return" ELSE "release"
    BY <1>0, <1>1, <1>3, <2>2, Zenon DEF LsTypeOK, StepOf, LPcs, Releasing
  <2>4. CallOK(p)'
    BY <1>1, <2>3 DEF CallOK, Registering, Creating, Releasing, Mounting, Mounted, Unmounting, Removing
  <2>5. MapOK'
    <3>1. \A d \in Chains : references'[d] # {} => d \in layerMap'
      BY <1>0, <1>1, <1>3, <2>1 DEF MapOK
    <3>2. \A d \in layerMap' : ParentOf[d] \in layerMap' \cup {NoLayer}
      BY <1>0, <1>3, <2>1 DEF MapOK, LayersOn
    <3>3. \A n \in mounts' : mountParent'[n] \in layerMap' \cup {NoLayer}
      BY <1>0, <1>1, <1>3, <2>1 DEF MapOK, MountsOn
    <3>4. \A q \in LayerUsers : pin'[q] \in layerMap' \cup {NoLayer}
      BY <1>0, <1>3, <2>1, <2>2, <2>3 DEF MapOK, CallsOn, StepOf
    <3> QED
      BY <3>1, <3>2, <3>3, <3>4 DEF MapOK
  <2>6. ASSUME NEW d \in Chains
        PROVE  referenceCount'[d] = Cardinality(references'[d]) + Cardinality(LayersOn(d)')
                                  + Cardinality(MountsOn(d)') + Cardinality(CallsOn(d)')
    <3>1. /\ Cardinality(references'[d]) = Cardinality(references[d]) + 0
          /\ Cardinality(MountsOn(d)') = Cardinality(MountsOn(d)) + 0
      BY <1>1, SameHolders
    <3>2. Cardinality(LayersOn(d)') = Cardinality(LayersOn(d)) - One(ParentOf[c] = d)
      BY <1>0, <1>1, <1>3, MapMoves, Zenon
    <3>3. Cardinality(CallsOn(d)') = Cardinality(CallsOn(d)) + One(d = ParentOf[c]) - One(d = NoLayer)
      BY <1>0, <1>1, <2>3, CallMoves
    <3>4. One(d = NoLayer) = 0 /\ One(ParentOf[c] = d) = One(d = ParentOf[c]) /\ One(d = ParentOf[c]) \in Int
      BY LayerAssumption DEF One
    <3> QED
      BY <1>1, <3>1, <3>2, <3>3, <3>4, CountAt
  <2>7. \A d \in Chains : references'[d] \subseteq references[d] \cup {p}
    BY <1>1
  <2> QED
    BY <1>1, <1>2, <2>3, <2>4, <2>5, <2>6, <2>7, CountStep
<1>4. CASE UNCHANGED <<layerMap, pin>> /\ lpc' = [lpc EXCEPT ![p] = "return"]
  <2>1. LsTypeOK' /\ StepOf(p) /\ lpc'[p] = "return" /\ pin'[p] = NoLayer
    BY <1>0, <1>1, <1>4, Zenon DEF LsTypeOK, StepOf, LPcs
  <2>2. CallOK(p)'
    BY <2>1 DEF CallOK, Registering, Creating, Releasing, Mounting, Mounted, Unmounting, Removing
  <2> QED
    BY <1>1, <1>4, <2>1, <2>2, CountFrame
<1> QED
  BY <1>3, <1>4, Zenon DEF ReleaseForget, GotoL

\* CreateRWLayer enters the mount: the pin of the parent goes from the call to the mount.
LEMMA MountSaveInv == ASSUME CountInv, NEW p \in LayerUsers, MountSave(p) PROVE CountInv'
<1>0. LsTypeOK /\ CallOK(p) /\ MapOK
  BY DEF CountInv
<1> DEFINE n == id[p]
<1>1. /\ lpc[p] = "mountSave" /\ mountL = p /\ pin[p] = at[p] /\ n \in MountNames \ mounts
      /\ UNCHANGED <<layerL, mountL, layerMap, referenceCount, references, at, id, panicked, layerLoad>>
  BY <1>0, Zenon DEF MountSave, CallOK, Mounting, Mounted, locks, layers
<1>2. ~panicked'
  BY <1>1, Zenon DEF CountInv
<1>3. CASE /\ mounts' = mounts \cup {n} /\ mountParent' = [mountParent EXCEPT ![n] = at[p]]
           /\ pin' = [pin EXCEPT ![p] = NoLayer] /\ lpc' = [lpc EXCEPT ![p] = "return"]
  <2> HIDE DEF n
  <2>1. /\ LsTypeOK' /\ StepOf(p) /\ pin'[p] = NoLayer /\ lpc'[p] = "return" /\ mountParent'[n] = pin[p]
        /\ \A k \in MountNames : k # n => mountParent'[k] = mountParent[k]
    BY <1>0, <1>1, <1>3, Zenon DEF LsTypeOK, StepOf, LPcs
  <2>2. CallOK(p)'
    BY <2>1 DEF CallOK, Registering, Creating, Releasing, Mounting, Mounted, Unmounting, Removing
  <2>3. MapOK'
    BY <1>0, <1>1, <1>3, <2>1 DEF MapOK, LsTypeOK
  <2>4. ASSUME NEW d \in Chains
        PROVE  referenceCount'[d] = Cardinality(references'[d]) + Cardinality(LayersOn(d)')
                                  + Cardinality(MountsOn(d)') + Cardinality(CallsOn(d)')
    <3>1. /\ Cardinality(references'[d]) = Cardinality(references[d]) + 0
          /\ Cardinality(LayersOn(d)') = Cardinality(LayersOn(d)) + 0
      BY <1>1, SameHolders
    <3>2. Cardinality(MountsOn(d)') = Cardinality(MountsOn(d)) + One(d = mountParent'[n])
      BY <1>0, <1>1, <1>3, <2>1, MountMoves, Zenon
    <3>3. Cardinality(CallsOn(d)') = Cardinality(CallsOn(d)) + One(d = NoLayer) - One(d = pin[p])
      BY <1>0, <2>1, CallMoves
    <3>4. One(d = NoLayer) = 0 /\ One(d = pin[p]) \in Int /\ One(d = mountParent'[n]) = One(d = pin[p])
      BY <2>1, LayerAssumption DEF One
    <3> QED
      BY <1>1, <3>1, <3>2, <3>3, <3>4, CountAt
  <2>5. \A d \in Chains : references'[d] \subseteq references[d] \cup {p}
    BY <1>1
  <2> QED
    BY <1>1, <1>2, <2>1, <2>2, <2>3, <2>4, <2>5, CountStep
<1>4. CASE UNCHANGED <<mounts, mountParent, pin>> /\ lpc' = [lpc EXCEPT ![p] = Unwound(p)]
  <2>1. LsTypeOK' /\ StepOf(p) /\ lpc'[p] = Unwound(p) /\ pin'[p] = pin[p]
    BY <1>0, <1>1, <1>4, Zenon DEF LsTypeOK, StepOf, LPcs, Unwound
  <2>2. CallOK(p)'
    BY <2>1 DEF Unwound, CallOK, Registering, Creating, Releasing, Mounting, Mounted, Unmounting, Removing
  <2> QED
    BY <1>1, <1>4, <2>1, <2>2, CountFrame
<1> QED
  BY <1>3, <1>4, Zenon DEF MountSave, GotoL, mountVars

\* ReleaseRWLayer drops the mount: its pin of the parent becomes one of the call.
LEMMA UnmountMetaInv == ASSUME CountInv, NEW p \in LayerUsers, UnmountMeta(p) PROVE CountInv'
<1>0. LsTypeOK /\ CallOK(p) /\ MapOK
  BY DEF CountInv
<1> DEFINE n == id[p]
<1>1. /\ lpc[p] = "unmountMeta" /\ mountL = p /\ pin[p] = NoLayer /\ n \in mounts /\ n \in MountNames
      /\ UNCHANGED <<layerL, mountL, layerMap, referenceCount, references, mountParent, at, id,
                     panicked, layerLoad>>
  BY <1>0, Zenon DEF UnmountMeta, CallOK, Unmounting, LsTypeOK, locks, layers
<1>2. ~panicked'
  BY <1>1, Zenon DEF CountInv
<1>3. CASE /\ mounts' = mounts \ {n} /\ pin' = [pin EXCEPT ![p] = mountParent[n]]
           /\ lpc' = [lpc EXCEPT ![p] = IF mountParent[n] = NoLayer THEN "return" ELSE "unpin"]
  <2> HIDE DEF n
  <2>1. /\ LsTypeOK' /\ StepOf(p) /\ pin'[p] = mountParent[n]
        /\ lpc'[p] = IF mountParent[n] = NoLayer THEN "return" ELSE "unpin"
    BY <1>0, <1>1, <1>3, Zenon DEF LsTypeOK, StepOf, LPcs
  <2>2. CallOK(p)'
    BY <2>1 DEF CallOK, Registering, Creating, Releasing, Mounting, Mounted, Unmounting, Removing
  <2>3. MapOK'
    BY <1>0, <1>1, <1>3, <2>1 DEF MapOK, LsTypeOK
  <2>4. ASSUME NEW d \in Chains
        PROVE  referenceCount'[d] = Cardinality(references'[d]) + Cardinality(LayersOn(d)')
                                  + Cardinality(MountsOn(d)') + Cardinality(CallsOn(d)')
    <3>1. /\ Cardinality(references'[d]) = Cardinality(references[d]) + 0
          /\ Cardinality(LayersOn(d)') = Cardinality(LayersOn(d)) + 0
      BY <1>1, SameHolders
    <3>2. Cardinality(MountsOn(d)') = Cardinality(MountsOn(d)) - One(d = mountParent[n])
      BY <1>0, <1>1, <1>3, MountMoves
    <3>3. Cardinality(CallsOn(d)') = Cardinality(CallsOn(d)) + One(d = mountParent[n]) - One(d = NoLayer)
      BY <1>0, <1>1, <2>1, CallMoves
    <3>4. One(d = NoLayer) = 0 /\ One(d = mountParent[n]) \in Int
      BY LayerAssumption DEF One
    <3> QED
      BY <1>1, <3>1, <3>2, <3>3, <3>4, CountAt
  <2>5. \A d \in Chains : references'[d] \subseteq references[d] \cup {p}
    BY <1>1
  <2> QED
    BY <1>1, <1>2, <2>1, <2>2, <2>3, <2>4, <2>5, CountStep
<1>4. CASE UNCHANGED <<mounts, pin>> /\ lpc' = [lpc EXCEPT ![p] = "return"]
  <2>1. LsTypeOK' /\ StepOf(p) /\ lpc'[p] = "return" /\ pin'[p] = NoLayer
    BY <1>0, <1>1, <1>4, Zenon DEF LsTypeOK, StepOf, LPcs
  <2>2. CallOK(p)'
    BY <2>1 DEF CallOK, Registering, Creating, Releasing, Mounting, Mounted, Unmounting, Removing
  <2> QED
    BY <1>1, <1>4, <2>1, <2>2, CountFrame
<1> QED
  BY <1>3, <1>4, Zenon DEF UnmountMeta, GotoL

\* A restart: what is loaded, and that it is counted from nothing.
LEMMA CrashInv == ASSUME CountInv, LayerCrash PROVE CountInv'
<1>0. LsTypeOK
  BY DEF CountInv
<1> DEFINE loaded == Loadable(meta')
           whole == {n \in MountNames : mountMeta'[n] = "full" /\ mountParent[n] \in loaded \cup {NoLayer}}
<1>1. PICK some \in SUBSET MountNames : LayerRestore(meta', mountMeta', some)
  BY Zenon DEF LayerCrash
<1>2. /\ layerMap' = loaded /\ mounts' = whole \cup some
      /\ mountParent' = [n \in MountNames |-> IF n \in whole THEN mountParent[n] ELSE NoLayer]
      /\ referenceCount' = [c \in Chains |-> Cardinality({d \in loaded : ParentOf[d] = c})
                                             + Cardinality({n \in whole : mountParent[n] = c})]
      /\ references' = [c \in Chains |-> {}]
  BY <1>1, Zenon DEF LayerRestore, RestoreFrom
<1>3. /\ layerL' = NoLayer /\ mountL' = NoLayer /\ lpc' = [p \in LayerUsers |-> "idle"]
      /\ at' = [p \in LayerUsers |-> NoLayer] /\ pin' = [p \in LayerUsers |-> NoLayer]
      /\ id' = [p \in LayerUsers |-> NoLayer] /\ UNCHANGED <<panicked, layerLoad>>
  BY Zenon DEF LayerCrash
<1>4. /\ loaded \subseteq Chains
      /\ \A c \in loaded : ParentOf[c] \in loaded \cup {NoLayer}
  <2>1. ASSUME NEW c \in loaded PROVE ParentOf[c] \in loaded \cup {NoLayer}
    <3>1. PICK S \in SUBSET {d \in Chains : meta'[d] = "full"} :
            c \in S /\ \A d \in S : ParentOf[d] \in S \cup {NoLayer}
      BY Zenon DEF Loadable, Downward
    <3> QED
      BY <3>1, Zenon DEF Loadable, Downward
  <2> QED
    BY <2>1, Zenon DEF Loadable, Downward
<1>5. whole \subseteq MountNames
  OBVIOUS
<1>6. \A n \in whole : mountParent[n] \in loaded \cup {NoLayer}
  OBVIOUS
<1> HIDE DEF loaded, whole
<1>7. ASSUME NEW c \in Chains
      PROVE  /\ LayersOn(c)' = {d \in loaded : ParentOf[d] = c}
             /\ MountsOn(c)' = {n \in whole : mountParent[n] = c}
             /\ references'[c] = {} /\ CallsOn(c)' = {}
             /\ Cardinality({d \in loaded : ParentOf[d] = c}) \in Nat
             /\ Cardinality({n \in whole : mountParent[n] = c}) \in Nat
  <2>1. c # NoLayer
    BY LayerAssumption
  <2>2. LayersOn(c)' = {d \in loaded : ParentOf[d] = c}
    BY <1>2 DEF LayersOn
  <2>3. MountsOn(c)' = {n \in whole : mountParent[n] = c}
    BY <1>2, <1>5, <2>1 DEF MountsOn
  <2>4. references'[c] = {} /\ CallsOn(c)' = {}
    BY <1>2, <1>3, <2>1 DEF CallsOn
  <2>5. {d \in loaded : ParentOf[d] = c} \subseteq Chains /\ {n \in whole : mountParent[n] = c} \subseteq MountNames
    BY <1>4, <1>5
  <2>6. IsFiniteSet({d \in loaded : ParentOf[d] = c}) /\ IsFiniteSet({n \in whole : mountParent[n] = c})
    BY <2>5, FS_Subset, LayerAssumption
  <2> QED
    BY <2>2, <2>3, <2>4, <2>6, FS_CardinalityType
<1>8. CountOK'
  <2>1. Cardinality({}) = 0
    BY FS_EmptySet
  <2>2. ASSUME NEW c \in Chains
        PROVE  referenceCount'[c] = Cardinality(references'[c]) + Cardinality(LayersOn(c)')
                                    + Cardinality(MountsOn(c)') + Cardinality(CallsOn(c)')
    <3> DEFINE l == Cardinality({d \in loaded : ParentOf[d] = c})
               m == Cardinality({n \in whole : mountParent[n] = c})
    <3>1. l \in Nat /\ m \in Nat
      BY <1>7
    <3>2. /\ referenceCount'[c] = l + m /\ Cardinality(LayersOn(c)') = l /\ Cardinality(MountsOn(c)') = m
          /\ Cardinality(references'[c]) = 0 /\ Cardinality(CallsOn(c)') = 0
      BY <1>2, <1>7, <2>1, Zenon
    <3> HIDE DEF l, m
    <3>3. l + m = 0 + l + m + 0
      BY <3>1
    <3> QED
      BY <3>2, <3>3, Zenon
  <2> QED
    BY <2>2 DEF CountOK
<1>9. LsTypeOK'
  <2>1. referenceCount' \in [Chains -> Nat]
    <3>1. \A c \in Chains : Cardinality({d \in loaded : ParentOf[d] = c})
                            + Cardinality({n \in whole : mountParent[n] = c}) \in Nat
      BY <1>7
    <3> QED
      BY <1>2, <3>1
  <2>2. /\ references' \in [Chains -> SUBSET LayerUsers] /\ mountParent' \in [MountNames -> Chains \cup {NoLayer}]
        /\ layerMap' \in SUBSET Chains /\ mounts' \in SUBSET MountNames
    BY <1>0, <1>2, <1>4, <1>5 DEF LsTypeOK
  <2>3. /\ lpc' \in [LayerUsers -> LPcs] /\ at' \in [LayerUsers -> Chains \cup {NoLayer}]
        /\ pin' \in [LayerUsers -> Chains \cup {NoLayer}]
        /\ id' \in [LayerUsers -> IDs \cup MountNames \cup {NoLayer}]
    BY <1>3 DEF LPcs
  <2> QED
    BY <1>0, <1>3, <2>1, <2>2, <2>3 DEF LsTypeOK
<1>10. MapOK'
  <2>1. \A c \in Chains : references'[c] = {}
    BY <1>2
  <2>2. \A n \in mounts' : mountParent'[n] \in layerMap' \cup {NoLayer}
    BY <1>2, <1>5, <1>6
  <2>3. \A p \in LayerUsers : pin'[p] = NoLayer
    BY <1>3
  <2> QED
    BY <1>2, <1>4, <2>1, <2>2, <2>3 DEF MapOK
<1>11. ~panicked'
  BY <1>3, Zenon DEF CountInv
<1>12. \A p \in LayerUsers : CallOK(p)'
  <2> TAKE p \in LayerUsers
  <2>1. lpc'[p] = "idle" /\ pin'[p] = NoLayer
    BY <1>3
  <2> QED
    BY <2>1 DEF CallOK, Registering, Creating, Releasing, Mounting, Mounted, Unmounting, Removing
<1> QED
  BY <1>8, <1>9, <1>10, <1>11, <1>12 DEF CountInv

\* The counts are right at the start ...
LEMMA InitCountInv == LayerInit => CountInv
<1> SUFFICES ASSUME LayerInit PROVE CountInv
  OBVIOUS
<1>1. LsTypeOK
  BY DEF LayerInit, LsTypeOK, LPcs
<1>2. MapOK /\ ~panicked
  BY DEF LayerInit, MapOK
<1>3. CountOK
  <2> SUFFICES ASSUME NEW c \in Chains
               PROVE  referenceCount[c] = Cardinality(references[c]) + Cardinality(LayersOn(c))
                                          + Cardinality(MountsOn(c)) + Cardinality(CallsOn(c))
    BY DEF CountOK
  <2>1. references[c] = {} /\ LayersOn(c) = {} /\ MountsOn(c) = {} /\ CallsOn(c) = {}
    BY LayerAssumption DEF LayerInit, LayersOn, MountsOn, CallsOn
  <2>2. Cardinality({}) = 0 /\ referenceCount[c] = 0 /\ 0 = 0 + 0 + 0 + 0
    BY FS_EmptySet DEF LayerInit
  <2> QED
    BY <2>1, <2>2, Zenon
<1>4. \A p \in LayerUsers : CallOK(p)
  BY DEF LayerInit, CallOK, Registering, Creating, Releasing, Mounting, Mounted, Unmounting, Removing
<1> QED
  BY <1>1, <1>2, <1>3, <1>4 DEF CountInv

\* ... and after every step.
LEMMA NextCountInv == CountInv /\ [LayerNext]_layerVars => CountInv'
<1> SUFFICES ASSUME CountInv, [LayerNext]_layerVars PROVE CountInv'
  OBVIOUS
<1>1. layerLoad.chains \subseteq Chains /\ layerLoad.names \subseteq MountNames
  BY LayerAssumption DEF CountInv, LsTypeOK
<1>2. ASSUME NEW p \in LayerUsers, RegisterStep(p) PROVE CountInv'
  <2>1. CASE RegisterExisting(p)
    <3>1. at[p] \in Chains
      BY <2>1 DEF RegisterExisting, CountInv, LsTypeOK
    <3> QED
      BY <2>1, <3>1, ReferenceInv
  <2> QED
    BY <1>2, <2>1, RegisterCreateInv, RegisterTryInv, RegisterCleanInv, RegisterCommitInv, ZenonT(30) DEF RegisterStep
<1>3. ASSUME NEW p \in LayerUsers, ReleaseStep(p) PROVE CountInv'
  BY <1>3, UnpinInv, ReleaseRemoveInv, ReleaseCountInv, ReleaseForgetInv, Zenon DEF ReleaseStep
<1>4. ASSUME NEW p \in LayerUsers, MountStep(p) PROVE CountInv'
  BY <1>4, MountCreateInv, UnmountPartInv, MountParentInv, MountSaveInv, UnmountMetaInv, ZenonT(30) DEF MountStep
<1>5. ASSUME NEW p \in LayerUsers, NEW c \in layerLoad.chains, GetLayer(p, c) \/ RegisterStart(p, c) \/ Release(p, c)
      PROVE  CountInv'
  <2>1. c \in Chains
    BY <1>1
  <2> QED
    BY <1>5, <2>1, ReferenceInv, RegisterStartInv, ReleaseInv, Zenon
<1>6. ASSUME NEW p \in LayerUsers,
             \/ ReturnL(p)
             \/ \E n \in layerLoad.names : GetRWLayer(p, n) \/ ReleaseRWLayer(p, n)
             \/ \E n \in layerLoad.names, c \in layerLoad.chains \cup {NoLayer} : MountStart(p, n, c)
      PROVE  CountInv'
  BY <1>1, <1>6, ReturnInv, GetRWInv, ReleaseRWInv, MountStartInv, ZenonT(30)
<1>7. CASE UNCHANGED layerVars
  <2>1. UNCHANGED <<layerL, mountL, layerMap, referenceCount, references, mounts, mountParent, lpc, at, pin, id,
                    panicked, layerLoad>>
    BY <1>7 DEF layerVars, locks, layers, mountVars, procs, hist
  <2>2. LsTypeOK' /\ MapOK'
    BY <2>1, ZenonT(30) DEF CountInv, LsTypeOK, MapOK
  <2>3. CountOK'
    BY <2>1, ZenonT(30) DEF CountInv, CountOK, LayersOn, MountsOn, CallsOn
  <2>4. \A p \in LayerUsers : CallOK(p)'
    BY <2>1, ZenonT(30) DEF CountInv, CallOK
  <2> QED
    BY <2>1, <2>2, <2>3, <2>4, ZenonT(30) DEF CountInv
<1> QED
  BY <1>2, <1>3, <1>4, <1>5, <1>6, <1>7, CrashInv, ZenonT(30) DEF LayerNext
-----------------------------------------------------------------------------
LEMMA InitLsInv == LayerInit => LsInv
<1> SUFFICES ASSUME LayerInit PROVE LsInv
  OBVIOUS
<1>1. DriverClean /\ MapClean
  BY DEF LayerInit, DriverClean, MapClean
<1>2. MountsClean
  BY DEF LayerInit, MountsClean, Parts, Mounting, Mounted, Unmounting
<1> QED
  BY <1>1, <1>2, InitCountInv, InitDisk DEF LsInv, CleanInv

LEMMA NextLsInv == LsInv /\ [LayerNext]_layerVars => LsInv'
<1> SUFFICES ASSUME LsInv, [LayerNext]_layerVars PROVE LsInv'
  OBVIOUS
<1>1. CountInv /\ DiskInv /\ CleanInv
  BY DEF LsInv
<1>2. CountInv'
  BY <1>1, NextCountInv
<1>3. ASSUME NEW p \in LayerUsers, LayerStep(p) PROVE DiskInv' /\ CleanInv'
  <2>1. DiskInv'
    BY <1>1, <1>3, StepDisk
  <2>2. ASSUME lfaults' = 0, lcrashes' = 0 PROVE DriverClean' /\ MapClean' /\ MountsClean'
    <3>1. lfaults = 0 /\ lcrashes = 0 /\ ~LayerFails
      BY <1>1, <1>3, <2>2, NoFailure
    <3>2. DriverClean /\ MapClean /\ MountsClean
      BY <1>1, <3>1 DEF CleanInv
    <3>3. \A x \in Chains : pin[p] = x /\ referenceCount[x] = 1 => references[x] = {}
      BY <1>1, LastCall
    <3>4. DriverClean' /\ MountsClean'
      BY <1>1, <1>3, <3>1, <3>2, StepDriver, StepMounts
    <3> QED
      BY <1>1, <1>3, <3>1, <3>2, <3>3, <3>4, StepMap
  <2> QED
    BY <2>1, <2>2 DEF CleanInv
<1>4. ASSUME LayerCrash PROVE DiskInv' /\ CleanInv'
  <2>1. DiskInv'
    BY <1>1, <1>4, CrashDisk
  <2>2. lcrashes' # 0
    BY <1>1, <1>4 DEF LayerCrash, DiskInv, DiskTypeOK
  <2> QED
    BY <2>1, <2>2 DEF CleanInv
<1>5. CASE UNCHANGED layerVars
  <2>1. UNCHANGED <<layerMap, referenceCount, cacheID, mounts, meta, data, mountData, txs, orphans, lpc, at, id,
                    lfaults, lcrashes, damaged>>
    BY <1>5 DEF layerVars, layers, mountVars, disk, procs, hist
  <2>2. DiskInv'
    BY <1>1, <2>1 DEF DiskInv, DiskTypeOK, Forgetting
  <2>3. CleanInv'
    BY <1>1, <2>1 DEF CleanInv, DriverClean, MapClean, MountsClean, Forgetting, Parts
  <2> QED
    BY <1>2, <2>2, <2>3 DEF LsInv
<1>6. CASE LayerNext
  <2>1. LayerCrash \/ \E p \in LayerUsers : LayerStep(p)
    BY <1>6, Zenon DEF LayerNext, LayerStep
  <2> QED
    BY <1>2, <1>3, <1>4, <2>1 DEF LsInv
<1> QED
  BY <1>5, <1>6

\* The inductive invariant of the layer store: the counts, the names in the driver
\* and, as long as nothing has failed, what is stored.
THEOREM SpecLsInv == LayerSpec => []LsInv
  BY InitLsInv, NextLsInv, PTL DEF LayerSpec

\* The reference count of every layer is the number of those that count on it, on
\* every error path of Register, CreateRWLayer and the releases and after every
\* restart, and releaseLayer never panics (layer_store.go:86-95, 195, 255-261, 337,
\* 385-398, 451-457).
THEOREM CountsAreExact == LayerSpec => []CountExact
<1>1. ASSUME LsInv PROVE CountExact
  <2>1. CountInv /\ LsTypeOK
    BY <1>1 DEF LsInv, CountInv
  <2>2. \A c \in Chains : referenceCount[c] = Cardinality(Pins(c))
    <3> TAKE c \in Chains
    <3> QED
      BY <2>1, CountAt, PinsCount, Zenon
  <2>3. ~panicked
    BY <2>1, Zenon DEF CountInv
  <2> QED
    BY <2>2, <2>3 DEF CountExact
<1>2. LsInv => CountExact
  BY <1>1
<1> QED
  BY <1>2, SpecLsInv, PTL

\* A layer that anybody counts on is in the map with its parent, its metadata and its
\* data (layer_store.go:360-379), in every behaviour of the store.
THEOREM HeldLayersAreIntact == LayerSpec => []HeldIntact
  BY SpecLsInv, HeldIsIntact, PTL

\* When nothing has failed and no call is in progress, driver and metadata hold what
\* the map names and nothing else (layer_store.go:287-297, 316-320, 404).
THEOREM NothingIsLeft == LayerSpec => []NothingLeft
<1>1. ASSUME LsInv PROVE NothingLeft
  <2> SUFFICES ASSUME \A p \in LayerUsers : lpc[p] = "idle", lfaults = 0, lcrashes = 0
               PROVE  /\ data = {cacheID[c] : c \in layerMap} /\ txs = {} /\ ~orphans
                      /\ \A c \in Chains : (meta[c] = "full" <=> c \in layerMap)
                      /\ \A c \in layerMap : Pins(c) # {}
                      /\ \A n \in MountNames : (mountData[n] # {} <=> n \in mounts)
    BY DEF NothingLeft
  <2>1. CountInv /\ DiskInv /\ DriverClean /\ MapClean /\ MountsClean /\ layerMap \subseteq Chains
    BY <1>1 DEF LsInv, CleanInv, CountInv, LsTypeOK
  <2>2. \A c \in Chains : ~Forgetting(c)
    BY DEF Forgetting
  <2>3. \A p \in LayerUsers : lpc[p] \notin Named /\ lpc[p] \notin Removing /\ lpc[p] \notin Mounting \cup Unmounting
    BY DEF Named, Removing, Mounting, Mounted, Unmounting
  <2>4. data = {cacheID[c] : c \in layerMap}
    <3>1. \A i \in data : \E c \in layerMap : cacheID[c] = i
      BY <2>1, <2>3 DEF DriverClean
    <3>2. \A c \in layerMap : cacheID[c] \in data
      BY <2>1, <2>2 DEF DriverClean, DiskInv
    <3> QED
      BY <3>1, <3>2
  <2>5. txs = {} /\ ~orphans /\ \A c \in Chains : (meta[c] = "full" <=> c \in layerMap)
    BY <2>1, <2>3 DEF DriverClean
  <2>6. ASSUME NEW c \in layerMap PROVE Pins(c) # {}
    <3>1. c \in Chains /\ referenceCount[c] # 0
      BY <2>1, <2>3 DEF MapClean
    <3> QED
      BY <2>1, <3>1, ZeroCount
  <2>7. \A n \in MountNames : (mountData[n] # {} <=> n \in mounts)
    BY <2>1, <2>3 DEF MountsClean, Parts
  <2> QED
    BY <2>4, <2>5, <2>6, <2>7
<1>2. LsInv => NothingLeft
  BY <1>1
<1> QED
  BY <1>2, SpecLsInv, PTL

\* The layers in use with nothing damaged below them survive a crash at any point,
\* under the same name and with their data (layer_store.go:73-104; the rename in
\* filestore.go:134 is the commit point).
THEOREM CrashesKeepLayers == LayerSpec => CrashKeepsLayers
<1> DEFINE Keeps == lcrashes' > lcrashes =>
                      \A c \in Sound : Pins(c) # {} => /\ c \in layerMap'
                                                       /\ cacheID'[c] = cacheID[c] /\ cacheID'[c] \in data'
<1>1. ASSUME LsInv, LayerCrash PROVE Keeps
  <2>1. CountInv /\ DiskInv /\ HeldIntact /\ LsTypeOK /\ MapOK
    BY <1>1, HeldIsIntact DEF LsInv, CountInv
  <2>2. PICK tl \in SUBSET {c \in Chains : Forgetting(c)} :
          meta' = [c \in Chains |-> IF c \in tl THEN "torn" ELSE meta[c]]
    BY <1>1, Zenon DEF LayerCrash, Forgetting
  <2>3. /\ layerMap' = Loadable(meta')
        /\ cacheID' = [c \in Chains |-> IF meta'[c] = "full" THEN cacheID[c] ELSE NoLayer]
        /\ data' = {cacheID'[c] : c \in Chains} \cap data
    BY <1>1, Zenon DEF LayerCrash, LayerRestore, RestoreFrom
  <2> DEFINE Kept == {c \in Sound : Pins(c) # {}}
  <2>4. /\ Sound \subseteq Chains \ damaged
        /\ \A c \in Sound : ParentOf[c] \in Sound \cup {NoLayer}
    <3>1. Chains \ damaged \in SUBSET Chains
      OBVIOUS
    <3> QED
      BY <3>1, DownwardIs DEF Sound
  <2>5. \A c \in Kept : c \in Chains /\ meta'[c] = "full" /\ cacheID[c] \in data
    <3> TAKE c \in Kept
    <3>1. c \in Chains /\ c \notin damaged /\ Pins(c) # {}
      BY <2>4
    <3>2. meta[c] = "full" /\ cacheID[c] \in data /\ ~Forgetting(c)
      BY <2>1, <3>1, HeldInMap DEF HeldIntact
    <3> QED
      BY <2>2, <3>1, <3>2
  <2>6. \A c \in Kept : ParentOf[c] \in Kept \cup {NoLayer}
    <3> TAKE c \in Kept
    <3>1. c \in Chains /\ Pins(c) # {} /\ ParentOf[c] \in Sound \cup {NoLayer}
      BY <2>4
    <3>2. c \in layerMap
      BY <2>1, <3>1, HeldInMap
    <3>3. CASE ParentOf[c] # NoLayer
      <4>1. ParentOf[c] \in Chains /\ c \in LayersOn(ParentOf[c])
        BY <3>1, <3>2, <3>3, LayerAssumption DEF LayersOn
      <4>2. Pins(ParentOf[c]) # {}
        BY <2>1, <4>1, PinsCount
      <4> QED
        BY <3>1, <4>2
    <3> QED
      BY <3>3
  <2>7. Kept \subseteq layerMap'
    <3>1. Kept \in SUBSET {c \in Chains : meta'[c] = "full"} /\ {c \in Chains : meta'[c] = "full"} \in SUBSET Chains
      BY <2>5
    <3> HIDE DEF Kept
    <3> QED
      BY <2>3, <2>6, <3>1, DownwardIs DEF Loadable
  <2>8. \A c \in Kept : cacheID'[c] = cacheID[c] /\ cacheID'[c] \in data'
    BY <2>3, <2>5
  <2> QED
    BY <2>7, <2>8
<1>2. ASSUME DiskInv, [LayerNext]_layerVars, ~LayerCrash PROVE ~(lcrashes' > lcrashes)
  <2>1. lcrashes' = lcrashes
    <3>1. CASE UNCHANGED layerVars
      BY <3>1 DEF layerVars, hist
    <3>2. ASSUME NEW p \in LayerUsers, LayerStep(p) PROVE lcrashes' = lcrashes
      BY <3>2, ZenonT(30) DEF LayerStep, hist,
         GetLayer, RegisterStart, Release, GetRWLayer, ReleaseRWLayer, MountStart, RegisterStep,
         RegisterCreate, RegisterBegin, RegisterApply, RegisterExisting, RegisterCommit, EnterLayer,
         RegisterCommitError, RegisterClean, RegisterCleanOr, ReleaseStep, Unpin, ReleaseCount,
         ReleaseRemove, ReleaseForget, ReturnL, MountStep, MountParent, MountInit, MountRW, MountCreate,
         MountSave, UnmountRW, UnmountInit, UnmountPart, UnmountMeta
    <3> QED
      BY <1>2, <3>1, <3>2, Zenon DEF LayerNext, LayerStep
  <2> QED
    BY <1>2, <2>1 DEF DiskInv, DiskTypeOK
<1>3. LsInv /\ [LayerNext]_layerVars => [Keeps]_layerVars
  BY <1>1, <1>2 DEF LsInv
<1> QED
  BY <1>3, SpecLsInv, PTL DEF LayerSpec, CrashKeepsLayers
=============================================================================
