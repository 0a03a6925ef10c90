------------------------- MODULE LayerHolderProofs --------------------------
(***************************************************************************)
(* Proofs about the layer store: how many count on a layer, and the steps  *)
(* that add a holder, give up a reference or leave the holders alone.      *)
(***************************************************************************)
EXTENDS LayerInvariants, FiniteSetTheorems, TLAPS

\* More time for a leaf than by default, and a second attempt, for slow machines.
USE SMTT(30), Z3T(30), ZenonT(30)

\* A step of the call of p.
StepOf(p) ==
  /\ \A q \in LayerUsers : q # p => /\ lpc'[q] = lpc[q] /\ at'[q] = at[q]
                                    /\ pin'[q] = pin[q] /\ id'[q] = id[q]
  /\ layerL' = layerL \/ layerL \in {p, NoLayer}
  /\ mountL' = mountL \/ mountL \in {p, NoLayer}

-----------------------------------------------------------------------------
(* Cardinalities.                                                          *)

One(b) == IF b THEN 1 ELSE 0

\* A finite set with an element more or less.
LEMMA CardStep ==
  ASSUME NEW S, IsFiniteSet(S), NEW x
  PROVE  /\ Cardinality(S) \in Nat
         /\ IsFiniteSet(S \cup {x}) /\ IsFiniteSet(S \ {x})
         /\ Cardinality(S \cup {x}) = Cardinality(S) + One(x \notin S)
         /\ Cardinality(S \ {x}) = Cardinality(S) - One(x \in S)
         /\ Cardinality(S) = 0 => S = {}
<1>1. Cardinality(S) \in Nat /\ (Cardinality(S) = 0 => S = {})
  BY FS_CardinalityType, FS_EmptySet
<1>2. IsFiniteSet(S \cup {x}) /\ Cardinality(S \cup {x}) = Cardinality(S) + One(x \notin S)
  <2>1. CASE x \in S
    <3>1. S \cup {x} = S /\ One(x \notin S) = 0
      BY <2>1 DEF One
    <3>2. Cardinality(S) = Cardinality(S) + 0
      BY <1>1
    <3> QED
      BY <3>1, <3>2, Zenon
  <2>2. CASE x \notin S
    BY <2>2, FS_AddElement DEF One
  <2> QED
    BY <2>1, <2>2
<1>3. IsFiniteSet(S \ {x}) /\ Cardinality(S \ {x}) = Cardinality(S) - One(x \in S)
  <2>1. CASE x \in S
    BY <2>1, FS_RemoveElement DEF One
  <2>2. CASE x \notin S
    <3>1. S \ {x} = S /\ One(x \in S) = 0
      BY <2>2 DEF One
    <3>2. Cardinality(S) = Cardinality(S) - 0
      BY <1>1
    <3> QED
      BY <3>1, <3>2, Zenon
  <2> QED
    BY <2>1, <2>2
<1> QED
  BY <1>1, <1>2, <1>3

\* The union of two finite sets with nothing in common.
LEMMA CardDisjoint ==
  ASSUME NEW S, NEW V, IsFiniteSet(S), IsFiniteSet(V), S \cap V = {}
  PROVE  IsFiniteSet(S \cup V) /\ Cardinality(S \cup V) = Cardinality(S) + Cardinality(V)
<1>1. Cardinality(S \cap V) = 0 /\ Cardinality(S) \in Nat /\ Cardinality(V) \in Nat
  BY FS_EmptySet, FS_CardinalityType, Zenon
<1>2. /\ IsFiniteSet(S \cup V)
      /\ Cardinality(S \cup V) = Cardinality(S) + Cardinality(V) - Cardinality(S \cap V)
  BY FS_Union, Zenon
<1> QED
  BY <1>1, <1>2

\* Those who count on a layer are finitely many.
LEMMA FiniteHolders ==
  ASSUME LsTypeOK
  PROVE  \A c \in Chains : /\ IsFiniteSet(references[c]) /\ IsFiniteSet(LayersOn(c))
                           /\ IsFiniteSet(MountsOn(c)) /\ IsFiniteSet(CallsOn(c))
                           /\ Cardinality(references[c]) \in Nat /\ Cardinality(LayersOn(c)) \in Nat
                           /\ Cardinality(MountsOn(c)) \in Nat /\ Cardinality(CallsOn(c)) \in Nat
<1> TAKE c \in Chains
<1>1. /\ references[c] \subseteq LayerUsers /\ LayersOn(c) \subseteq Chains
      /\ MountsOn(c) \subseteq MountNames /\ CallsOn(c) \subseteq LayerUsers
  BY Zenon DEF LsTypeOK, LayersOn, MountsOn, CallsOn
<1>2. /\ IsFiniteSet(references[c]) /\ IsFiniteSet(LayersOn(c))
      /\ IsFiniteSet(MountsOn(c)) /\ IsFiniteSet(CallsOn(c))
  BY <1>1, FS_Subset, LayerAssumption
<1> QED
  BY <1>2, FS_CardinalityType

\* The number of tagged members.
LEMMA CardTagged ==
  ASSUME NEW kind, NEW S, IsFiniteSet(S)
  PROVE  IsFiniteSet(Tagged(kind, S)) /\ Cardinality(Tagged(kind, S)) = Cardinality(S)
<1> DEFINE f == [x \in S |-> <<kind, x>>]
<1>1. f \in Bijection(S, Tagged(kind, S))
  <2>1. f \in [S -> Tagged(kind, S)]
    BY DEF Tagged
  <2>2. \A x, y \in S : f[x] = f[y] => x = y
    OBVIOUS
  <2>3. \A t \in Tagged(kind, S) : \E x \in S : f[x] = t
    BY DEF Tagged
  <2> QED
    BY <2>1, <2>2, <2>3, Zenon DEF Bijection, Injection, IsInjective, Surjection
<1> QED
  BY <1>1, FS_Bijection, Zenon DEF ExistsBijection

\* The pins of a layer are as many as its holders of the four kinds together.
LEMMA PinsCount ==
  ASSUME LsTypeOK, NEW c \in Chains
  PROVE  /\ IsFiniteSet(Pins(c))
         /\ Cardinality(Pins(c)) = Cardinality(references[c]) + Cardinality(LayersOn(c))
                                   + Cardinality(MountsOn(c)) + Cardinality(CallsOn(c))
         /\ Pins(c) = {} <=> references[c] = {} /\ LayersOn(c) = {} /\ MountsOn(c) = {} /\ CallsOn(c) = {}
<1> DEFINE r == Tagged("ref", references[c])
           l == Tagged("child", LayersOn(c))
           m == Tagged("mount", MountsOn(c))
           k == Tagged("call", CallsOn(c))
<1>1. /\ IsFiniteSet(r) /\ Cardinality(r) = Cardinality(references[c])
      /\ IsFiniteSet(l) /\ Cardinality(l) = Cardinality(LayersOn(c))
      /\ IsFiniteSet(m) /\ Cardinality(m) = Cardinality(MountsOn(c))
      /\ IsFiniteSet(k) /\ Cardinality(k) = Cardinality(CallsOn(c))
  BY FiniteHolders, CardTagged, Zenon
<1>2. r \cap l = {} /\ (r \cup l) \cap m = {} /\ (r \cup l \cup m) \cap k = {}
  BY DEF Tagged
<1>3. Pins(c) = ((r \cup l) \cup m) \cup k
  BY DEF Pins
<1>4. Pins(c) = {} <=> references[c] = {} /\ LayersOn(c) = {} /\ MountsOn(c) = {} /\ CallsOn(c) = {}
  BY Zenon DEF Pins, Tagged
<1> HIDE DEF r, l, m, k
<1>5. IsFiniteSet(r \cup l) /\ Cardinality(r \cup l) = Cardinality(r) + Cardinality(l)
  BY <1>1, <1>2, CardDisjoint, Zenon
<1>6. IsFiniteSet(r \cup l \cup m) /\ Cardinality(r \cup l \cup m) = Cardinality(r \cup l) + Cardinality(m)
  BY <1>1, <1>2, <1>5, CardDisjoint, Zenon
<1>7. /\ IsFiniteSet((r \cup l \cup m) \cup k)
      /\ Cardinality((r \cup l \cup m) \cup k) = Cardinality(r \cup l \cup m) + Cardinality(k)
  BY <1>1, <1>2, <1>6, CardDisjoint, Zenon
<1> QED
  BY <1>1, <1>3, <1>4, <1>5, <1>6, <1>7, Zenon

\* A call counts on another layer than before.
LEMMA CallMoves ==
  ASSUME LsTypeOK, NEW p \in LayerUsers, StepOf(p), NEW c \in Chains
  PROVE  Cardinality(CallsOn(c)') = Cardinality(CallsOn(c)) + One(c = pin'[p]) - One(c = pin[p])
<1>0. IsFiniteSet(CallsOn(c)) /\ Cardinality(CallsOn(c)) \in Nat
  BY FiniteHolders
<1>1. CASE c = pin'[p] /\ c = pin[p]
  <2>1. CallsOn(c)' = CallsOn(c)
    BY <1>1, Zenon DEF CallsOn, StepOf
  <2>2. Cardinality(CallsOn(c)) = Cardinality(CallsOn(c)) + 1 - 1
    BY <1>0
  <2> QED
    BY <1>1, <2>1, <2>2, Zenon DEF One
<1>2. CASE c = pin'[p] /\ c # pin[p]
  <2>1. CallsOn(c)' = CallsOn(c) \cup {p} /\ p \notin CallsOn(c)
    BY <1>2 DEF CallsOn, StepOf
  <2>2. Cardinality(CallsOn(c) \cup {p}) = Cardinality(CallsOn(c)) + 1
    BY <1>0, <2>1, CardStep DEF One
  <2>3. Cardinality(CallsOn(c)) + 1 = Cardinality(CallsOn(c)) + 1 - 0
    BY <1>0
  <2> QED
    BY <1>2, <2>1, <2>2, <2>3, Zenon DEF One
<1>3. CASE c # pin'[p] /\ c = pin[p]
  <2>1. CallsOn(c)' = CallsOn(c) \ {p} /\ p \in CallsOn(c)
    BY <1>3 DEF CallsOn, StepOf
  <2>2. Cardinality(CallsOn(c) \ {p}) = Cardinality(CallsOn(c)) - 1
    BY <1>0, <2>1, CardStep DEF One
  <2>3. Cardinality(CallsOn(c)) - 1 = Cardinality(CallsOn(c)) + 0 - 1
    BY <1>0
  <2> QED
    BY <1>3, <2>1, <2>2, <2>3, Zenon DEF One
<1>4. CASE c # pin'[p] /\ c # pin[p]
  <2>1. CallsOn(c)' = CallsOn(c)
    BY <1>4 DEF CallsOn, StepOf
  <2>2. Cardinality(CallsOn(c)) = Cardinality(CallsOn(c)) + 0 - 0
    BY <1>0
  <2> QED
    BY <1>4, <2>1, <2>2, Zenon DEF One
<1> QED
  BY <1>1, <1>2, <1>3, <1>4, Zenon

\* A layer enters the map or leaves it.
LEMMA MapMoves ==
  ASSUME LsTypeOK, NEW x, NEW c \in Chains
  PROVE  /\ layerMap' = layerMap \cup {x} /\ x \notin layerMap =>
              Cardinality(LayersOn(c)') = Cardinality(LayersOn(c)) + One(ParentOf[x] = c)
         /\ layerMap' = layerMap \ {x} /\ x \in layerMap =>
              Cardinality(LayersOn(c)') = Cardinality(LayersOn(c)) - One(ParentOf[x] = c)
<1>0. IsFiniteSet(LayersOn(c)) /\ Cardinality(LayersOn(c)) \in Nat
  BY FiniteHolders
<1>1. CASE ParentOf[x] = c
  <2>1. layerMap' = layerMap \cup {x} /\ x \notin layerMap =>
          LayersOn(c)' = LayersOn(c) \cup {x} /\ x \notin LayersOn(c)
    BY <1>1 DEF LayersOn
  <2>2. layerMap' = layerMap \ {x} /\ x \in layerMap =>
          LayersOn(c)' = LayersOn(c) \ {x} /\ x \in LayersOn(c)
    BY <1>1 DEF LayersOn
  <2> QED
    BY <1>0, <1>1, <2>1, <2>2, CardStep DEF One
<1>2. CASE ParentOf[x] # c
  <2>1. (layerMap' = layerMap \cup {x} \/ layerMap' = layerMap \ {x}) => LayersOn(c)' = LayersOn(c)
    BY <1>2 DEF LayersOn
  <2>2. /\ Cardinality(LayersOn(c)) = Cardinality(LayersOn(c)) + 0
        /\ Cardinality(LayersOn(c)) = Cardinality(LayersOn(c)) - 0
    BY <1>0
  <2> QED
    BY <1>2, <2>1, <2>2, Zenon DEF One
<1> QED
  BY <1>1, <1>2, Zenon

\* A mount is made on a layer or is removed from it.
LEMMA MountMoves ==
  ASSUME LsTypeOK, NEW n \in MountNames, NEW c \in Chains
  PROVE  /\ mounts' = mounts \cup {n} /\ n \notin mounts /\ (\A k \in MountNames : k # n => mountParent'[k] = mountParent[k]) =>
              Cardinality(MountsOn(c)') = Cardinality(MountsOn(c)) + One(c = mountParent'[n])
         /\ mounts' = mounts \ {n} /\ n \in mounts /\ mountParent' = mountParent =>
              Cardinality(MountsOn(c)') = Cardinality(MountsOn(c)) - One(c = mountParent[n])
<1>0. IsFiniteSet(MountsOn(c)) /\ Cardinality(MountsOn(c)) \in Nat
  BY FiniteHolders
<1>1. ASSUME mounts' = mounts \cup {n}, n \notin mounts, \A k \in MountNames : k # n => mountParent'[k] = mountParent[k]
      PROVE  Cardinality(MountsOn(c)') = Cardinality(MountsOn(c)) + One(c = mountParent'[n])
  <2>1. CASE c = mountParent'[n]
    <3>1. MountsOn(c)' = MountsOn(c) \cup {n} /\ n \notin MountsOn(c)
      BY <1>1, <2>1 DEF MountsOn, LsTypeOK
    <3> QED
      BY <1>0, <2>1, <3>1, CardStep DEF One
  <2>2. CASE c # mountParent'[n]
    <3>1. MountsOn(c)' = MountsOn(c)
      BY <1>1, <2>2 DEF MountsOn, LsTypeOK
    <3>2. Cardinality(MountsOn(c)) = Cardinality(MountsOn(c)) + 0
      BY <1>0
    <3> QED
      BY <2>2, <3>1, <3>2, Zenon DEF One
  <2> QED
    BY <2>1, <2>2
<1>2. ASSUME mounts' = mounts \ {n}, n \in mounts, mountParent' = mountParent
      PROVE  Cardinality(MountsOn(c)') = Cardinality(MountsOn(c)) - One(c = mountParent[n])
  <2>1. CASE c = mountParent[n]
    <3>1. MountsOn(c)' = MountsOn(c) \ {n} /\ n \in MountsOn(c)
      BY <1>2, <2>1 DEF MountsOn, LsTypeOK
    <3> QED
      BY <1>0, <2>1, <3>1, CardStep DEF One
  <2>2. CASE c # mountParent[n]
    <3>1. MountsOn(c)' = MountsOn(c)
      BY <1>2, <2>2 DEF MountsOn, LsTypeOK
    <3>2. Cardinality(MountsOn(c)) = Cardinality(MountsOn(c)) - 0
      BY <1>0
    <3> QED
      BY <2>2, <3>1, <3>2, Zenon DEF One
  <2> QED
    BY <2>1, <2>2
<1> QED
  BY <1>1, <1>2, Zenon

\* A reference is given out or given back.
LEMMA RefMoves ==
  ASSUME LsTypeOK, NEW x \in Chains, NEW p \in LayerUsers, NEW c \in Chains
  PROVE  /\ references' = [references EXCEPT ![x] = @ \cup {p}] /\ p \notin references[x] =>
              Cardinality(references'[c]) = Cardinality(references[c]) + One(c = x)
         /\ references' = [references EXCEPT ![x] = @ \ {p}] /\ p \in references[x] =>
              Cardinality(references'[c]) = Cardinality(references[c]) - One(c = x)
<1>0. IsFiniteSet(references[c]) /\ Cardinality(references[c]) \in Nat
  BY FiniteHolders
<1>1. CASE c = x
  <2>1. references' = [references EXCEPT ![x] = @ \cup {p}] => references'[c] = references[c] \cup {p}
    BY <1>1 DEF LsTypeOK
  <2>2. references' = [references EXCEPT ![x] = @ \ {p}] => references'[c] = references[c] \ {p}
    BY <1>1 DEF LsTypeOK
  <2> QED
    BY <1>0, <1>1, <2>1, <2>2, CardStep DEF One
<1>2. CASE c # x
  <2>1. references' = [references EXCEPT ![x] = @ \cup {p}] => references'[c] = references[c]
    BY <1>2 DEF LsTypeOK
  <2>2. references' = [references EXCEPT ![x] = @ \ {p}] => references'[c] = references[c]
    BY <1>2 DEF LsTypeOK
  <2> QED
    BY <1>0, <1>2, <2>1, <2>2 DEF One
<1> QED
  BY <1>1, <1>2, Zenon
-----------------------------------------------------------------------------
(* The counts.                                                             *)

\* Such a step leaves the calls of the others what they hold: it changes the map and
\* the counts only when nobody else has layerL, the mounts only under mountL, and
\* gives out references only to p.
LEMMA OthersOK ==
  ASSUME CountInv, NEW p \in LayerUsers, StepOf(p),
         mounts' = mounts \/ mountL = p,
         (layerMap' = layerMap /\ referenceCount' = referenceCount) \/ layerL \in {p, NoLayer},
         \A c \in Chains : references'[c] \subseteq references[c] \cup {p}
  PROVE  \A q \in LayerUsers : q # p => CallOK(q)'
<1> TAKE q \in LayerUsers
<1> HAVE q # p
<1>1. CallOK(q) /\ lpc'[q] = lpc[q] /\ at'[q] = at[q] /\ pin'[q] = pin[q] /\ id'[q] = id[q]
  BY Zenon DEF CountInv, StepOf
<1>2. q # NoLayer
  BY LayerAssumption
<1>3. lpc[q] \in Releasing => layerL = q /\ layerL' = q
  BY <1>1, <1>2, Zenon DEF CallOK, StepOf
<1>4. lpc[q] \in Removing => layerMap' = layerMap /\ referenceCount' = referenceCount
  BY <1>2, <1>3 DEF Removing, Releasing
<1>5. lpc[q] \in Mounting \cup Unmounting => mountL = q /\ mountL' = q /\ mounts' = mounts
  BY <1>1, <1>2, Zenon DEF CallOK, StepOf
<1>6. lpc[q] \in Creating => at[q] \in Chains /\ q \notin references'[at[q]]
  BY <1>1, Zenon DEF CallOK, Registering
<1> QED
  BY <1>1, <1>3, <1>4, <1>5, <1>6, Zenon DEF CallOK

\* A step that leaves the map, the counts and the mounts alone.
LEMMA CountFrame ==
  ASSUME CountInv, NEW p \in LayerUsers, StepOf(p), LsTypeOK', CallOK(p)',
         UNCHANGED <<layerMap, referenceCount, references, mounts, mountParent, pin, panicked>>
  PROVE  CountInv'
<1>1. MapOK' /\ CountOK'
  <2>1. \A c : LayersOn(c)' = LayersOn(c) /\ MountsOn(c)' = MountsOn(c) /\ CallsOn(c)' = CallsOn(c)
    BY Zenon DEF LayersOn, MountsOn, CallsOn
  <2>2. MapOK /\ CountOK
    BY DEF CountInv
  <2> QED
    BY <2>1, <2>2, Zenon DEF MapOK, CountOK
<1>2. \A q \in LayerUsers : q # p => CallOK(q)'
  BY OthersOK, Zenon
<1>3. ~panicked'
  BY Zenon DEF CountInv
<1> QED
  BY <1>1, <1>2, <1>3 DEF CountInv

\* The call of p goes to w, perhaps with other locks, another layer or another name.
Goes(p, w) ==
  /\ lpc' = [lpc EXCEPT ![p] = w]
  /\ at' = at \/ \E c \in Chains \cup {NoLayer} : at' = [at EXCEPT ![p] = c]
  /\ id' = id \/ \E i \in IDs \cup MountNames \cup {NoLayer} : id' = [id EXCEPT ![p] = i]
  /\ layerL' = layerL \/ (layerL \in {p, NoLayer} /\ layerL' \in {p, NoLayer})
  /\ mountL' = mountL \/ (mountL \in {p, NoLayer} /\ mountL' \in {p, NoLayer})
  /\ UNCHANGED <<layerMap, referenceCount, references, mounts, mountParent, pin, panicked, layerLoad>>

\* That is all its steps do that begin, end, or touch the driver and the metadata only.
LEMMA Moves ==
  ASSUME CountInv, NEW p \in LayerUsers, NEW w \in LPcs, Goes(p, w), lpc'[p] = w => CallOK(p)'
  PROVE  CountInv'
<1>1. LsTypeOK
  BY DEF CountInv
<1>2. LsTypeOK'
  BY <1>1 DEF LsTypeOK, Goes
<1>3. StepOf(p) /\ lpc'[p] = w
  BY <1>1, Zenon DEF StepOf, LsTypeOK, Goes
<1> QED
  BY <1>2, <1>3, CountFrame DEF Goes

\* Register creates a layer, ...
LEMMA RegisterCreateInv == ASSUME CountInv, NEW p \in LayerUsers, RegisterCreate(p) PROVE CountInv'
<1>1. CallOK(p) /\ lpc[p] = "create" /\ layerL' = layerL /\ mountL' = mountL /\ at' = at
  BY DEF CountInv, RegisterCreate, locks
<1>2. Goes(p, "begin") \/ Goes(p, Unwound(p))
  <2>1. UnusedID # {} => Fresh \in IDs
    BY DEF Fresh, UnusedID
  <2>2. UNCHANGED <<layerMap, referenceCount, references, mounts, mountParent, pin, panicked, layerLoad>>
    BY DEF RegisterCreate, layers, mountVars
  <2>3. \/ UnusedID # {} /\ id' = [id EXCEPT ![p] = Fresh] /\ lpc' = [lpc EXCEPT ![p] = "begin"]
        \/ id' = id /\ lpc' = [lpc EXCEPT ![p] = Unwound(p)]
    BY DEF RegisterCreate, GotoL
  <2> QED
    BY <1>1, <2>1, <2>2, <2>3 DEF Goes
<1>3. ASSUME NEW w \in {"begin", Unwound(p)}, Goes(p, w), lpc'[p] = w PROVE CallOK(p)'
  BY <1>1, <1>3, Zenon DEF Goes, Unwound, CallOK, Registering, Creating, Releasing, Mounting, Mounted, Unmounting, Removing
<1>4. "begin" \in LPcs /\ Unwound(p) \in LPcs
  BY DEF LPcs, Registering, Creating, Unwound
<1> QED
  BY <1>2, <1>3, <1>4, Moves

\* ... begins the transaction, applies the tar, fails to commit, ...
LEMMA RegisterTryInv ==
  ASSUME CountInv, NEW p \in LayerUsers, RegisterBegin(p) \/ RegisterApply(p) \/ RegisterCommitError(p)
  PROVE  CountInv'
<1>1. CallOK(p)
  BY DEF CountInv
<1>2. PICK w \in {"apply", "commit", "clean", Unwound(p)} :
         Goes(p, w) /\ UNCHANGED <<layerL, mountL, at, id>> /\ lpc[p] \in Creating
  BY Zenon DEF RegisterBegin, RegisterApply, RegisterCommitError, Goes, GotoL, locks, layers, mountVars, Creating
<1>3. ASSUME lpc'[p] = w PROVE CallOK(p)'
  BY <1>1, <1>2, <1>3, Zenon DEF Goes, Unwound, CallOK, Registering, Creating, Releasing, Mounting, Mounted, Unmounting, Removing
<1>4. w \in LPcs
  BY DEF LPcs, Registering, Creating, Unwound
<1> QED
  BY <1>2, <1>3, <1>4, Moves

\* ... and cleans up.
LEMMA RegisterCleanInv == ASSUME CountInv, NEW p \in LayerUsers, RegisterClean(p) PROVE CountInv'
<1>1. CallOK(p)
  BY DEF CountInv
<1>2. Goes(p, Unwound(p)) /\ UNCHANGED <<layerL, mountL, at, id>> /\ lpc[p] = "clean"
  BY Zenon DEF RegisterClean, RegisterCleanOr, Goes, GotoL, locks, layers, mountVars
<1>3. ASSUME lpc'[p] = Unwound(p) PROVE CallOK(p)'
  BY <1>1, <1>2, <1>3 DEF Goes, Unwound, CallOK, Registering, Creating, Releasing, Mounting, Mounted, Unmounting, Removing
<1>4. Unwound(p) \in LPcs
  BY DEF LPcs, Unwound
<1> QED
  BY <1>2, <1>3, <1>4, Moves

\* The end of a call.
LEMMA ReturnInv == ASSUME CountInv, NEW p \in LayerUsers, ReturnL(p) PROVE CountInv'
<1>1. CallOK(p) /\ lpc[p] = "return"
  BY DEF CountInv, ReturnL
<1>2. Goes(p, "idle")
  BY Zenon DEF ReturnL, Goes, GotoL, layers, mountVars, hist
<1>3. ASSUME lpc'[p] = "idle" PROVE CallOK(p)'
  BY <1>1, <1>2, <1>3, Zenon DEF Goes, CallOK, Registering, Creating, Releasing, Mounting, Mounted, Unmounting, Removing
<1>4. "idle" \in LPcs
  BY DEF LPcs
<1> QED
  BY <1>2, <1>3, <1>4, Moves

\* The release of the parent begins, ...
LEMMA UnpinInv == ASSUME CountInv, NEW p \in LayerUsers, Unpin(p) PROVE CountInv'
<1>1. CallOK(p) /\ lpc[p] = "unpin" /\ layerL' = p
  BY DEF CountInv, Unpin
<1>2. Goes(p, "release")
  BY DEF Unpin, Goes, GotoL, layers, mountVars, hist
<1>3. ASSUME lpc'[p] = "release" PROVE CallOK(p)'
  BY <1>1, <1>2, <1>3, Zenon DEF Goes, CallOK, Registering, Creating, Releasing, Mounting, Mounted, Unmounting, Removing
<1>4. "release" \in LPcs
  BY DEF LPcs, Releasing
<1> QED
  BY <1>2, <1>3, <1>4, Moves

\* ... and the driver removes a layer.
LEMMA ReleaseRemoveInv == ASSUME CountInv, NEW p \in LayerUsers, ReleaseRemove(p) PROVE CountInv'
<1>1. CallOK(p) /\ lpc[p] = "remove"
  BY DEF CountInv, ReleaseRemove
<1>2. PICK w \in {"forget", "return"} : Goes(p, w) /\ UNCHANGED <<layerL, mountL, at, id>>
  BY Zenon DEF ReleaseRemove, Goes, GotoL, locks, layers, mountVars
<1>3. ASSUME lpc'[p] = w PROVE CallOK(p)'
  BY <1>1, <1>2, <1>3, Zenon DEF Goes, CallOK, Registering, Creating, Releasing, Mounting, Mounted, Unmounting, Removing
<1>4. w \in LPcs
  BY DEF LPcs, Releasing
<1> QED
  BY <1>2, <1>3, <1>4, Moves

\* The parts of a mount are created ...
LEMMA MountCreateInv == ASSUME CountInv, NEW p \in LayerUsers, MountInit(p) \/ MountRW(p) PROVE CountInv'
<1>1. CallOK(p) /\ lpc[p] \in {"mountInit", "mountRW"}
  BY Zenon DEF CountInv, MountInit, MountRW, MountCreate
<1>2. PICK w \in {"mountRW", "mountSave", Unwound(p)} : Goes(p, w) /\ UNCHANGED <<layerL, mountL, at, id>>
  BY Zenon DEF MountInit, MountRW, MountCreate, Goes, GotoL, locks, layers, mountVars
<1>3. ASSUME lpc'[p] = w PROVE CallOK(p)'
  BY <1>1, <1>2, <1>3, Zenon DEF Goes, Unwound, CallOK, Registering, Creating, Releasing, Mounting, Mounted, Unmounting, Removing
<1>4. w \in LPcs
  BY DEF LPcs, Unwound, Mounting, Mounted
<1> QED
  BY <1>2, <1>3, <1>4, Moves

\* ... and removed.
LEMMA UnmountPartInv == ASSUME CountInv, NEW p \in LayerUsers, UnmountRW(p) \/ UnmountInit(p) PROVE CountInv'
<1>1. CallOK(p) /\ lpc[p] \in {"unmountRW", "unmountInit"}
  BY Zenon DEF CountInv, UnmountRW, UnmountInit, UnmountPart
<1>2. PICK w \in {"unmountInit", "unmountMeta", "return"} : Goes(p, w) /\ UNCHANGED <<layerL, mountL, at, id>>
  BY Zenon DEF UnmountRW, UnmountInit, UnmountPart, Goes, GotoL, locks, layers
<1>3. ASSUME lpc'[p] = w PROVE CallOK(p)'
  BY <1>1, <1>2, <1>3, Zenon DEF Goes, CallOK, Registering, Creating, Releasing, Mounting, Mounted, Unmounting, Removing
<1>4. w \in LPcs
  BY DEF LPcs, Unmounting
<1> QED
  BY <1>2, <1>3, <1>4, Moves

\* A mount is asked for, ...
LEMMA GetRWInv == ASSUME CountInv, NEW p \in LayerUsers, NEW n \in MountNames, GetRWLayer(p, n) PROVE CountInv'
<1>1. UNCHANGED <<layerL, mountL, lpc, at, id, layerMap, referenceCount, references, mounts, mountParent,
                  pin, panicked, layerLoad>>
  BY DEF GetRWLayer, locks, layers, procs, hist
<1>2. LsTypeOK' /\ StepOf(p) /\ CallOK(p)'
  BY <1>1, Zenon DEF CountInv, LsTypeOK, StepOf, CallOK
<1> QED
  BY <1>1, <1>2, CountFrame

\* ... given back, ...
LEMMA ReleaseRWInv == ASSUME CountInv, NEW p \in LayerUsers, NEW n \in MountNames, ReleaseRWLayer(p, n) PROVE CountInv'
<1>1. CallOK(p) /\ lpc[p] = "idle" /\ n \in mounts
  BY DEF CountInv, ReleaseRWLayer
<1>2. CASE mountRefs[n] = {p}
  <2>1. Goes(p, "unmountRW") /\ mountL' = p /\ id' = [id EXCEPT ![p] = n]
    BY <1>2, Zenon DEF ReleaseRWLayer, Goes, GotoL, layers, hist
  <2>2. id'[p] = n
    BY <2>1 DEF CountInv, LsTypeOK
  <2>3. ASSUME lpc'[p] = "unmountRW" PROVE CallOK(p)'
    BY <1>1, <2>1, <2>2, <2>3 DEF Goes, CallOK, Registering, Creating, Releasing, Mounting, Mounted, Unmounting, Removing
  <2>4. "unmountRW" \in LPcs
    BY DEF LPcs, Unmounting
  <2> QED
    BY <2>1, <2>3, <2>4, Moves
<1>3. CASE mountRefs[n] # {p}
  <2>1. UNCHANGED <<layerL, mountL, lpc, at, id, layerMap, referenceCount, references, mounts, mountParent,
                    pin, panicked, layerLoad>>
    BY <1>3 DEF ReleaseRWLayer, layers, hist
  <2>2. LsTypeOK' /\ StepOf(p) /\ CallOK(p)'
    BY <2>1, Zenon DEF CountInv, LsTypeOK, StepOf, CallOK
  <2> QED
    BY <2>1, <2>2, CountFrame
<1> QED
  BY <1>2, <1>3

\* ... or begun.
LEMMA MountStartInv ==
  ASSUME CountInv, NEW p \in LayerUsers, NEW n \in MountNames, NEW c \in Chains \cup {NoLayer}, MountStart(p, n, c)
  PROVE  CountInv'
<1>1. CallOK(p) /\ lpc[p] = "idle" /\ n \notin mounts /\ mountL' = p /\ id' = [id EXCEPT ![p] = n]
  BY DEF CountInv, MountStart
<1>2. Goes(p, "mount")
  BY Zenon DEF MountStart, Goes, GotoL, layers, mountVars, hist
<1>3. id'[p] = n
  BY <1>1 DEF CountInv, LsTypeOK
<1>4. ASSUME lpc'[p] = "mount" PROVE CallOK(p)'
  BY <1>1, <1>2, <1>3, <1>4 DEF Goes, CallOK, Registering, Creating, Releasing, Mounting, Mounted, Unmounting, Removing
<1>5. "mount" \in LPcs
  BY DEF LPcs, Mounting
<1> QED
  BY <1>2, <1>4, <1>5, Moves

\* The count of a layer and its holders.
LEMMA CountAt ==
  ASSUME CountInv, NEW c \in Chains
  PROVE  /\ Cardinality(references[c]) \in Nat /\ Cardinality(LayersOn(c)) \in Nat
         /\ Cardinality(MountsOn(c)) \in Nat /\ Cardinality(CallsOn(c)) \in Nat
         /\ referenceCount[c] = Cardinality(references[c]) + Cardinality(LayersOn(c))
                                + Cardinality(MountsOn(c)) + Cardinality(CallsOn(c))
<1>1. LsTypeOK /\ CountOK
  BY DEF CountInv
<1> QED
  BY <1>1, FiniteHolders DEF CountOK

\* A holder of a kind that does not change.
LEMMA SameHolders ==
  ASSUME CountInv, NEW c \in Chains
  PROVE  /\ references'[c] = references[c] => Cardinality(references'[c]) = Cardinality(references[c]) + 0
         /\ layerMap' = layerMap => Cardinality(LayersOn(c)') = Cardinality(LayersOn(c)) + 0
         /\ mounts' = mounts /\ mountParent' = mountParent =>
              Cardinality(MountsOn(c)') = Cardinality(MountsOn(c)) + 0
         /\ pin' = pin => Cardinality(CallsOn(c)') = Cardinality(CallsOn(c)) + 0
<1>1. /\ Cardinality(references[c]) = Cardinality(references[c]) + 0
      /\ Cardinality(LayersOn(c)) = Cardinality(LayersOn(c)) + 0
      /\ Cardinality(MountsOn(c)) = Cardinality(MountsOn(c)) + 0
      /\ Cardinality(CallsOn(c)) = Cardinality(CallsOn(c)) + 0
  BY FiniteHolders DEF CountInv
<1>2. /\ layerMap' = layerMap => LayersOn(c)' = LayersOn(c)
      /\ mounts' = mounts /\ mountParent' = mountParent => MountsOn(c)' = MountsOn(c)
      /\ pin' = pin => CallsOn(c)' = CallsOn(c)
  BY Zenon DEF LayersOn, MountsOn, CallsOn
<1> QED
  BY <1>1, <1>2, Zenon

\* Get, and Register when another process was first: one more reference.
LEMMA GiveReference ==
  ASSUME CountInv, NEW p \in LayerUsers, NEW x \in Chains, x \in layerMap, p \notin references[x],
         layerL = NoLayer, StepOf(p), LsTypeOK', CallOK(p)',
         referenceCount' = [referenceCount EXCEPT ![x] = @ + 1],
         references' = [references EXCEPT ![x] = @ \cup {p}],
         UNCHANGED <<layerMap, mounts, mountParent, pin, panicked>>
  PROVE  CountInv'
<1>0. LsTypeOK /\ MapOK
  BY DEF CountInv
<1>1. MapOK'
  BY <1>0, Zenon DEF MapOK, LsTypeOK
<1>2. ASSUME NEW c \in Chains
      PROVE  referenceCount'[c] = Cardinality(references'[c]) + Cardinality(LayersOn(c)')
                                  + Cardinality(MountsOn(c)') + Cardinality(CallsOn(c)')
  <2>1. /\ Cardinality(references'[c]) = Cardinality(references[c]) + One(c = x)
        /\ Cardinality(LayersOn(c)') = Cardinality(LayersOn(c)) + 0
        /\ Cardinality(MountsOn(c)') = Cardinality(MountsOn(c)) + 0
        /\ Cardinality(CallsOn(c)') = Cardinality(CallsOn(c)) + 0
    BY <1>0, RefMoves, SameHolders, Zenon
  <2>2. One(c = x) \in Int /\ referenceCount'[c] = referenceCount[c] + One(c = x)
    BY <1>0 DEF One, LsTypeOK
  <2> QED
    BY <2>1, <2>2, CountAt
<1>3. CountOK'
  BY <1>2 DEF CountOK
<1>4. \A q \in LayerUsers : q # p => CallOK(q)'
  <2>1. \A c \in Chains : references'[c] \subseteq references[c] \cup {p}
    BY <1>0, Zenon DEF LsTypeOK
  <2> QED
    BY <2>1, OthersOK, Zenon
<1>5. ~panicked'
  BY Zenon DEF CountInv
<1> QED
  BY <1>1, <1>3, <1>4, <1>5 DEF CountInv

\* Get, and Register when another process was first.
LEMMA ReferenceInv ==
  ASSUME CountInv, NEW p \in LayerUsers, NEW x \in Chains, GetLayer(p, x) \/ RegisterExisting(p)
  PROVE  CountInv'
<1>0. LsTypeOK /\ CallOK(p)
  BY DEF CountInv
<1>1. CASE GetLayer(p, x)
  <2>1. /\ x \in layerMap /\ p \notin references[x] /\ layerL = NoLayer /\ lpc[p] = "idle"
        /\ referenceCount' = [referenceCount EXCEPT ![x] = @ + 1]
        /\ references' = [references EXCEPT ![x] = @ \cup {p}]
        /\ UNCHANGED <<layerL, mountL, layerMap, mounts, mountParent, lpc, at, pin, id, panicked, layerLoad>>
    BY <1>1, Zenon DEF GetLayer, locks, mountVars, procs, hist
  <2>2. LsTypeOK' /\ StepOf(p)
    BY <1>0, <2>1 DEF LsTypeOK, StepOf
  <2>3. CallOK(p)'
    BY <1>0, <2>1, Zenon DEF CallOK, Registering, Creating, Releasing, Mounting, Mounted, Unmounting, Removing
  <2> QED
    BY <2>1, <2>2, <2>3, GiveReference, Zenon
<1>2. CASE RegisterExisting(p)
  <2> DEFINE c == at[p]
  <2>1. /\ c \in layerMap /\ layerL = NoLayer /\ lpc[p] = "commit"
        /\ referenceCount' = [referenceCount EXCEPT ![c] = @ + 1]
        /\ references' = [references EXCEPT ![c] = @ \cup {p}]
        /\ lpc' = [lpc EXCEPT ![p] = "clean"]
        /\ UNCHANGED <<layerL, mountL, layerMap, mounts, mountParent, at, pin, id, panicked, layerLoad>>
    BY <1>2, Zenon DEF RegisterExisting, GotoL, locks, mountVars, hist
  <2>2. c \in Chains /\ p \notin references[c]
    BY <1>0, <2>1, Zenon DEF CallOK, Registering, Creating
  <2>3. LsTypeOK' /\ StepOf(p) /\ lpc'[p] = "clean"
    BY <1>0, <2>1, <2>2 DEF LsTypeOK, StepOf, LPcs, Registering
  <2>4. CallOK(p)'
    BY <1>0, <2>1, <2>3, Zenon DEF CallOK, Registering, Creating, Releasing, Mounting, Mounted, Unmounting, Removing
  <2> HIDE DEF c
  <2> QED
    BY <2>1, <2>2, <2>3, <2>4, GiveReference, Zenon
<1> QED
  BY <1>1, <1>2

\* The parent of a new layer or of a mount is counted up for the call.
LEMMA TakePin ==
  ASSUME CountInv, NEW p \in LayerUsers, NEW x \in Chains, x \in layerMap, pin[p] = NoLayer,
         layerL = NoLayer, StepOf(p), LsTypeOK', CallOK(p)',
         referenceCount' = [referenceCount EXCEPT ![x] = @ + 1],
         pin' = [pin EXCEPT ![p] = x],
         UNCHANGED <<layerMap, references, mounts, mountParent, panicked>>
  PROVE  CountInv'
<1>0. LsTypeOK /\ MapOK
  BY DEF CountInv
<1>1. MapOK'
  BY <1>0, ZenonT(30) DEF MapOK, LsTypeOK
<1>2. ASSUME NEW c \in Chains
      PROVE  referenceCount'[c] = Cardinality(references'[c]) + Cardinality(LayersOn(c)')
                                  + Cardinality(MountsOn(c)') + Cardinality(CallsOn(c)')
  <2>1. /\ Cardinality(references'[c]) = Cardinality(references[c]) + 0
        /\ Cardinality(LayersOn(c)') = Cardinality(LayersOn(c)) + 0
        /\ Cardinality(MountsOn(c)') = Cardinality(MountsOn(c)) + 0
    <3>1. references'[c] = references[c]
      OBVIOUS
    <3> QED
      BY <3>1, SameHolders, Zenon
  <2>2. Cardinality(CallsOn(c)') = Cardinality(CallsOn(c)) + One(c = pin'[p]) - One(c = pin[p])
    BY <1>0, CallMoves, Zenon
  <2>3. /\ One(c = pin'[p]) \in Int /\ One(c = pin[p]) = 0
        /\ referenceCount'[c] = referenceCount[c] + One(c = pin'[p])
    <3>1. c # NoLayer /\ pin'[p] = x
      BY <1>0, LayerAssumption DEF LsTypeOK
    <3> QED
      BY <1>0, <3>1 DEF One, LsTypeOK
  <2> QED
    BY <2>1, <2>2, <2>3, CountAt
<1>3. CountOK'
  BY <1>2 DEF CountOK
<1>4. \A q \in LayerUsers : q # p => CallOK(q)'
  BY OthersOK
<1>5. ~panicked'
  BY Zenon DEF CountInv
<1> QED
  BY <1>1, <1>3, <1>4, <1>5 DEF CountInv

\* Register begins.
LEMMA RegisterStartInv ==
  ASSUME CountInv, NEW p \in LayerUsers, NEW x \in Chains, RegisterStart(p, x) PROVE CountInv'
<1>0. LsTypeOK /\ CallOK(p)
  BY DEF CountInv
<1>1. /\ lpc[p] = "idle" /\ layerL = NoLayer /\ p \notin references[x] /\ pin[p] = NoLayer
      /\ at' = [at EXCEPT ![p] = x]
      /\ UNCHANGED <<layerL, mountL, layerMap, references, mounts, mountParent, id, panicked, layerLoad>>
  BY <1>0, Zenon DEF RegisterStart, CallOK, locks, mountVars, hist
<1>2. CASE ParentOf[x] = NoLayer
  <2>1. lpc' = [lpc EXCEPT ![p] = "create"] /\ UNCHANGED <<referenceCount, pin>>
    BY <1>2 DEF RegisterStart, GotoL
  <2>2. LsTypeOK' /\ StepOf(p) /\ lpc'[p] = "create" /\ at'[p] = x
    BY <1>0, <1>1, <2>1, Zenon DEF LsTypeOK, StepOf, LPcs, Registering, Creating
  <2>3. CallOK(p)'
    BY <1>0, <1>1, <1>2, <2>1, <2>2, Zenon DEF CallOK, Registering, Creating, Releasing, Mounting, Mounted, Unmounting, Removing
  <2> QED
    BY <1>1, <2>1, <2>2, <2>3, CountFrame
<1>3. CASE ParentOf[x] # NoLayer
  <2> DEFINE y == ParentOf[x]
  <2>1. /\ y \in layerMap /\ pin' = [pin EXCEPT ![p] = y]
        /\ referenceCount' = [referenceCount EXCEPT ![y] = @ + 1]
        /\ \E w \in {"create", "unpin"} : lpc' = [lpc EXCEPT ![p] = w]
    BY <1>3, Zenon DEF RegisterStart, GotoL, Retain
  <2>2. y \in Chains
    BY <1>3, LayerAssumption
  <2>3. /\ LsTypeOK' /\ StepOf(p) /\ lpc'[p] \in {"create", "unpin"} /\ at'[p] = x /\ pin'[p] = y
    BY <1>0, <1>1, <2>1, <2>2 DEF LsTypeOK, StepOf, LPcs, Registering, Creating
  <2>4. CallOK(p)'
    BY <1>0, <1>1, <1>3, <2>3, Zenon DEF CallOK, Registering, Creating, Releasing, Mounting, Mounted, Unmounting, Removing
  <2> HIDE DEF y
  <2> QED
    BY <1>1, <2>1, <2>2, <2>3, <2>4, TakePin, Zenon
<1> QED
  BY <1>2, <1>3

\* CreateRWLayer retains the parent.
LEMMA MountParentInv == ASSUME CountInv, NEW p \in LayerUsers, MountParent(p) PROVE CountInv'
<1>0. LsTypeOK /\ CallOK(p)
  BY DEF CountInv
<1> DEFINE x == at[p]
<1>1. /\ lpc[p] = "mount" /\ layerL = NoLayer /\ pin[p] = NoLayer
      /\ UNCHANGED <<layerL, mountL, layerMap, references, mounts, mountParent, at, id, panicked, layerLoad>>
  BY <1>0, Zenon DEF MountParent, CallOK, locks, mountVars, hist
<1>2. CASE x \in layerMap
  <2>1. /\ lpc' = [lpc EXCEPT ![p] = "mountInit"] /\ pin' = [pin EXCEPT ![p] = x]
        /\ referenceCount' = [referenceCount EXCEPT ![x] = @ + 1]
    BY <1>2, Zenon DEF MountParent, GotoL, Retain
  <2>2. x \in Chains
    BY <1>0, <1>2 DEF LsTypeOK
  <2>3. /\ LsTypeOK' /\ StepOf(p) /\ lpc'[p] = "mountInit" /\ pin'[p] = x
    BY <1>0, <1>1, <2>1, <2>2 DEF LsTypeOK, StepOf, LPcs, Mounting, Mounted
  <2>4. CallOK(p)'
    BY <1>0, <1>1, <2>3, Zenon DEF CallOK, Registering, Creating, Releasing, Mounting, Mounted, Unmounting, Removing
  <2> HIDE DEF x
  <2> QED
    BY <1>1, <1>2, <2>1, <2>2, <2>3, <2>4, TakePin, Zenon
<1>3. CASE x \notin layerMap
  <2>1. /\ UNCHANGED <<referenceCount, pin>>
        /\ \/ x = NoLayer /\ lpc' = [lpc EXCEPT ![p] = "mountInit"]
           \/ lpc' = [lpc EXCEPT ![p] = "return"]
    BY <1>3, Zenon DEF MountParent, GotoL
  <2>2. /\ LsTypeOK' /\ StepOf(p)
        /\ (lpc'[p] = "mountInit" /\ x = NoLayer) \/ lpc'[p] = "return"
    BY <1>0, <1>1, <2>1, Zenon DEF LsTypeOK, StepOf, LPcs, Mounting, Mounted
  <2>3. CallOK(p)'
    BY <1>0, <1>1, <2>1, <2>2, Zenon DEF CallOK, Registering, Creating, Releasing, Mounting, Mounted, Unmounting, Removing
  <2> QED
    BY <1>1, <2>1, <2>2, <2>3, CountFrame, Zenon
<1> QED
  BY <1>2, <1>3

\* What remains to be shown of a step that changes counts.
LEMMA CountStep ==
  ASSUME CountInv, NEW p \in LayerUsers, StepOf(p), LsTypeOK', CallOK(p)', MapOK', ~panicked',
         mounts' = mounts \/ mountL = p,
         (layerMap' = layerMap /\ referenceCount' = referenceCount) \/ layerL \in {p, NoLayer},
         \A c \in Chains : references'[c] \subseteq references[c] \cup {p},
         \A c \in Chains : referenceCount'[c] = Cardinality(references'[c]) + Cardinality(LayersOn(c)')
                                                + Cardinality(MountsOn(c)') + Cardinality(CallsOn(c)')
  PROVE  CountInv'
<1>1. CountOK'
  BY DEF CountOK
<1>2. \A q \in LayerUsers : q # p => CallOK(q)'
  BY OthersOK, Zenon
<1> QED
  BY <1>1, <1>2, ZenonT(30) DEF CountInv

\* A layer without holders has the count zero, and the other way round.
LEMMA ZeroCount ==
  ASSUME CountInv, NEW c \in Chains
  PROVE  /\ referenceCount[c] = 0 <=> Pins(c) = {}
         /\ referenceCount[c] = 0 <=> /\ references[c] = {} /\ LayersOn(c) = {}
                                      /\ MountsOn(c) = {} /\ CallsOn(c) = {}
<1>1. LsTypeOK
  BY DEF CountInv
<1>2. /\ Cardinality(references[c]) = 0 <=> references[c] = {}
      /\ Cardinality(LayersOn(c)) = 0 <=> LayersOn(c) = {}
      /\ Cardinality(MountsOn(c)) = 0 <=> MountsOn(c) = {}
      /\ Cardinality(CallsOn(c)) = 0 <=> CallsOn(c) = {}
  BY <1>1, FiniteHolders, FS_EmptySet
<1>3. referenceCount[c] = 0 <=> /\ references[c] = {} /\ LayersOn(c) = {}
                                /\ MountsOn(c) = {} /\ CallsOn(c) = {}
  <2>0. /\ Cardinality(references[c]) \in Nat /\ Cardinality(LayersOn(c)) \in Nat
        /\ Cardinality(MountsOn(c)) \in Nat /\ Cardinality(CallsOn(c)) \in Nat
        /\ referenceCount[c] = Cardinality(references[c]) + Cardinality(LayersOn(c))
                               + Cardinality(MountsOn(c)) + Cardinality(CallsOn(c))
    BY CountAt, Zenon
  <2> DEFINE r == Cardinality(references[c])
             l == Cardinality(LayersOn(c))
             m == Cardinality(MountsOn(c))
             k == Cardinality(CallsOn(c))
  <2>1. r + l + m + k = 0 <=> r = 0 /\ l = 0 /\ m = 0 /\ k = 0
    <3> HIDE DEF r, l, m, k
    <3>1. r \in Nat /\ l \in Nat /\ m \in Nat /\ k \in Nat
      BY <2>0 DEF r, l, m, k
    <3> QED
      BY <3>1
  <2>2. referenceCount[c] = 0 <=> /\ Cardinality(references[c]) = 0 /\ Cardinality(LayersOn(c)) = 0
                                  /\ Cardinality(MountsOn(c)) = 0 /\ Cardinality(CallsOn(c)) = 0
    BY <2>0, <2>1, Zenon
  <2> QED
    BY <1>2, <2>2, Zenon
<1> QED
  BY <1>1, <1>3, PinsCount

\* Release: the reference becomes a pin of the call.
LEMMA ReleaseInv ==
  ASSUME CountInv, NEW p \in LayerUsers, NEW x \in Chains, Release(p, x) PROVE CountInv'
<1>0. LsTypeOK /\ CallOK(p) /\ MapOK
  BY DEF CountInv
<1>1. /\ lpc[p] = "idle" /\ layerL = NoLayer /\ x \in layerMap /\ p \in references[x] /\ pin[p] = NoLayer
      /\ references' = [references EXCEPT ![x] = @ \ {p}] /\ layerL' = p
      /\ pin' = [pin EXCEPT ![p] = x] /\ lpc' = [lpc EXCEPT ![p] = "release"]
      /\ UNCHANGED <<mountL, layerMap, referenceCount, mounts, mountParent, at, id, panicked, layerLoad>>
  BY <1>0, Zenon DEF Release, CallOK, GotoL, mountVars, hist
<1>2. LsTypeOK' /\ StepOf(p) /\ lpc'[p] = "release" /\ pin'[p] = x
  BY <1>0, <1>1, Zenon DEF LsTypeOK, StepOf, LPcs, Releasing
<1>3. x # NoLayer
  BY LayerAssumption
<1>4. CallOK(p)'
  BY <1>0, <1>1, <1>2, <1>3, Zenon DEF CallOK, Registering, Creating, Releasing, Mounting, Mounted, Unmounting, Removing
<1>5. MapOK'
  BY <1>0, <1>1, Zenon DEF MapOK, LsTypeOK
<1>6. \A c \in Chains : references'[c] \subseteq references[c] \cup {p}
  BY <1>0, <1>1, ZenonT(30) DEF LsTypeOK
<1>7. ASSUME NEW c \in Chains
      PROVE  referenceCount'[c] = Cardinality(references'[c]) + Cardinality(LayersOn(c)')
                                  + Cardinality(MountsOn(c)') + Cardinality(CallsOn(c)')
  <2>1. Cardinality(references'[c]) = Cardinality(references[c]) - One(c = x)
    <3>1. references' = [references EXCEPT ![x] = @ \ {p}] /\ p \in references[x]
      BY <1>1
    <3> QED
      BY <1>0, <3>1, RefMoves, ZenonT(30)
  <2>2. /\ Cardinality(LayersOn(c)') = Cardinality(LayersOn(c)) + 0
        /\ Cardinality(MountsOn(c)') = Cardinality(MountsOn(c)) + 0
    BY <1>1, SameHolders, Zenon
  <2>3. Cardinality(CallsOn(c)') = Cardinality(CallsOn(c)) + One(c = x) - One(c = NoLayer)
    BY <1>0, <1>1, <1>2, CallMoves
  <2>4. One(c = x) \in Int /\ One(c = NoLayer) = 0
    BY LayerAssumption DEF One
  <2> QED
    BY <1>1, <2>1, <2>2, <2>3, <2>4, CountAt
<1>8. ~panicked'
  BY <1>1, Zenon DEF CountInv
<1> QED
  BY <1>1, <1>2, <1>4, <1>5, <1>6, <1>7, <1>8, CountStep

\* When the call is the only holder there is no reference.
LEMMA LastCall ==
  ASSUME CountInv, NEW p \in LayerUsers, NEW x \in Chains, pin[p] = x, referenceCount[x] = 1
  PROVE  references[x] = {}
<1> DEFINE r == Cardinality(references[x])
           l == Cardinality(LayersOn(x))
           m == Cardinality(MountsOn(x))
           k == Cardinality(CallsOn(x))
<1>1. LsTypeOK
  BY DEF CountInv
<1>2. IsFiniteSet(references[x]) /\ IsFiniteSet(CallsOn(x)) /\ p \in CallsOn(x)
  BY <1>1, FiniteHolders DEF CallsOn
<1>3. k # 0
  BY <1>2, FS_EmptySet
<1>4. r \in Nat /\ l \in Nat /\ m \in Nat /\ k \in Nat /\ 1 = r + l + m + k
  BY CountAt, Zenon
<1>5. r = 0
  <2> HIDE DEF r, l, m, k
  <2> QED
    BY <1>3, <1>4
<1> QED
  BY <1>2, <1>5, FS_EmptySet

\* releaseLayer counts down what the call has counted up; it does not panic.
LEMMA ReleaseCountInv == ASSUME CountInv, NEW p \in LayerUsers, ReleaseCount(p) PROVE CountInv'
<1>0. LsTypeOK /\ CallOK(p) /\ MapOK
  BY DEF CountInv
<1> DEFINE x == pin[p]
<1>1. lpc[p] = "release" /\ layerL = p /\ x \in Chains /\ x # NoLayer /\ x \in layerMap
  BY <1>0, Zenon DEF ReleaseCount, CallOK, Releasing, LsTypeOK, MapOK
<1>2. referenceCount[x] # 0 /\ referenceCount[x] \in Nat
  <2>1. CallsOn(x) # {}
    BY <1>1 DEF CallsOn
  <2> QED
    BY <1>0, <1>1, <2>1, ZeroCount DEF LsTypeOK
<1>3. referenceCount[x] = 1 => references[x] = {}
  BY <1>1, LastCall
<1>4. /\ referenceCount' = [referenceCount EXCEPT ![x] = @ - 1] /\ pin' = [pin EXCEPT ![p] = NoLayer]
      /\ UNCHANGED <<layerL, mountL, layerMap, references, mounts, mountParent, id, layerLoad>>
  BY <1>2, Zenon DEF ReleaseCount, locks, mountVars
<1>5. /\ ~panicked'
      /\ \/ lpc' = [lpc EXCEPT ![p] = "return"] /\ at' = at
         \/ /\ referenceCount[x] = 1 /\ lpc' = [lpc EXCEPT ![p] = "remove"] /\ at' = [at EXCEPT ![p] = x]
  <2>1. CASE referenceCount[x] > 1
    <3>1. panicked' = panicked
      BY <1>2, <2>1 DEF ReleaseCount
    <3>2. ~panicked'
      BY <3>1, Zenon DEF CountInv
    <3> QED
      BY <1>2, <2>1, <3>2, ZenonT(30) DEF ReleaseCount, GotoL
  <2>2. CASE referenceCount[x] = 1
    <3>1. references[x] = {} /\ ~(referenceCount[x] > 1)
      BY <1>3, <2>2
    <3>2. /\ panicked' = (references[x] # {}) /\ at' = [at EXCEPT ![p] = x]
          /\ lpc' = [lpc EXCEPT ![p] = IF references[x] # {} THEN "return" ELSE "remove"]
      BY <1>2, <2>2, <3>1 DEF ReleaseCount, GotoL
    <3>3. ~panicked'
      BY <3>1, <3>2, Zenon
    <3>4. lpc' = [lpc EXCEPT ![p] = "remove"]
      BY <3>1, <3>2, Zenon
    <3> QED
      BY <2>2, <3>2, <3>3, <3>4, ZenonT(30)
  <2> QED
    BY <1>2, <2>1, <2>2
<1>6. referenceCount[x] - 1 \in Nat
  BY <1>2
<1> HIDE DEF x
<1>7. LsTypeOK'
  BY <1>0, <1>1, <1>4, <1>5, <1>6 DEF LsTypeOK, LPcs, Releasing
<1>8. /\ StepOf(p) /\ pin'[p] = NoLayer /\ referenceCount'[x] = referenceCount[x] - 1
      /\ lpc'[p] = "return" \/ (lpc'[p] = "remove" /\ at'[p] = x /\ referenceCount[x] = 1)
  BY <1>0, <1>1, <1>4, <1>5 DEF LsTypeOK, StepOf
<1>9. CallOK(p)'
  <2>1. /\ lpc'[p] \in {"return", "remove"} /\ layerL' = p
        /\ lpc'[p] = "remove" => at'[p] \in layerMap' /\ referenceCount'[at'[p]] = 0
    BY <1>1, <1>4, <1>8
  <2> QED
    BY <1>8, <2>1, ZenonT(30) DEF CallOK, Registering, Creating, Releasing, Mounting, Mounted, Unmounting, Removing
<1>10. MapOK'
  BY <1>0, <1>4, ZenonT(30) DEF MapOK, LsTypeOK
<1>11. ASSUME NEW c \in Chains
      PROVE  referenceCount'[c] = Cardinality(references'[c]) + Cardinality(LayersOn(c)')
                                  + Cardinality(MountsOn(c)') + Cardinality(CallsOn(c)')
  <2>1. /\ Cardinality(references'[c]) = Cardinality(references[c]) + 0
        /\ Cardinality(LayersOn(c)') = Cardinality(LayersOn(c)) + 0
        /\ Cardinality(MountsOn(c)') = Cardinality(MountsOn(c)) + 0
    BY <1>4, SameHolders
  <2>2. Cardinality(CallsOn(c)') = Cardinality(CallsOn(c)) + One(c = NoLayer) - One(c = x)
    BY <1>0, <1>8, CallMoves, Zenon DEF x
  <2>3. /\ One(c = x) \in Int /\ One(c = NoLayer) = 0 /\ referenceCount'[c] = referenceCount[c] - One(c = x)
    <3>1. c # NoLayer /\ referenceCount[c] \in Nat
      BY <1>0, LayerAssumption DEF LsTypeOK
    <3> QED
      BY <1>0, <1>4, <3>1 DEF One, LsTypeOK
  <2>4. /\ Cardinality(references[c]) \in Nat /\ Cardinality(LayersOn(c)) \in Nat
        /\ Cardinality(MountsOn(c)) \in Nat /\ Cardinality(CallsOn(c)) \in Nat
        /\ referenceCount[c] = Cardinality(references[c]) + Cardinality(LayersOn(c))
                               + Cardinality(MountsOn(c)) + Cardinality(CallsOn(c))
    BY CountAt, ZenonT(30)
  <2> QED
    BY <2>1, <2>2, <2>3, <2>4
<1>12. \A c \in Chains : references'[c] \subseteq references[c] \cup {p}
  BY <1>4
<1> QED
  BY <1>1, <1>4, <1>5, <1>7, <1>8, <1>9, <1>10, <1>11, <1>12, CountStep

\* Register enters the new layer: the pin of its parent goes from the call to the layer.
LEMMA RegisterCommitInv == ASSUME CountInv, NEW p \in LayerUsers, RegisterCommit(p) PROVE CountInv'
<1>0. LsTypeOK /\ CallOK(p) /\ MapOK
  BY DEF CountInv
<1> DEFINE c == at[p]
<1>1. /\ lpc[p] = "commit" /\ layerL = NoLayer /\ c \notin layerMap
      /\ layerMap' = layerMap \cup {c} /\ pin' = [pin EXCEPT ![p] = NoLayer]
      /\ referenceCount' = [referenceCount EXCEPT ![c] = 1]
      /\ references' = [references EXCEPT ![c] = {p}]
      /\ lpc' = [lpc EXCEPT ![p] = "return"]
      /\ UNCHANGED <<layerL, mountL, mounts, mountParent, at, id, panicked, layerLoad>>
  BY Zenon DEF RegisterCommit, EnterLayer, GotoL, locks, mountVars
<1>2. c \in Chains /\ pin[p] = ParentOf[c] /\ p \notin references[c]
  BY <1>0, <1>1, Zenon DEF CallOK, Registering, Creating
<1> HIDE DEF c
<1>3. referenceCount[c] = 0 /\ references[c] = {} /\ ParentOf[c] # c
  <2>1. c # NoLayer
    BY <1>2, LayerAssumption
  <2>2. references[c] = {} /\ LayersOn(c) = {} /\ MountsOn(c) = {} /\ CallsOn(c) = {}
    BY <1>0, <1>1, <1>2, <2>1 DEF MapOK, LayersOn, MountsOn, CallsOn
  <2>3. ParentOf[c] # c
    BY <1>0, <1>1, <1>2, <2>1 DEF MapOK
  <2> QED
    BY <1>2, <2>2, <2>3, ZeroCount
<1>4. /\ referenceCount' = [referenceCount EXCEPT ![c] = @ + 1]
      /\ references' = [references EXCEPT ![c] = @ \cup {p}]
  BY <1>1, <1>3
<1>5. LsTypeOK' /\ StepOf(p) /\ lpc'[p] = "return" /\ pin'[p] = NoLayer
  BY <1>0, <1>1, <1>2 DEF LsTypeOK, StepOf, LPcs
<1>6. CallOK(p)'
  BY <1>5 DEF CallOK, Registering, Creating, Releasing, Mounting, Mounted, Unmounting, Removing
<1>7. MapOK'
  BY <1>0, <1>1, <1>2, ZenonT(30) DEF MapOK, LsTypeOK
<1>8. ASSUME NEW d \in Chains
      PROVE  referenceCount'[d] = Cardinality(references'[d]) + Cardinality(LayersOn(d)')
                                  + Cardinality(MountsOn(d)') + Cardinality(CallsOn(d)')
  <2>1. Cardinality(references'[d]) = Cardinality(references[d]) + One(d = c)
    BY <1>0, <1>2, <1>4, RefMoves, ZenonT(30)
  <2>2. Cardinality(LayersOn(d)') = Cardinality(LayersOn(d)) + One(ParentOf[c] = d)
    BY <1>0, <1>1, MapMoves, Zenon
  <2>3. Cardinality(MountsOn(d)') = Cardinality(MountsOn(d)) + 0
    BY <1>1, SameHolders
  <2>4. Cardinality(CallsOn(d)') = Cardinality(CallsOn(d)) + One(d = NoLayer) - One(d = ParentOf[c])
    BY <1>0, <1>2, <1>5, CallMoves
  <2>5. /\ One(d = NoLayer) = 0 /\ One(ParentOf[c] = d) = One(d = ParentOf[c])
        /\ One(d = c) \in Int /\ One(d = ParentOf[c]) \in Int
    BY LayerAssumption DEF One
  <2>6. referenceCount'[d] = referenceCount[d] + One(d = c)
    BY <1>0, <1>2, <1>4 DEF One, LsTypeOK
  <2> QED
    BY <2>1, <2>2, <2>3, <2>4, <2>5, <2>6, CountAt
<1>9. \A d \in Chains : references'[d] \subseteq references[d] \cup {p}
  BY <1>0, <1>4 DEF LsTypeOK
<1>10. ~panicked'
  BY <1>1, Zenon DEF CountInv
<1> QED
  BY <1>1, <1>5, <1>6, <1>7, <1>8, <1>9, <1>10, CountStep

\* A layer with a holder is in the map and is not being removed.
LEMMA HeldInMap ==
  ASSUME CountInv, NEW c \in Chains, Pins(c) # {}
  PROVE  c \in layerMap /\ ParentOf[c] \in layerMap \cup {NoLayer} /\ ~Forgetting(c)
<1>1. LsTypeOK /\ MapOK
  BY DEF CountInv
<1>2. c # NoLayer
  BY LayerAssumption
<1>3. references[c] # {} \/ LayersOn(c) # {} \/ MountsOn(c) # {} \/ CallsOn(c) # {}
  BY <1>1, PinsCount
<1>4. c \in layerMap
  BY <1>1, <1>2, <1>3 DEF MapOK, LayersOn, MountsOn, CallsOn
<1>5. referenceCount[c] # 0
  BY ZeroCount
<1>6. ~Forgetting(c)
  BY <1>5 DEF Forgetting, CountInv, CallOK, Removing
<1> QED
  BY <1>1, <1>4, <1>6 DEF MapOK

\* A layer that anybody counts on is in the map with its parent, its metadata and its
\* data, unless an earlier removal of it was interrupted half-way
\* (layer_store.go:360-379): the parent of a layer that is being registered or mounted
\* is never removed under it.
LEMMA HeldIsIntact == LsInv => HeldIntact
<1> SUFFICES ASSUME LsInv, NEW c \in Chains, Pins(c) # {}
             PROVE  /\ c \in layerMap /\ (ParentOf[c] # NoLayer => ParentOf[c] \in layerMap)
                    /\ c \notin damaged => meta[c] = "full" /\ cacheID[c] \in data
  BY DEF HeldIntact
<1>1. CountInv /\ DiskInv
  BY DEF LsInv
<1>2. c \in layerMap /\ ParentOf[c] \in layerMap \cup {NoLayer} /\ ~Forgetting(c)
  BY <1>1, HeldInMap
<1> QED
  BY <1>1, <1>2 DEF DiskInv
=============================================================================
