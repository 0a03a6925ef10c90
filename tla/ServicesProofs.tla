--------------------------- MODULE ServicesProofs ---------------------------
(***************************************************************************)
(* Proofs about three services beside the containers, for any number of    *)
(* their users: the locks by name (Locker), the progress of a transfer     *)
(* (Broadcast) and the health monitor (Health).                            *)
(***************************************************************************)
EXTENDS Locker, Broadcast, Health, FiniteSetTheorems, TLAPS

\* More time for a leaf than by default, and a second attempt, for slow machines.
USE SMTT(30), Z3T(30), ZenonT(30)

\* The goroutines that wait for one nameLock are finitely many.
LEMMA WaitersOfFinite ==
  ASSUME NEW c PROVE IsFiniteSet(WaitersOf(c)) /\ Cardinality(WaitersOf(c)) \in Nat
BY LockerAssumption, FS_Subset, FS_CardinalityType DEF WaitersOf

\* The initial state of a Locker satisfies the inductive invariant.
LEMMA InitIInv == Init => IInv
<1> SUFFICES ASSUME Init PROVE IInv
  OBVIOUS
<1>1. \A c \in Ctrs : WaitersOf(c) = {}
  BY LockerAssumption DEF Init, WaitersOf
<1>2. \A c \in Ctrs : waiters[c] = Cardinality(WaitersOf(c))
  BY <1>1, FS_EmptySet DEF Init
<1>3. TypeOK
  BY DEF Init, TypeOK, PCs
<1> QED
  BY <1>2, <1>3, LockerAssumption DEF Init, IInv, NoLeakedEntry, Active, Owning

\* Registering a waiter: the counter and the set of waiters grow together.
LEMMA RegisterIInv ==
  ASSUME IInv, NEW p \in Procs, NEW n \in Names, LockRegister(p, n)
  PROVE  IInv'
<1> USE LockerAssumption DEF LockRegister, Register
<1>1. PICK c \in Ctrs :
         /\ \/ /\ locks[n] = c
               /\ waiters' = [waiters EXCEPT ![c] = @ + 1]
               /\ UNCHANGED <<locks, locked>>
            \/ /\ locks[n] = Nil
               /\ c \notin InUse
               /\ locks' = [locks EXCEPT ![n] = c]
               /\ locked' = locked \ {c}
               /\ waiters' = [waiters EXCEPT ![c] = 1]
         /\ ref' = [ref EXCEPT ![p] = c]
  BY Zenon
<1>2. TypeOK'
  BY <1>1 DEF IInv, TypeOK, PCs
<1>3. /\ WaitersOf(c)' = WaitersOf(c) \cup {p}
      /\ p \notin WaitersOf(c)
      /\ \A d \in Ctrs \ {c} : WaitersOf(d)' = WaitersOf(d)
  BY <1>1 DEF IInv, TypeOK, WaitersOf
<1>4. Cardinality(WaitersOf(c)') = Cardinality(WaitersOf(c)) + 1
  BY <1>3, WaitersOfFinite, FS_AddElement, ZenonT(30)
<1>5. c \notin InUse => WaitersOf(c) = {}
  BY Zenon DEF InUse, WaitersOf
<1>6. \A d \in Ctrs : waiters'[d] = Cardinality(WaitersOf(d)')
  <2>1. ASSUME NEW d \in Ctrs, d # c PROVE waiters'[d] = Cardinality(WaitersOf(d)')
    BY <1>1, <1>3, <2>1 DEF IInv, TypeOK
  <2>2. waiters'[c] = Cardinality(WaitersOf(c)')
    <3>1. waiters[c] = Cardinality(WaitersOf(c))
      BY Zenon DEF IInv
    <3>2. Cardinality(WaitersOf(c)) = 0 \/ c \in InUse
      BY <1>5, FS_EmptySet, Zenon
    <3> QED
      BY <1>1, <1>4, <3>1, <3>2, LockerAssumption DEF IInv, TypeOK, InUse
  <2> QED
    BY <2>1, <2>2, Zenon
<1>7. c \notin InUse => \A q \in Procs : ref[q] # c
  BY Zenon DEF InUse
<1>8. c \notin InUse => \A m \in Names : locks[m] # c
  BY Zenon DEF InUse
<1>9. ASSUME NEW q \in Procs
      PROVE  /\ pc'[q] # "error"
             /\ pc'[q] = "idle" <=> ref'[q] = Nil
             /\ pc'[q] = "idle" <=> name'[q] = Nil
             /\ mu' = q <=> pc'[q] \in {"looked", "removed", "kept"}
             /\ pc'[q] \in Active \ {"removed"} => locks'[name'[q]] = ref'[q]
             /\ pc'[q] = "removed" =>
                  locks'[name'[q]] = Nil /\ \A r \in Procs : ref'[r] = ref'[q] => r = q
             /\ pc'[q] \in Owning => ref'[q] \in locked'
             /\ pc'[q] = "kept" => WaitersOf(ref[q])' # {}
  <2>1. pc[q] \notin {"looked", "removed", "kept"}
    BY DEF IInv
  <2>2. CASE q = p
    BY <1>1, <2>1, <2>2 DEF IInv, TypeOK, Active, Owning
  <2>3. CASE q # p
    BY <1>1, <1>7, <2>1, <2>3 DEF IInv, TypeOK, Active, Owning
  <2> QED
    BY <2>2, <2>3, Zenon
<1>10. \A q, r \in Procs : pc'[q] \in Owning /\ pc'[r] \in Owning /\ ref'[q] = ref'[r] => q = r
  BY <1>1 DEF IInv, TypeOK, Owning
<1>11. \A d \in Ctrs : d \in locked' => \E q \in Procs : ref'[q] = d /\ pc'[q] \in Owning
  BY <1>1 DEF IInv, TypeOK, Owning
<1>12. \A k, m \in Names : locks'[k] = locks'[m] /\ locks'[k] # Nil => k = m
  BY <1>1, <1>8 DEF IInv, TypeOK
<1>13. NoLeakedEntry'
  BY <1>1 DEF IInv, TypeOK, NoLeakedEntry, Active, Owning
<1> QED
  BY <1>2, <1>6, <1>9, <1>10, <1>11, <1>12, <1>13 DEF IInv

\* Taking the mutex of the nameLock: the waiter is counted until it decrements.
LEMMA AcquireIInv ==
  ASSUME IInv, NEW p \in Procs, LockAcquire(p)
  PROVE  IInv'
<1> USE LockerAssumption DEF LockAcquire
<1>1. TypeOK'
  BY DEF IInv, TypeOK, PCs, Active, Owning
<1>2. \A c : WaitersOf(c)' = WaitersOf(c)
  BY DEF IInv, TypeOK, WaitersOf
<1>3. \A q \in Procs : pc[q] \in Owning /\ ref[q] = ref[p] => FALSE
  BY Zenon DEF IInv
<1> QED
  BY <1>1, <1>2, <1>3 DEF IInv, TypeOK, NoLeakedEntry, Active, Owning

\* Lock returns: the counter and the set of waiters shrink together.
LEMMA DecIInv ==
  ASSUME IInv, NEW p \in Procs, LockDec(p)
  PROVE  IInv'
<1> USE LockerAssumption DEF LockDec
<1> DEFINE c == ref[p]
<1>1. c \in Ctrs
  BY DEF IInv, TypeOK
<1>2. /\ WaitersOf(c)' = WaitersOf(c) \ {p}
      /\ p \in WaitersOf(c)
      /\ \A d : d # c => WaitersOf(d)' = WaitersOf(d)
  BY DEF IInv, TypeOK, WaitersOf
<1>3. Cardinality(WaitersOf(c)') = Cardinality(WaitersOf(c)) - 1
  BY <1>2, WaitersOfFinite, FS_RemoveElement, Zenon
<1>4. \A d \in Ctrs : waiters'[d] = Cardinality(WaitersOf(d)')
  <2>1. waiters[c] = Cardinality(WaitersOf(c)) /\ waiters'[c] = waiters[c] - 1
    BY <1>1 DEF IInv, TypeOK
  <2>2. ASSUME NEW d \in Ctrs, d # c PROVE waiters'[d] = Cardinality(WaitersOf(d)')
    BY <1>2, <2>2 DEF IInv, TypeOK
  <2> QED
    BY <1>3, <2>1, <2>2, Zenon
<1>5. TypeOK'
  <2>1. waiters[c] = Cardinality(WaitersOf(c))
    BY <1>1, Zenon DEF IInv
  <2>2. waiters[c] - 1 \in Nat
    BY <2>1, <1>2, WaitersOfFinite, FS_EmptySet
  <2> QED
    BY <2>2, Zenon DEF IInv, TypeOK, PCs
<1>6. \A q \in Procs : pc[q] # "kept" \/ ref[q] # c
  BY DEF IInv, Owning
<1> QED
  BY <1>2, <1>4, <1>5, <1>6 DEF IInv, TypeOK, NoLeakedEntry, Active, Owning

\* Unlock finds the entry of its name, and it is the object it has locked.
LEMMA LookupIInv ==
  ASSUME IInv, NEW p \in Procs, UnlockLookup(p)
  PROVE  IInv'
<1> USE LockerAssumption DEF UnlockLookup
<1>1. locks[name[p]] = ref[p] /\ ref[p] \in Ctrs
  BY Zenon DEF IInv, TypeOK, Active, Owning
<1>2. pc' = [pc EXCEPT ![p] = "looked"] /\ mu' = p /\ UNCHANGED ref
  BY <1>1 DEF IInv, TypeOK
<1>3. TypeOK'
  BY <1>2, Zenon DEF IInv, TypeOK, PCs
<1>4. \A c : WaitersOf(c)' = WaitersOf(c)
  BY <1>2 DEF IInv, TypeOK, WaitersOf
<1> QED
  BY <1>2, <1>3, <1>4 DEF IInv, TypeOK, NoLeakedEntry, Active, Owning

\* Unlock deletes the entry only when no goroutine can still be using it.
LEMMA DeleteIInv ==
  ASSUME IInv, NEW p \in Procs, UnlockDelete(p)
  PROVE  IInv'
<1> USE LockerAssumption DEF UnlockDelete, DeleteIf
<1>1. /\ name[p] \in Names /\ ref[p] \in Ctrs /\ ref[p] \in locked
      /\ locks[name[p]] = ref[p]
      /\ waiters[ref[p]] = Cardinality(WaitersOf(ref[p]))
  BY DEF IInv, TypeOK, Active, Owning
<1>2. TypeOK'
  BY DEF IInv, TypeOK, PCs
<1>3. \A c : WaitersOf(c)' = WaitersOf(c)
  BY DEF IInv, TypeOK, WaitersOf
<1>4. CASE waiters[ref[p]] = 0
  <2>1. WaitersOf(ref[p]) = {}
    BY <1>1, <1>4, WaitersOfFinite, FS_EmptySet, Zenon
  <2>2. \A q \in Procs : ref[q] = ref[p] => q = p
    BY <2>1 DEF IInv, TypeOK, WaitersOf, PCs, Owning
  <2>3. \A q \in Procs : q # p /\ pc[q] # "idle" => name[q] # name[p]
    BY <1>1, <2>2 DEF IInv, TypeOK, PCs, Active, Owning
  <2>4. /\ pc' = [pc EXCEPT ![p] = "removed"]
        /\ locks' = [locks EXCEPT ![name[p]] = Nil]
    BY <1>4
  <2> QED
    BY <1>1, <1>2, <1>3, <2>2, <2>3, <2>4 DEF IInv, TypeOK, NoLeakedEntry, Active, Owning
<1>5. CASE waiters[ref[p]] # 0
  <2>1. WaitersOf(ref[p]) # {}
    BY <1>1, <1>5, FS_EmptySet, Zenon
  <2>2. pc' = [pc EXCEPT ![p] = "kept"] /\ UNCHANGED locks
    BY <1>5
  <2> QED
    BY <1>1, <1>2, <1>3, <2>1, <2>2 DEF IInv, TypeOK, NoLeakedEntry, Active, Owning
<1> QED
  BY <1>4, <1>5

\* Unlock returns: an entry it kept has a waiter to own it next.
LEMMA ReleaseIInv ==
  ASSUME IInv, NEW p \in Procs, UnlockRelease(p)
  PROVE  IInv'
<1> USE LockerAssumption DEF UnlockRelease, Release
<1>1. TypeOK'
  BY Zenon DEF IInv, TypeOK, PCs
<1>2. ref[p] \in Ctrs
  BY DEF IInv, TypeOK
<1>3. \A c \in Ctrs : WaitersOf(c)' = WaitersOf(c)
  BY DEF IInv, TypeOK, WaitersOf
<1>4. \A q \in Procs : q # p => pc[q] \notin {"looked", "removed", "kept"}
  BY Zenon DEF IInv
<1>5. \A q \in Procs : q # p /\ pc[q] \in Owning => ref[q] # ref[p]
  BY DEF IInv, Owning
<1>6. NoLeakedEntry'
  <2>1. pc[p] = "kept" => \E q \in Procs : q # p /\ ref[q] = ref[p] /\ pc[q] = "waiting"
    BY <1>5 DEF IInv, WaitersOf, Owning
  <2>2. pc[p] = "kept" => \E q \in Procs : q # p /\ pc[q] = "waiting" /\ name[q] = name[p]
    BY <1>2, <2>1 DEF IInv, TypeOK, Active, Owning
  <2>3. pc[p] = "removed" => locks[name[p]] = Nil
    BY Zenon DEF IInv
  <2> QED
    BY <2>2, <2>3 DEF IInv, TypeOK, NoLeakedEntry, Active, Owning
<1> QED
  BY <1>1, <1>2, <1>3, <1>4, <1>5, <1>6 DEF IInv, TypeOK, Active, Owning

\* Every step of a Lock or an Unlock keeps the inductive invariant.
LEMMA NextIInv == IInv /\ [Next]_vars => IInv'
<1> SUFFICES ASSUME IInv, [Next]_vars PROVE IInv'
  OBVIOUS
<1>1. CASE UNCHANGED vars
  <2>1. \A c : WaitersOf(c)' = WaitersOf(c)
    BY <1>1 DEF vars, WaitersOf
  <2>2. TypeOK' /\ NoLeakedEntry'
    BY <1>1 DEF vars, IInv, TypeOK, NoLeakedEntry
  <2> QED
    BY <1>1, <2>1, <2>2 DEF vars, IInv
<1>2. CASE Next
  <2> PICK p \in Procs : \/ \E n \in Names : LockRegister(p, n)
                         \/ LockAcquire(p) \/ LockDec(p) \/ UnlockLookup(p)
                         \/ UnlockDelete(p) \/ UnlockRelease(p)
    BY <1>2 DEF Next
  <2> QED
    BY RegisterIInv, AcquireIInv, DecIInv, LookupIInv, DeleteIInv, ReleaseIInv
<1> QED
  BY <1>1, <1>2

\* The table, the mutexes, the counters and the goroutines agree in every
\* reachable state of pkg/locker.
THEOREM SpecIInv == Spec => []IInv
BY InitIInv, NextIInv, PTL DEF Spec

\* Every variable of pkg/locker keeps its type.
THEOREM TypeCorrect == Spec => []TypeOK
<1>1. IInv => TypeOK
  BY Zenon DEF IInv
<1> QED
  BY SpecIInv, <1>1, PTL

\* Lock and Unlock give mutual exclusion per name.
THEOREM LockerExcludes == Spec => []MutualExclusion
<1>1. IInv => MutualExclusion
  BY LockerAssumption DEF IInv, TypeOK, MutualExclusion, Owns, Active, Owning
<1> QED
  BY SpecIInv, <1>1, PTL

\* A holder's Unlock never returns ErrNoSuchLock.
THEOREM UnlockSucceeds == Spec => []UnlockFindsOwnLock
<1>1. IInv => UnlockFindsOwnLock
  BY DEF IInv, UnlockFindsOwnLock, Active, Owning
<1> QED
  BY SpecIInv, <1>1, PTL

\* Locker.locks holds no entry that nobody uses.
THEOREM TableDoesNotLeak == Spec => []NoLeakedEntry
<1>1. IInv => NoLeakedEntry
  BY Zenon DEF IInv
<1> QED
  BY SpecIInv, <1>1, PTL

\* pkg/locker implements one plain mutex per name.
THEOREM LockerImplements == Spec => ImplementsNamedMutex
<1>1. Init => Abstract!Init
  BY DEF Init, Abstract!Init, Owning
<1>2. IInv /\ IInv' /\ [Next]_vars => [Abstract!Next]_(Abstract!vars)
  <2> SUFFICES ASSUME IInv, IInv', [Next]_vars PROVE [Abstract!Next]_(Abstract!vars)
    OBVIOUS
  <2> USE LockerAssumption
  <2> USE DEF Abstract!Next, Abstract!vars, Abstract!Request, Abstract!Acquire, Abstract!Release
  <2>1. CASE UNCHANGED vars
    BY <2>1, Zenon DEF vars
  <2>2. ASSUME NEW p \in Procs, NEW n \in Names, LockRegister(p, n)
        PROVE  Abstract!Request(p, n)
    BY <2>2 DEF LockRegister, Register, IInv, TypeOK, Owning
  <2>3. ASSUME NEW p \in Procs, LockAcquire(p) PROVE Abstract!Acquire(p)
    BY <2>3 DEF LockAcquire, IInv, TypeOK, Active, Owning
  <2>4. ASSUME NEW p \in Procs, LockDec(p) \/ UnlockLookup(p) \/ UnlockDelete(p)
        PROVE  UNCHANGED Abstract!vars
    BY <2>4 DEF LockDec, UnlockLookup, UnlockDelete, DeleteIf, IInv, TypeOK, Active, Owning
  <2>5. ASSUME NEW p \in Procs, UnlockRelease(p) PROVE Abstract!Release(p)
    BY <2>5 DEF UnlockRelease, Release, IInv, TypeOK, Owning
  <2> QED
    BY <2>1, <2>2, <2>3, <2>4, <2>5, Zenon DEF Next
<1> QED
  BY <1>1, <1>2, SpecIInv, PTL DEF Spec, ImplementsNamedMutex, Abstract!Spec
-----------------------------------------------------------------------------
\* The types of the broadcaster's variables and of its watchers'.
BcTypeOK ==
  /\ sent \in Nat /\ lastProgress \in Nat
  /\ bpc \in {"select", "store", "finish", "closing", "gone"}
  /\ broadcastDone \in BOOLEAN
  /\ wpc \in [Watchers -> {"none", "read", "write", "select", "sync", "exited"}]
  /\ seen \in [Watchers -> Nat] /\ lastWritten \in [Watchers -> Nat]
  /\ owed \in [Watchers -> Nat]

\* What the broadcaster has stored.
StoredOK ==
  /\ lastProgress <= sent
  /\ bpc # "store" => lastProgress = sent
  /\ broadcastDone => bpc \in {"closing", "gone"}

\* What a watcher is owed is frozen when its exit is forced, and at its last turn it
\* reads and writes something at least as new.
WatcherOK(w) ==
  /\ owed[w] <= sent
  /\ wpc[w] = "none" => owed[w] = 0 /\ w \notin done
  /\ wpc[w] = "select" => w \notin done
  /\ wpc[w] = "sync" => w \in releaseChan
  /\ w \in done => w \in releaseChan \/ bpc = "gone" \/ wpc[w] = "exited"
  /\ wpc[w] = "read" /\ w \in done => owed[w] <= lastProgress
  /\ wpc[w] = "write" /\ w \in done => owed[w] <= seen[w]
  /\ wpc[w] = "exited" => owed[w] <= lastWritten[w]

\* The inductive invariant of a broadcast.
BcInv == BcTypeOK /\ StoredOK /\ \A w \in Watchers : WatcherOK(w)
-----------------------------------------------------------------------------
\* The broadcaster receives, stores and ends.
LEMMA BroadcasterInv ==
  ASSUME BcInv, Receive \/ ReceiveClosed \/ BroadcastStep PROVE BcInv'
<1> USE DEF BcInv
<1>1. CASE Receive
  <2>1. BcTypeOK' /\ StoredOK'
    BY <1>1 DEF Receive, Owing, BcTypeOK, StoredOK, wvars
  <2>2. ASSUME NEW w \in Watchers PROVE WatcherOK(w)'
    <3>1. /\ owed'[w] = IF wpc[w] \in {"none", "exited"} \/ w \in releaseChan THEN owed[w] ELSE sent + 1
          /\ bpc = "select" /\ sent' = sent + 1 /\ sent \in Nat /\ owed[w] \in Nat
          /\ UNCHANGED <<wpc, done, seen, lastWritten, lastProgress, releaseChan>>
      BY <1>1, Zenon DEF Receive, Owing, BcTypeOK, wvars
    <3>2. WatcherOK(w) /\ wpc[w] \in {"none", "read", "write", "select", "sync", "exited"}
      BY DEF BcTypeOK
    <3> QED
      BY <3>1, <3>2 DEF WatcherOK
  <2> QED
    BY <2>1, <2>2
<1>2. CASE ReceiveClosed
  BY <1>2, Zenon DEF ReceiveClosed, BcTypeOK, StoredOK, WatcherOK, wvars
<1>3. CASE Store
  <2>1. BcTypeOK' /\ StoredOK'
    BY <1>3 DEF Store, BcTypeOK, StoredOK
  <2>2. ASSUME NEW w \in Watchers PROVE WatcherOK(w)'
    <3>1. /\ wpc'[w] = IF w \in watchers /\ wpc[w] = "select" THEN "read" ELSE wpc[w]
          /\ bpc = "store" /\ lastProgress' = sent
          /\ UNCHANGED <<sent, done, seen, lastWritten, releaseChan, owed>>
      BY <1>3 DEF Store, BcTypeOK
    <3>2. WatcherOK(w)
      OBVIOUS
    <3> QED
      BY <3>1, <3>2, Zenon DEF WatcherOK
  <2> QED
    BY <2>1, <2>2
<1>4. CASE Finish
  BY <1>4, Zenon DEF Finish, BcTypeOK, StoredOK, WatcherOK, wvars
<1>5. CASE CloseRunning
  BY <1>5, Zenon DEF CloseRunning, BcTypeOK, StoredOK, WatcherOK, wvars
<1> QED
  BY <1>1, <1>2, <1>3, <1>4, <1>5, Zenon DEF BroadcastStep

\* A watcher starts, is released and copies what is stored.
LEMMA WatcherInv ==
  ASSUME BcInv, NEW w \in Watchers,
         Watch(w) \/ Detach(w) \/ CloseRelease(w) \/ WatcherStep(w)
  PROVE  BcInv'
<1> USE DEF BcInv
<1>0. /\ BcTypeOK /\ StoredOK /\ WatcherOK(w)
      /\ wpc[w] \in {"none", "read", "write", "select", "sync", "exited"}
      /\ owed[w] \in Nat /\ seen[w] \in Nat /\ lastWritten[w] \in Nat
      /\ sent \in Nat /\ lastProgress \in Nat
  BY DEF BcTypeOK
<1>1. BcTypeOK' /\ StoredOK'
  BY <1>0 DEF Watch, Detach, CloseRelease, WatcherStep, Read, Write, SeeRelease, SeeRunning,
     LeaveSelect, Sync, SyncWhen, BcTypeOK, StoredOK, bvars, wvars
<1>2. ASSUME NEW v \in Watchers, v # w PROVE WatcherOK(v)'
  <2>1. /\ wpc'[v] = wpc[v] /\ seen'[v] = seen[v] /\ lastWritten'[v] = lastWritten[v]
        /\ owed'[v] = owed[v] /\ (v \in done' <=> v \in done) /\ (v \in releaseChan => v \in releaseChan')
        /\ UNCHANGED bvars
    BY <1>0, <1>2 DEF Watch, Detach, CloseRelease, WatcherStep, Read, Write, SeeRelease, SeeRunning,
       LeaveSelect, Sync, SyncWhen, BcTypeOK, bvars, wvars
  <2>2. WatcherOK(v)
    OBVIOUS
  <2> QED
    BY <2>1, <2>2, Zenon DEF WatcherOK, bvars
<1>3. WatcherOK(w)'
  <2>1. CASE Watch(w)
    BY <1>0, <2>1 DEF Watch, WatcherOK, BcTypeOK, StoredOK, bvars
  <2>2. CASE Detach(w) \/ CloseRelease(w)
    BY <1>0, <2>2, Zenon DEF Detach, CloseRelease, WatcherOK, bvars, wvars
  <2>3. CASE Read(w)
    BY <1>0, <2>3, Zenon DEF Read, WatcherOK, BcTypeOK, bvars
  <2>4. CASE Write(w)
    BY <1>0, <2>4 DEF Write, WatcherOK, BcTypeOK, bvars
  <2>5. CASE SeeRelease(w) \/ SeeRunning(w)
    BY <1>0, <2>5, Zenon DEF SeeRelease, SeeRunning, running, LeaveSelect, WatcherOK, BcTypeOK, StoredOK, bvars
  <2>6. CASE Sync(w)
    BY <1>0, <2>6, Zenon DEF Sync, SyncWhen, running, WatcherOK, BcTypeOK, StoredOK, bvars
  <2> QED
    BY <2>1, <2>2, <2>3, <2>4, <2>5, <2>6 DEF WatcherStep
<1> QED
  BY <1>1, <1>2, <1>3

\* The inductive invariant holds in every reachable state of a broadcast.
THEOREM SpecBcInv == BcSpec => []BcInv
<1>1. BcInit => BcInv
  <2> SUFFICES ASSUME BcInit PROVE BcInv
    OBVIOUS
  <2>0. broadcastDone \in BOOLEAN /\ ~broadcastDone
    BY Zenon DEF BcInit
  <2>1. BcTypeOK /\ StoredOK
    BY <2>0 DEF BcInit, BcTypeOK, StoredOK
  <2>2. ASSUME NEW w \in Watchers PROVE WatcherOK(w)
    BY DEF BcInit, WatcherOK
  <2> QED
    BY <2>1, <2>2 DEF BcInv
<1>2. BcInv /\ [BcNext]_bcVars => BcInv'
  <2> SUFFICES ASSUME BcInv, [BcNext]_bcVars PROVE BcInv'
    OBVIOUS
  <2>1. CASE UNCHANGED bcVars
    BY <2>1 DEF BcInv, BcTypeOK, StoredOK, WatcherOK, bcVars, bvars, wvars
  <2>2. CASE BcNext
    BY <2>2, BroadcasterInv, WatcherInv DEF BcNext
  <2> QED
    BY <2>1, <2>2
<1> QED
  BY <1>1, <1>2, PTL DEF BcSpec

\* A watcher that is released, or whose transfer has ended, has shown its client every
\* item it must not miss (transfer.go:73-77), for any number of watchers and items.
THEOREM WatchersMissNothing == BcSpec => []NothingMissed
<1>1. BcInv => NothingMissed
  BY DEF BcInv, BcTypeOK, WatcherOK, NothingMissed
<1> QED
  BY SpecBcInv, <1>1, PTL
-----------------------------------------------------------------------------
\* The types of the threads and of the monitors of a container's health.
Channels == {0} \cup Monitors
ThreadState == [at : {"idle", "close", "eval", "send", "nil", "open"}, ch : Channels,
                next : {"none", "open"}]
MonStates == {"new", "idle", "probing", "result", "late", "wait", "end"}
HlTypeOK ==
  /\ stopCh \in Channels
  /\ thread \in [Threads -> ThreadState]
  /\ mon \in [Monitors -> MonStates]

Alive(m) == mon[m] \notin {"new", "end"}

\* The inductive invariant: between the moment a monitor has taken the message
\* that ends it and the one in which the thread that sent it clears the field, no
\* monitor is alive, none can be opened and no other thread is as far.
HlInv ==
  /\ HlTypeOK /\ OneMonitor
  /\ \A t \in Threads : thread[t].at = "nil" =>
       /\ stopCh # 0
       /\ \A m \in Monitors : ~Alive(m)
       /\ \A u \in Threads : thread[u].at = "nil" => u = t
-----------------------------------------------------------------------------
\* What a thread may become.
LEMMA ThreadStates ==
  /\ Quiescent \in ThreadState /\ Quiescent.at = "idle"
  /\ \A r \in ThreadState : \A a \in {"close", "eval", "nil", "open"} :
       [r EXCEPT !.at = a] \in ThreadState /\ [r EXCEPT !.at = a].at = a
<1>1. 0 \in Channels
  BY DEF Channels
<1>2. Quiescent \in ThreadState /\ Quiescent.at = "idle"
  BY <1>1 DEF Quiescent, ThreadState
<1>3. ASSUME NEW r \in ThreadState, NEW a \in {"close", "eval", "nil", "open"}
      PROVE  [r EXCEPT !.at = a] \in ThreadState /\ [r EXCEPT !.at = a].at = a
  BY <1>3 DEF ThreadState
<1> QED
  BY <1>2, <1>3, Zenon

\* One thread moves.
LEMMA ThreadMoves ==
  ASSUME HlTypeOK, NEW t \in Threads, NEW r \in ThreadState, thread' = [thread EXCEPT ![t] = r]
  PROVE  /\ thread' \in [Threads -> ThreadState] /\ thread'[t] = r
         /\ \A u \in Threads : u # t => thread'[u] = thread[u]
BY DEF HlTypeOK

\* A step of a thread that is not the one before it clears the field.
LEMMA HealthFrame ==
  ASSUME HlInv, stopCh' = stopCh, mon' = mon, NEW t \in Threads, NEW r \in ThreadState,
         thread' = [thread EXCEPT ![t] = r], r.at # "nil"
  PROVE  HlInv'
<1>0. HlTypeOK
  BY DEF HlInv
<1>1. /\ thread' \in [Threads -> ThreadState]
      /\ \A u \in Threads : thread'[u].at = "nil" => thread[u].at = "nil"
  BY <1>0, ThreadMoves, Zenon
<1>2. HlTypeOK'
  BY <1>0, <1>1 DEF HlTypeOK
<1>3. OneMonitor' /\ \A m \in Monitors : Alive(m)' <=> Alive(m)
  BY DEF HlInv, OneMonitor, Alive
<1> QED
  BY <1>1, <1>2, <1>3 DEF HlInv

\* A thread stops a monitor: CloseMonitorChannel.
LEMMA CloseInv ==
  ASSUME HlInv, NEW t \in Threads, CloseCheck(t) \/ CloseEval(t) \/ CloseSend(t) \/ CloseNil(t)
  PROVE  HlInv'
<1>0. HlTypeOK /\ thread[t] \in ThreadState /\ stopCh \in Channels
  BY DEF HlInv, HlTypeOK
<1>1. CASE CloseCheck(t)
  <2>1. /\ stopCh' = stopCh /\ mon' = mon
        /\ \/ thread' = [thread EXCEPT ![t] = [thread[t] EXCEPT !.at = "eval"]]
           \/ thread' = [thread EXCEPT ![t] = [thread[t] EXCEPT !.at = "open"]]
           \/ thread' = [thread EXCEPT ![t] = Quiescent]
    BY <1>1, Zenon DEF CloseCheck, GotoT, Done
  <2>2. PICK r \in ThreadState : r.at # "nil" /\ thread' = [thread EXCEPT ![t] = r]
    BY <1>0, <2>1, ThreadStates, Zenon
  <2> QED
    BY <2>1, <2>2, HealthFrame, Zenon
<1>2. CASE CloseEval(t)
  <2> DEFINE r == [thread[t] EXCEPT !.at = "send", !.ch = stopCh]
  <2>1. stopCh' = stopCh /\ mon' = mon /\ thread' = [thread EXCEPT ![t] = r]
    BY <1>2, Zenon DEF CloseEval
  <2>2. r \in ThreadState /\ r.at = "send"
    BY <1>0, Zenon DEF ThreadState
  <2> HIDE DEF r
  <2> QED
    BY <2>1, <2>2, HealthFrame, Zenon
<1>3. CASE CloseSend(t)
  <2> DEFINE c == thread[t].ch
             r == [thread[t] EXCEPT !.at = "nil"]
  <2>1. /\ stopCh' = stopCh /\ c # 0 /\ mon[c] \in {"idle", "probing"}
        /\ mon' = [mon EXCEPT ![c] = "end"] /\ thread' = [thread EXCEPT ![t] = r]
    BY <1>3, Zenon DEF CloseSend, GotoT
  <2>2. r \in ThreadState /\ c \in Channels
    BY <1>0, ThreadStates, Zenon DEF ThreadState
  <2> HIDE DEF c, r
  <2>3. c \in Monitors /\ Alive(c)
    BY <2>1, <2>2 DEF Channels, Alive
  <2>4. stopCh = c /\ \A m \in Monitors : Alive(m) => m = c
    BY <2>3 DEF HlInv, OneMonitor, Alive
  <2>5. \A u \in Threads : thread[u].at # "nil"
    BY <2>3 DEF HlInv
  <2>6. /\ thread' \in [Threads -> ThreadState]
        /\ \A u \in Threads : thread'[u].at = "nil" => u = t
    BY <1>0, <2>1, <2>2, <2>5, ThreadMoves, Zenon
  <2>7. mon' \in [Monitors -> MonStates] /\ \A m \in Monitors : ~Alive(m)'
    BY <1>0, <2>1, <2>4, Zenon DEF HlTypeOK, Alive, MonStates
  <2>8. HlTypeOK'
    BY <1>0, <2>1, <2>6, <2>7 DEF HlTypeOK
  <2>9. OneMonitor'
    BY <2>7 DEF OneMonitor, Alive
  <2> QED
    BY <2>1, <2>4, <2>6, <2>7, <2>8, <2>9, Zenon DEF HlInv
<1>4. CASE CloseNil(t)
  <2>1. /\ stopCh' = 0 /\ mon' = mon /\ thread[t].at = "nil"
        /\ \/ thread' = [thread EXCEPT ![t] = [thread[t] EXCEPT !.at = "open"]]
           \/ thread' = [thread EXCEPT ![t] = Quiescent]
    BY <1>4, Zenon DEF CloseNil, GotoT, Done
  <2>2. PICK r \in ThreadState : r.at # "nil" /\ thread' = [thread EXCEPT ![t] = r]
    BY <1>0, <2>1, ThreadStates, Zenon
  <2>3. thread' \in [Threads -> ThreadState] /\ \A u \in Threads : thread'[u].at # "nil"
    <3>1. \A u \in Threads : thread[u].at = "nil" => u = t
      BY <2>1 DEF HlInv
    <3> QED
      BY <1>0, <2>2, <3>1, ThreadMoves, Zenon
  <2>4. \A m \in Monitors : ~Alive(m)'
    BY <2>1 DEF HlInv, Alive
  <2>5. HlTypeOK' /\ OneMonitor'
    BY <1>0, <2>1, <2>3, <2>4 DEF HlTypeOK, OneMonitor, Alive, Channels
  <2> QED
    BY <2>3, <2>5, Zenon DEF HlInv
<1> QED
  BY <1>1, <1>2, <1>3, <1>4

\* A monitor is started only when the field is nil: no thread is about to clear it.
LEMMA OpenInv == ASSUME HlInv, NEW t \in Threads, OpenMonitorChannel(t) PROVE HlInv'
<1>0. HlTypeOK /\ thread' = [thread EXCEPT ![t] = Quiescent]
  BY DEF HlInv, OpenMonitorChannel, Done
<1>1. CASE stopCh # 0
  <2>1. stopCh' = stopCh /\ mon' = mon
    BY <1>1 DEF OpenMonitorChannel
  <2> QED
    BY <1>0, <2>1, HealthFrame, ThreadStates, Zenon
<1>2. CASE stopCh = 0
  <2>1. PICK m \in Monitors : stopCh' = m /\ mon' = [mon EXCEPT ![m] = "idle"]
    BY <1>2 DEF OpenMonitorChannel
  <2>2. /\ thread' \in [Threads -> ThreadState]
        /\ \A u \in Threads : thread'[u].at = "nil" => thread[u].at = "nil"
    BY <1>0, ThreadMoves, ThreadStates, Zenon
  <2>3. mon' \in [Monitors -> MonStates]
    BY <1>0, <2>1 DEF HlTypeOK, MonStates
  <2>4. HlTypeOK'
    BY <2>1, <2>2, <2>3 DEF HlTypeOK, Channels
  <2>5. \A k \in Monitors : ~Alive(k)
    BY <1>2 DEF HlInv, OneMonitor, Alive, Monitors
  <2>6. OneMonitor'
    BY <1>0, <2>1, <2>5 DEF HlTypeOK, OneMonitor, Alive
  <2>7. \A u \in Threads : thread'[u].at # "nil"
    BY <1>2, <2>2 DEF HlInv
  <2> QED
    BY <2>4, <2>6, <2>7 DEF HlInv
<1> QED
  BY <1>1, <1>2

\* The handlers of the container's events send a thread to one or the other.
LEMMA HandlerInv ==
  ASSUME HlInv, StateStart \/ Stop \/ \E what \in {"exit", "restart", "pause", "resume", "oom"} : Event(what)
  PROVE  HlInv'
<1>0. HlTypeOK /\ \A t \in Threads : thread[t] \in ThreadState
  BY DEF HlInv, HlTypeOK
<1>1. CASE StateStart
  <2> DEFINE r == [thread["start"] EXCEPT !.at = IF health.made THEN "close" ELSE "open", !.next = "open"]
  <2>1. stopCh' = stopCh /\ mon' = mon /\ thread' = [thread EXCEPT !["start"] = r]
    BY <1>1, Zenon DEF StateStart
  <2>2. "start" \in Threads /\ thread["start"] \in ThreadState
    BY <1>0 DEF Threads
  <2>3. r \in ThreadState /\ r.at # "nil"
    BY <2>2, Zenon DEF ThreadState
  <2> HIDE DEF r
  <2> QED
    BY <2>1, <2>2, <2>3, HealthFrame, Zenon
<1>2. CASE Stop
  <2>1. /\ stopCh' = stopCh /\ mon' = mon
        /\ thread' = [thread EXCEPT !["stop"] = [thread["stop"] EXCEPT !.at = "close"]]
    BY <1>2 DEF Stop, GotoT
  <2>2. PICK r \in ThreadState : r.at # "nil" /\ thread' = [thread EXCEPT !["stop"] = r]
    BY <1>0, <2>1, ThreadStates, Zenon DEF Threads
  <2> QED
    BY <2>1, <2>2, HealthFrame, Zenon DEF Threads
<1>3. ASSUME NEW what \in {"exit", "restart", "pause", "resume", "oom"}, Event(what) PROVE HlInv'
  <2>1. /\ stopCh' = stopCh /\ mon' = mon
        /\ \/ thread' = thread
           \/ \E a \in {"open", "close"} :
                thread' = [thread EXCEPT !["queue"] = [thread["queue"] EXCEPT !.at = a]]
    BY <1>3, Zenon DEF Event, Update
  <2>2. CASE thread' = thread
    BY <2>1, <2>2 DEF HlInv, HlTypeOK, OneMonitor, Alive
  <2>3. CASE thread' # thread
    <3>1. PICK r \in ThreadState : r.at # "nil" /\ thread' = [thread EXCEPT !["queue"] = r]
      BY <1>0, <2>1, <2>3, ThreadStates, Zenon DEF Threads
    <3> QED
      BY <2>1, <3>1, HealthFrame, Zenon DEF Threads
  <2> QED
    BY <2>2, <2>3
<1> QED
  BY <1>1, <1>2, <1>3

\* The monitors and their probes.
LEMMA ProbingInv ==
  ASSUME HlInv, NEW m \in Monitors, Tick(m) \/ Timeout(m) \/ Probing(m) PROVE HlInv'
<1>0. HlTypeOK
  BY DEF HlInv
<1>1. /\ stopCh' = stopCh /\ thread' = thread
      /\ \/ mon' = mon
         \/ Alive(m) /\ \E a \in MonStates : mon' = [mon EXCEPT ![m] = a]
  <2>1. CASE Tick(m) \/ Timeout(m) \/ Result(m) \/ Waited(m)
    BY <2>1, Zenon DEF Tick, Timeout, Result, Waited, Alive, MonStates
  <2>2. CASE Handle(m)
    <3>1. mon' = [mon EXCEPT ![m] = "idle"] \/ mon' = [mon EXCEPT ![m] = "wait"]
      BY <2>2, Zenon DEF Handle
    <3>2. stopCh' = stopCh /\ thread' = thread /\ Alive(m)
      BY <2>2 DEF Handle, Alive
    <3> QED
      BY <3>1, <3>2 DEF MonStates
  <2>3. CASE \E r \in {"good", "bad"} : ProbeReturns(m, r)
    BY <2>3 DEF ProbeReturns
  <2> QED
    BY <2>1, <2>2, <2>3, Zenon DEF Probing
<1>2. mon' \in [Monitors -> MonStates] /\ \A k \in Monitors : k # m => mon'[k] = mon[k]
  BY <1>0, <1>1 DEF HlTypeOK
<1>3. mon' = mon \/ Alive(m)
  BY <1>1
<1>4. \A k \in Monitors : Alive(k)' => Alive(k)
  BY <1>2, <1>3 DEF Alive
<1>5. HlTypeOK' /\ OneMonitor'
  BY <1>0, <1>1, <1>2, <1>4, Zenon DEF HlInv, HlTypeOK, OneMonitor, Alive
<1> QED
  BY <1>1, <1>4, <1>5, Zenon DEF HlInv

\* The inductive invariant of the health monitor.
THEOREM SpecHlInv == HlSpec => []HlInv
<1>1. HlInit => HlInv
  <2> SUFFICES ASSUME HlInit PROVE HlInv
    OBVIOUS
  <2>1. thread \in [Threads -> ThreadState] /\ \A t \in Threads : thread[t].at = "idle"
    BY ThreadStates DEF HlInit
  <2>2. HlTypeOK
    BY <2>1, Zenon DEF HlInit, HlTypeOK, Channels, MonStates
  <2> QED
    BY <2>1, <2>2, Zenon DEF HlInit, HlInv, OneMonitor
<1>2. HlInv /\ [HlNext]_hlVars => HlInv'
  <2> SUFFICES ASSUME HlInv, [HlNext]_hlVars PROVE HlInv'
    OBVIOUS
  <2>1. CASE UNCHANGED hlVars
    BY <2>1, Zenon DEF hlVars, HlInv, HlTypeOK, OneMonitor, Alive
  <2>2. CASE HlNext
    BY <2>2, CloseInv, OpenInv, HandlerInv, ProbingInv, Zenon DEF HlNext, Closes
  <2> QED
    BY <2>1, <2>2
<1> QED
  BY <1>1, <1>2, PTL DEF HlSpec

\* However many monitors are started, and whoever stops them without a lock in
\* common: at most one is alive, and the channel in the health state stops it.
THEOREM MonitorIsUnique == HlSpec => []OneMonitor
<1>1. HlInv => OneMonitor
  BY DEF HlInv
<1> QED
  BY SpecHlInv, <1>1, PTL
=============================================================================
