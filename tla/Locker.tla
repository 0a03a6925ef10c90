------------------------------- MODULE Locker -------------------------------
(***************************************************************************)
(* pkg/locker: a table of mutexes keyed by name.  An entry (a lockCtr) is  *)
(* created by the first Lock of its name and deleted by the Unlock that    *)
(* sees no waiter, so the mutex behind a name is a different object at     *)
(* different times.  The table mutex l.mu covers the table; the lockCtr's  *)
(* own mutex and its waiter counter are used outside it.                   *)
(*                                                                         *)
(* A process is a goroutine that locks a name, and later unlocks the name  *)
(* it locked.  The heap of lockCtr objects is the set Ctrs; an object that *)
(* nothing refers to may be allocated again, as the collector allows.      *)
(***************************************************************************)
EXTENDS Integers, FiniteSets

CONSTANTS Procs, Names, Ctrs, Nil

ASSUME LockerAssumption == /\ IsFiniteSet(Procs)
                           /\ Nil \notin Procs
                           /\ Nil \notin Names
                           /\ Nil \notin Ctrs

VARIABLES
  mu,        \* the process inside a multi-step section of Locker.mu, or Nil
  locks,     \* Locker.locks: the lockCtr of each name, or Nil
  locked,    \* the objects whose mutex lockCtr.mu is locked
  waiters,   \* lockCtr.waiters
  pc, name, ref   \* of each process: where it is, its name, its nameLock

vars == <<mu, locks, locked, waiters, pc, name, ref>>

\* idle     outside the locker
\* waiting  Lock registered the process as a waiter, nameLock.Lock() is next
\* locked   nameLock.Lock() returned, nameLock.dec() is next
\* held     Lock returned
\* looked   Unlock holds l.mu and found its nameLock
\* removed  Unlock deleted the entry;  kept: it saw waiters and left it
\* error    Unlock returned ErrNoSuchLock
PCs == {"idle", "waiting", "locked", "held", "looked", "removed", "kept", "error"}

InUse == {ref[p] : p \in Procs} \cup {locks[n] : n \in Names}

Init == /\ mu = Nil
        /\ locks = [n \in Names |-> Nil]
        /\ locked = {}
        /\ waiters = [c \in Ctrs |-> 0]
        /\ pc = [p \in Procs |-> "idle"]
        /\ name = [p \in Procs |-> Nil]
        /\ ref = [p \in Procs |-> Nil]

\* Lock, up to l.mu.Unlock(): nothing in the section blocks, so it is one step.
\* It adds k to the waiters of the nameLock, which it creates if there is none.
Register(p, n, k) ==
  /\ pc[p] = "idle"
  /\ mu = Nil
  /\ \E c \in Ctrs :
       /\ \/ /\ locks[n] = c
             /\ waiters' = [waiters EXCEPT ![c] = @ + k]
             /\ UNCHANGED <<locks, locked>>
          \/ /\ locks[n] = Nil
             /\ c \notin InUse
             /\ locks' = [locks EXCEPT ![n] = c]
             /\ locked' = locked \ {c}
             /\ waiters' = [waiters EXCEPT ![c] = k]
       /\ ref' = [ref EXCEPT ![p] = c]
  /\ name' = [name EXCEPT ![p] = n]
  /\ pc' = [pc EXCEPT ![p] = "waiting"]
  /\ UNCHANGED mu

\* Fault: the counter is not incremented inside the table mutex.
LockRegister_NoInc(p, n) == Register(p, n, 0)

LockRegister(p, n) == Register(p, n, 1)

\* nameLock.Lock(), outside l.mu
LockAcquire(p) ==
  /\ pc[p] = "waiting"
  /\ ref[p] \notin locked
  /\ locked' = locked \cup {ref[p]}
  /\ pc' = [pc EXCEPT ![p] = "locked"]
  /\ UNCHANGED <<mu, locks, waiters, name, ref>>

\* nameLock.dec(), and Lock returns
LockDec(p) ==
  /\ pc[p] = "locked"
  /\ waiters' = [waiters EXCEPT ![ref[p]] = @ - 1]
  /\ pc' = [pc EXCEPT ![p] = "held"]
  /\ UNCHANGED <<mu, locks, locked, name, ref>>

\* Unlock: l.mu.Lock() and the lookup by name
UnlockLookup(p) ==
  /\ pc[p] = "held"
  /\ mu = Nil
  /\ IF locks[name[p]] = Nil
     THEN /\ pc' = [pc EXCEPT ![p] = "error"]
          /\ UNCHANGED <<mu, ref>>
     ELSE /\ pc' = [pc EXCEPT ![p] = "looked"]
          /\ mu' = p
          /\ ref' = [ref EXCEPT ![p] = locks[name[p]]]
  /\ UNCHANGED <<locks, locked, waiters, name>>

\* Unlock: the entry goes when the counter reads zero
DeleteIf(p, unwanted) ==
  /\ pc[p] = "looked"
  /\ IF unwanted
     THEN /\ pc' = [pc EXCEPT ![p] = "removed"]
          /\ locks' = [locks EXCEPT ![name[p]] = Nil]
     ELSE /\ pc' = [pc EXCEPT ![p] = "kept"]
          /\ UNCHANGED locks
  /\ UNCHANGED <<mu, locked, waiters, name, ref>>

\* Faults: the entry always goes; the process counts itself among the waiters.
UnlockDelete_Always(p) == DeleteIf(p, TRUE)
UnlockDelete_OffByOne(p) == DeleteIf(p, waiters[ref[p]] = 1)

UnlockDelete(p) == DeleteIf(p, waiters[ref[p]] = 0)

\* Unlock: nameLock.Unlock(), l.mu.Unlock()
Release(p, stillLocked) ==
  /\ pc[p] \in {"removed", "kept"}
  /\ locked' = IF stillLocked THEN locked ELSE locked \ {ref[p]}
  /\ mu' = Nil
  /\ pc' = [pc EXCEPT ![p] = "idle"]
  /\ name' = [name EXCEPT ![p] = Nil]
  /\ ref' = [ref EXCEPT ![p] = Nil]
  /\ UNCHANGED <<locks, waiters>>

\* Fault: the entry is left locked when it is handed to a waiter.
UnlockRelease_Kept(p) == Release(p, pc[p] = "kept")

UnlockRelease(p) == Release(p, FALSE)

Next == \E p \in Procs : \/ \E n \in Names : LockRegister(p, n)
                         \/ LockAcquire(p)
                         \/ LockDec(p)
                         \/ UnlockLookup(p)
                         \/ UnlockDelete(p)
                         \/ UnlockRelease(p)

Spec == Init /\ [][Next]_vars

\* A goroutine inside Lock or Unlock keeps running, and a holder unlocks in the
\* end (every caller defers its Unlock).  Nobody has to call Lock.
Fairness ==
  \A p \in Procs : WF_vars(\/ LockAcquire(p) \/ LockDec(p) \/ UnlockLookup(p)
                           \/ UnlockDelete(p) \/ UnlockRelease(p))

FairSpec == Spec /\ Fairness
-----------------------------------------------------------------------------
Owning == {"locked", "held", "looked", "removed", "kept"}
Active == Owning \cup {"waiting"}

\* The nameLock is taken and the process has not finished its Unlock.
Owns(p, n) == pc[p] \in Owning /\ name[p] = n

TypeOK == /\ mu \in Procs \cup {Nil}
          /\ locks \in [Names -> Ctrs \cup {Nil}]
          /\ locked \in SUBSET Ctrs
          /\ waiters \in [Ctrs -> Nat]
          /\ pc \in [Procs -> PCs]
          /\ name \in [Procs -> Names \cup {Nil}]
          /\ ref \in [Procs -> Ctrs \cup {Nil}]

\* Two goroutines are never both between the Lock and the Unlock of one name,
\* although the mutex object behind the name is deleted and created again
\* while other goroutines are on their way to it (locker.go:84-92, 105-107).
MutualExclusion ==
  \A p, q \in Procs : \A n \in Names : Owns(p, n) /\ Owns(q, n) => p = q

\* The Unlock of a name that the caller has locked never returns ErrNoSuchLock:
\* the entry under that name is there and is the object the caller locked
\* (locker.go:99-103).
UnlockFindsOwnLock ==
  \A p \in Procs : /\ pc[p] # "error"
                   /\ pc[p] \in {"held", "looked"} => locks[name[p]] = ref[p]

\* The table does not leak: an entry is there only while somebody waits for
\* its name or holds it ("If the given lock is not being waited on by any
\* other callers, it is deleted", locker.go:96).
NoLeakedEntry ==
  \A n \in Names : locks[n] # Nil => \E p \in Procs : pc[p] \in Active /\ name[p] = n

WaitersOf(c) == {p \in Procs : ref[p] = c /\ pc[p] \in {"waiting", "locked"}}

\* The inductive invariant behind the three properties above: the counter of
\* an object counts the goroutines between inc and dec (locker.go:86, 92), its
\* mutex is locked by one owner, a goroutine's object is the table's until its
\* Unlock deletes the entry, and a deleted object is known to its deleter alone.
IInv ==
  /\ TypeOK
  /\ \A p \in Procs :
       /\ pc[p] # "error"
       /\ pc[p] = "idle" <=> ref[p] = Nil
       /\ pc[p] = "idle" <=> name[p] = Nil
       /\ mu = p <=> pc[p] \in {"looked", "removed", "kept"}
       /\ pc[p] \in Active \ {"removed"} => locks[name[p]] = ref[p]
       /\ pc[p] = "removed" => locks[name[p]] = Nil /\ \A q \in Procs : ref[q] = ref[p] => q = p
       /\ pc[p] \in Owning => ref[p] \in locked
       /\ pc[p] = "kept" => WaitersOf(ref[p]) # {}
  /\ \A p, q \in Procs : pc[p] \in Owning /\ pc[q] \in Owning /\ ref[p] = ref[q] => p = q
  /\ \A c \in Ctrs : /\ waiters[c] = Cardinality(WaitersOf(c))
                     /\ c \in locked => \E p \in Procs : ref[p] = c /\ pc[p] \in Owning
  /\ \A m, n \in Names : locks[m] = locks[n] /\ locks[m] # Nil => m = n
  /\ NoLeakedEntry

\* The locker implements one plain mutex per name.
Abstract == INSTANCE NamedMutex
              WITH wants <- name, NoName <- Nil,
                   holds <- {p \in Procs : pc[p] \in Owning}
ImplementsNamedMutex == Abstract!Spec

\* Whenever somebody waits for a name, somebody gets it: a wakeup is not lost
\* when an entry is deleted under a waiter.
SomeWaiterProceeds ==
  \A n \in Names : (\E p \in Procs : pc[p] = "waiting" /\ name[p] = n)
                     ~> (\E p \in Procs : Owns(p, n))
=============================================================================
