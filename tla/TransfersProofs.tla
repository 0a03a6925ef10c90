-------------------------- MODULE TransfersProofs --------------------------
(***************************************************************************)
(* Proofs about TransferManager and about Transfers, the manager and its   *)
(* users, for any number of them, of transfers and layers and any limits.  *)
(* What the users rely on is in PullPushProofs.                            *)
(***************************************************************************)
EXTENDS Transfers, PullPushProofs, FiniteSetTheorems

\* More time for a leaf than by default, and a second attempt, for slow machines.
USE SMTT(30), Z3T(30), ZenonT(30)

\* The transfers that hold a slot are finitely many.
LEMMA SlotsFinite ==
  ASSUME TMTypeOK PROVE IsFiniteSet(Slots) /\ Cardinality(Slots) \in Nat
BY TMAssumption, FS_Subset, FS_CardinalityType DEF TMTypeOK, Slots

\* A new transferManager satisfies the inductive invariant.
LEMMA InitTMInv == Init => TMInv
<1> SUFFICES ASSUME Init PROVE TMInv
  OBVIOUS
<1>1. TMTypeOK
  BY TMAssumption DEF Init, TMTypeOK
<1>2. QueueOK /\ LifeOK
  BY TMAssumption DEF Init, QueueOK, LifeOK
<1>3. QueueNotStranded
  BY FS_EmptySet DEF Init, QueueNotStranded, Slots
<1> QED
  BY <1>1, <1>2, <1>3 DEF Init, TMInv, WatchedNotCancelled, ReleasedExactly

\* SetConcurrency changes the limit only: neither the queue nor who holds a slot.
LEMMA SetConcurrencyInv ==
  ASSUME TMInv, NEW n \in Limits, SetConcurrency(n)
  PROVE  TMInv'
BY TMAssumption DEF TMInv, SetConcurrency, xferVars, TMTypeOK, QueueOK, LifeOK, Gone,
   QueueNotStranded, Slots, WatchedNotCancelled, ReleasedExactly

\* Transfer makes a transfer: it takes a slot, or queues behind one who holds one.
LEMMA TransferNewInv ==
  ASSUME TMInv, NEW c \in Clients, NEW k \in Keys, NEW x \in Xfers, TransferNew(c, k, x)
  PROVE  TMInv'
<1> USE TMAssumption DEF TMInv
<1>1. /\ key[x] = Nil /\ transfers[k] = Nil
      /\ key' = [key EXCEPT ![x] = k]
      /\ running' = running \cup {x}
      /\ watchers' = [watchers EXCEPT ![x] = {c}]
      /\ transfers' = [transfers EXCEPT ![k] = x]
      /\ blockedOn' = [blockedOn EXCEPT ![c] = Nil]
      /\ UNCHANGED <<concurrencyLimit, inactive, yielded, cancelled, closed, released>>
  BY Zenon DEF TransferNew, CreateIf
<1>2. x \notin running /\ x \notin started /\ x \notin closed /\ x \notin cancelled /\ x \notin yielded
  BY <1>1, Zenon DEF LifeOK
<1>3. CASE SlotFree
  <2>1. /\ started' = started \cup {x} /\ activeTransfers' = activeTransfers + 1
        /\ UNCHANGED waitingTransfers
    BY <1>3, Zenon DEF TransferNew, CreateIf
  <2>2. TMTypeOK'
    BY <1>1, <2>1 DEF TMTypeOK
  <2>3. Slots' = Slots \cup {x} /\ x \notin Slots
    BY <1>1, <1>2, <2>1, Zenon DEF Slots
  <2>4. QueueNotStranded'
    BY <2>1, <2>3, SlotsFinite, FS_AddElement, Zenon DEF QueueNotStranded
  <2>5. QueueOK'
    BY <1>1, <1>2, <2>1 DEF QueueOK
  <2>6. LifeOK'
    BY <1>1, <1>2, <2>1 DEF LifeOK, TMTypeOK, Gone
  <2>7. WatchedNotCancelled' /\ ReleasedExactly'
    BY <1>1, <1>2 DEF WatchedNotCancelled, ReleasedExactly, TMTypeOK
  <2> QED
    BY <2>2, <2>4, <2>5, <2>6, <2>7
<1>4. CASE ~SlotFree
  <2>1. /\ waitingTransfers' = Append(waitingTransfers, x)
        /\ UNCHANGED <<started, activeTransfers>>
    BY <1>4, Zenon DEF TransferNew, CreateIf
  <2>2. TMTypeOK'
    BY <1>1, <2>1 DEF TMTypeOK
  <2>3. Slots' = Slots /\ Slots # {}
    <3>1. activeTransfers > 0
      BY <1>4 DEF SlotFree, TMTypeOK
    <3>2. Cardinality(Slots) # 0
      BY <3>1 DEF QueueNotStranded
    <3>3. Slots # {}
      BY <3>2, FS_EmptySet
    <3> QED
      BY <3>3, <1>1, <2>1, Zenon DEF Slots
  <2>4. QueueNotStranded'
    BY <2>1, <2>3 DEF QueueNotStranded
  <2>5. QueueOK'
    BY <1>1, <1>2, <2>1 DEF QueueOK, TMTypeOK
  <2>6. LifeOK'
    BY <1>1, <1>2, <2>1 DEF LifeOK, TMTypeOK, Gone
  <2>7. WatchedNotCancelled' /\ ReleasedExactly'
    BY <1>1, <1>2 DEF WatchedNotCancelled, ReleasedExactly, TMTypeOK
  <2> QED
    BY <2>2, <2>4, <2>5, <2>6, <2>7
<1> QED
  BY <1>3, <1>4

\* Transfer finds one: it is in the map, so nobody has closed or released it.
LEMMA TransferFoundInv ==
  ASSUME TMInv, NEW c \in Clients, NEW k \in Keys, NEW x \in Xfers,
         TransferExisting(c, k, x) \/ TransferCancelled(c, k, x)
  PROVE  TMInv'
<1> USE TMAssumption DEF TMInv
<1>1. /\ transfers[k] = x
      /\ UNCHANGED <<mgrVars, key, inactive, yielded, running, cancelled, closed, released>>
      /\ \/ x \notin cancelled /\ watchers' = [watchers EXCEPT ![x] = @ \cup {c}]
         \/ watchers' = watchers
      /\ blockedOn' \in {[blockedOn EXCEPT ![c] = Nil], [blockedOn EXCEPT ![c] = x]}
  BY Zenon DEF TransferExisting, WatchIf, TransferCancelled, xferVars
<1>2. key[x] = k /\ x \notin closed
  BY <1>1 DEF LifeOK, Gone, TMTypeOK
<1>3. TMTypeOK'
  <2>1. watchers' \in [Xfers -> SUBSET Clients]
    BY <1>1 DEF TMTypeOK
  <2>2. blockedOn' \in [Clients -> Xfers \cup {Nil}]
    BY <1>1, Zenon DEF TMTypeOK
  <2> QED
    BY <1>1, <2>1, <2>2, Zenon DEF TMTypeOK, mgrVars
<1>4. QueueOK' /\ QueueNotStranded'
  BY <1>1 DEF QueueOK, QueueNotStranded, Slots, mgrVars
<1>5. LifeOK'
  BY <1>1, <1>2 DEF LifeOK, Gone, TMTypeOK, mgrVars
<1>6. WatchedNotCancelled' /\ ReleasedExactly'
  BY <1>1, <1>2 DEF WatchedNotCancelled, ReleasedExactly, TMTypeOK
<1> QED
  BY <1>3, <1>4, <1>5, <1>6

\* Release cancels the transfer or closes released, never for another watcher.
LEMMA ReleaseInv ==
  ASSUME TMInv, NEW c \in Clients, NEW x \in Xfers, Release(c, x)
  PROVE  TMInv'
<1> USE DEF TMInv, Release, mgrVars
<1>1. TMTypeOK'
  BY Zenon DEF TMTypeOK
<1>2. QueueOK' /\ QueueNotStranded'
  BY DEF QueueOK, QueueNotStranded, Slots
<1>3. key[x] # Nil
  BY Zenon DEF LifeOK
<1>4. LifeOK'
  BY <1>3 DEF LifeOK, Gone, TMTypeOK
<1>5. WatchedNotCancelled' /\ ReleasedExactly'
  BY DEF WatchedNotCancelled, ReleasedExactly, TMTypeOK
<1> QED
  BY <1>1, <1>2, <1>4, <1>5

\* The two events of a transfer function: it may give its slot back, and it ends.
LEMMA FuncInv ==
  ASSUME TMInv, NEW x \in Xfers, FuncInactive(x) \/ FuncDone(x)
  PROVE  TMInv'
<1> USE TMAssumption DEF TMInv
<1>1. /\ x \in started /\ x \in running
      /\ \/ inactive' = inactive \cup {x} /\ running' = running
         \/ running' = running \ {x} /\ inactive' = inactive
      /\ UNCHANGED <<mgrVars, key, watchers, yielded, cancelled, closed, released, blockedOn>>
  BY Zenon DEF FuncInactive, FuncDone
<1>2. TMTypeOK'
  BY <1>1, Zenon DEF TMTypeOK, mgrVars
<1>3. QueueOK'
  BY <1>1 DEF QueueOK, TMTypeOK, mgrVars
<1>4. LifeOK'
  BY <1>1 DEF LifeOK, Gone, TMTypeOK, mgrVars
<1>5. QueueNotStranded' /\ WatchedNotCancelled' /\ ReleasedExactly'
  BY <1>1, Zenon DEF QueueNotStranded, Slots, mgrVars, WatchedNotCancelled, ReleasedExactly
<1> QED
  BY <1>2, <1>3, <1>4, <1>5

\* inactivate, called for a transfer that holds a slot: the slot goes to the first
\* of the queue, or the counter goes down with the number of holders.
LEMMA InactivateSlots ==
  ASSUME TMInv, NEW x \in Slots, Inactivate(x), yielded' = yielded \cup {x}, running' = running
  PROVE  /\ activeTransfers' \in Int /\ waitingTransfers' \in Seq(Xfers)
         /\ started \subseteq started' /\ started' \subseteq started \cup running
         /\ QueueOK' /\ QueueNotStranded'
<1> USE TMAssumption DEF TMInv
<1>1. x \in started /\ x \notin yielded /\ x \in Xfers
  BY DEF Slots, TMTypeOK
<1>2. CASE waitingTransfers # <<>>
  <2> DEFINE h == Head(waitingTransfers)
  <2>1. /\ started' = started \cup {h}
        /\ waitingTransfers' = Tail(waitingTransfers)
        /\ activeTransfers' = activeTransfers
    BY <1>1, <1>2 DEF Inactivate
  <2>2. /\ h = waitingTransfers[1] /\ 1 \in 1..Len(waitingTransfers)
        /\ h \in Xfers /\ Tail(waitingTransfers) \in Seq(Xfers)
        /\ Len(Tail(waitingTransfers)) = Len(waitingTransfers) - 1
        /\ \A i \in 1..Len(Tail(waitingTransfers)) :
             Tail(waitingTransfers)[i] = waitingTransfers[i + 1] /\ i + 1 \in 1..Len(waitingTransfers)
    BY <1>2 DEF TMTypeOK
  <2>3. h \in running /\ h \notin started /\ h \notin yielded
    BY <2>2 DEF QueueOK, LifeOK
  <2>4. Slots' = (Slots \ {x}) \cup {h} /\ h \notin Slots
    BY <1>1, <2>1, <2>3 DEF Slots
  <2>5. Cardinality(Slots') = Cardinality(Slots)
    <3>1. /\ IsFiniteSet(Slots \ {x}) /\ Cardinality(Slots \ {x}) = Cardinality(Slots) - 1
      BY SlotsFinite, FS_RemoveElement, Zenon
    <3>2. Cardinality((Slots \ {x}) \cup {h}) = Cardinality(Slots \ {x}) + 1
      BY <2>4, <3>1, FS_AddElement, Zenon
    <3> QED
      BY <2>4, <3>1, <3>2, SlotsFinite
  <2>6. QueueNotStranded'
    BY <2>1, <2>4, <2>5 DEF QueueNotStranded
  <2>7. QueueOK'
    BY <2>1, <2>2 DEF QueueOK
  <2> QED
    BY <2>1, <2>2, <2>3, <2>6, <2>7 DEF TMTypeOK
<1>3. CASE waitingTransfers = <<>>
  <2>1. activeTransfers' = activeTransfers - 1 /\ UNCHANGED <<started, waitingTransfers>>
    BY <1>1, <1>3 DEF Inactivate
  <2>2. Slots' = Slots \ {x}
    BY <2>1 DEF Slots
  <2>3. Cardinality(Slots') = Cardinality(Slots) - 1
    BY <2>2, SlotsFinite, FS_RemoveElement, Zenon
  <2> QED
    BY <1>3, <2>1, <2>3 DEF QueueNotStranded, QueueOK, TMTypeOK
<1> QED
  BY <1>2, <1>3

\* The clean-up goroutine sees inactive closed.
LEMMA CleanupInactiveInv ==
  ASSUME TMInv, NEW x \in Xfers, CleanupInactive(x)
  PROVE  TMInv'
<1> USE TMAssumption DEF TMInv, CleanupInactive
<1>1. x \in Slots
  BY Zenon DEF LifeOK, Slots
<1>2. /\ activeTransfers' \in Int /\ waitingTransfers' \in Seq(Xfers)
      /\ started \subseteq started' /\ started' \subseteq started \cup running
      /\ QueueOK' /\ QueueNotStranded'
  BY <1>1, InactivateSlots
<1>3. TMTypeOK'
  BY <1>2, Zenon DEF TMTypeOK
<1>4. LifeOK'
  BY <1>1, <1>2 DEF LifeOK, Gone, TMTypeOK, Slots
<1>5. WatchedNotCancelled' /\ ReleasedExactly'
  BY Zenon DEF WatchedNotCancelled, ReleasedExactly
<1> QED
  BY <1>2, <1>3, <1>4, <1>5

\* The clean-up goroutine sees Done(): a transfer that ran holds its slot unless it
\* has given it back before.
LEMMA CleanupDoneInv ==
  ASSUME TMInv, NEW x \in Xfers, CleanupDone(x)
  PROVE  TMInv'
<1> USE TMAssumption DEF TMInv
<1>1. /\ key[x] # Nil /\ transfers[key[x]] = x /\ x \notin running
      /\ transfers' = [transfers EXCEPT ![key[x]] = Nil]
      /\ UNCHANGED <<concurrencyLimit, key, watchers, inactive, running, cancelled,
                     closed, released, blockedOn>>
  BY Zenon DEF CleanupDone, CleanupDoneIf
<1>2. x \in started /\ x \notin closed
  BY <1>1, Zenon DEF LifeOK, Gone
<1>3. /\ activeTransfers' \in Int /\ waitingTransfers' \in Seq(Xfers)
      /\ started \subseteq started' /\ started' \subseteq started \cup running
      /\ yielded \subseteq yielded' /\ yielded' \subseteq yielded \cup {x}
      /\ QueueOK' /\ QueueNotStranded'
  <2>1. CASE x \in yielded
    BY <1>1, <2>1 DEF CleanupDone, CleanupDoneIf, QueueOK, QueueNotStranded, Slots, TMTypeOK
  <2>2. CASE x \notin yielded
    BY <1>1, <1>2, <2>2, InactivateSlots, ZenonT(30) DEF CleanupDone, CleanupDoneIf, Slots
  <2> QED
    BY <2>1, <2>2
<1>4. TMTypeOK'
  BY <1>1, <1>3 DEF TMTypeOK
<1>5. LifeOK'
  BY <1>1, <1>2, <1>3 DEF LifeOK, Gone, TMTypeOK
<1>6. WatchedNotCancelled' /\ ReleasedExactly'
  BY <1>1, Zenon DEF WatchedNotCancelled, ReleasedExactly
<1> QED
  BY <1>3, <1>4, <1>5, <1>6

\* Close decides under the transfer's own lock whether a watcher is left.
LEMMA CloseInv ==
  ASSUME TMInv, NEW x \in Xfers, Close(x)
  PROVE  TMInv'
<1> USE DEF TMInv, Close, CloseIf, mgrVars
<1>1. TMTypeOK'
  BY ZenonT(30) DEF TMTypeOK
<1>2. QueueOK' /\ QueueNotStranded'
  BY DEF QueueOK, QueueNotStranded, Slots
<1>3. LifeOK'
  BY Zenon DEF LifeOK, Gone, TMTypeOK
<1>4. WatchedNotCancelled' /\ ReleasedExactly'
  BY Zenon DEF WatchedNotCancelled, ReleasedExactly, TMTypeOK
<1> QED
  BY <1>1, <1>2, <1>3, <1>4, Zenon

\* Every step of the manager and of a transfer keeps the inductive invariant.
LEMMA NextTMInv == TMInv /\ [Next]_vars => TMInv'
<1> SUFFICES ASSUME TMInv, [Next]_vars PROVE TMInv'
  OBVIOUS
<1>1. CASE UNCHANGED vars
  <2>1. TMTypeOK' /\ WatchedNotCancelled' /\ ReleasedExactly'
    BY <1>1, Zenon DEF vars, mgrVars, xferVars, TMInv, TMTypeOK, WatchedNotCancelled, ReleasedExactly
  <2>2. QueueOK' /\ QueueNotStranded'
    BY <1>1, Zenon DEF vars, mgrVars, xferVars, TMInv, QueueOK, QueueNotStranded, Slots
  <2>3. LifeOK'
    BY <1>1, Zenon DEF vars, mgrVars, xferVars, TMInv, LifeOK, Gone
  <2> QED
    BY <2>1, <2>2, <2>3, Zenon DEF TMInv
<1>2. CASE Next
  BY <1>2, SetConcurrencyInv, TransferNewInv, TransferFoundInv, ReleaseInv, FuncInv,
     CleanupInactiveInv, CleanupDoneInv, CloseInv, ZenonT(30) DEF Next, Transfer
<1> QED
  BY <1>1, <1>2

\* The inductive invariant holds in every reachable state of the manager.
THEOREM SpecTMInv == Spec => []TMInv
BY InitTMInv, NextTMInv, PTL DEF Spec

\* The inductive invariant implies what is claimed of the manager.
LEMMA TMInvImplies ==
  TMInv => QueueNotStranded /\ NoDuplicateTransfer /\ WatchedNotCancelled /\ ReleasedExactly
BY DEF TMInv, LifeOK, NoDuplicateTransfer

\* No step but SetConcurrency frees a slot for a queued transfer that stays queued.
LEMMA StepServesQueue == ASSUME TMInv, [Next]_vars PROVE OnlyLimitFreesSlot
<1> SUFFICES ASSUME waitingTransfers' # <<>>, SlotFree', concurrencyLimit' = concurrencyLimit
             PROVE  waitingTransfers # <<>> /\ SlotFree
  BY DEF OnlyLimitFreesSlot
<1>1. CASE UNCHANGED <<waitingTransfers, activeTransfers>>
  BY <1>1 DEF SlotFree
<1>2. ASSUME NEW c \in Clients, NEW k \in Keys, NEW x \in Xfers, Transfer(c, k, x)
      PROVE  waitingTransfers # <<>> /\ SlotFree
  <2>1. CASE TransferNew(c, k, x) /\ SlotFree
    <3>1. activeTransfers' = activeTransfers + 1 /\ waitingTransfers' = waitingTransfers
      BY <2>1, Zenon DEF TransferNew, CreateIf
    <3> QED
      BY <2>1, <3>1
  <2>2. CASE TransferNew(c, k, x) /\ ~SlotFree
    <3>1. activeTransfers' = activeTransfers
      BY <2>2, Zenon DEF TransferNew, CreateIf
    <3> QED
      BY <2>2, <3>1 DEF SlotFree
  <2>3. CASE TransferExisting(c, k, x) \/ TransferCancelled(c, k, x)
    <3>1. UNCHANGED <<waitingTransfers, activeTransfers>>
      BY <2>3, Zenon DEF TransferExisting, WatchIf, TransferCancelled, mgrVars
    <3> QED
      BY <1>1, <3>1
  <2> QED
    BY <1>2, <2>1, <2>2, <2>3, Zenon DEF Transfer
<1>3. ASSUME NEW x \in Xfers, CleanupInactive(x) \/ CleanupDone(x)
      PROVE  waitingTransfers # <<>> /\ SlotFree
  <2>1. Inactivate(x) \/ UNCHANGED <<waitingTransfers, activeTransfers>>
    BY <1>3, Zenon DEF CleanupInactive, CleanupDone, CleanupDoneIf
  <2>2. CASE Inactivate(x)
    <3>1. \/ waitingTransfers # <<>> /\ activeTransfers' = activeTransfers
          \/ UNCHANGED <<waitingTransfers, activeTransfers>>
      BY <2>2, Zenon DEF Inactivate
    <3> QED
      BY <1>1, <3>1 DEF SlotFree
  <2> QED
    BY <1>1, <2>1, <2>2
<1>4. ASSUME NEW x \in Xfers, FuncInactive(x) \/ FuncDone(x) \/ Close(x) \/ \E c \in Clients : Release(c, x)
      PROVE  UNCHANGED <<waitingTransfers, activeTransfers>>
  BY <1>4, Zenon DEF FuncInactive, FuncDone, Close, CloseIf, Release, mgrVars
<1>5. CASE UNCHANGED vars \/ \E n \in Limits : SetConcurrency(n)
  BY <1>1, <1>5, Zenon DEF vars, mgrVars, SetConcurrency
<1> QED
  BY <1>1, <1>2, <1>3, <1>4, <1>5, Zenon DEF Next

\* However many transfers there are and however the limit changes, the counter of active
\* transfers is exact and a queued transfer has one before it that holds a slot and will
\* start it or another one that queues; and a slot that is free while a transfer is queued
\* was made so by a change of the limit, which starts nobody (transfer.go:304-308).
THEOREM QueueIsServed == Spec => []QueueNotStranded /\ [][OnlyLimitFreesSlot]_vars
<1>1. TMInv /\ [Next]_vars => [OnlyLimitFreesSlot]_vars
  BY StepServesQueue
<1> QED
  BY <1>1, SpecTMInv, TMInvImplies, PTL DEF Spec

\* Two transfers under one key never run at the same time.
THEOREM TransfersAreShared == Spec => []NoDuplicateTransfer
BY SpecTMInv, TMInvImplies, PTL

\* Transfer never returns a transfer that is cancelled while the caller watches it.
THEOREM WatchersKeepTransfer == Spec => []WatchedNotCancelled
BY SpecTMInv, TMInvImplies, PTL

\* released is closed exactly when the manager and the watchers are done.
THEOREM ReleaseIsExact == Spec => []ReleasedExactly
BY SpecTMInv, TMInvImplies, PTL
-----------------------------------------------------------------------------
\* No step of the manager changes a key or opens released again.
LEMMA StepKeeps == ASSUME TMInv, [Next]_vars PROVE NothingTakenBack
<1> USE DEF NothingTakenBack
<1>1. CASE UNCHANGED vars
  BY <1>1 DEF vars, xferVars
<1>2. ASSUME NEW c \in Clients, NEW k \in Keys, NEW x \in Xfers, Transfer(c, k, x) PROVE NothingTakenBack
  BY <1>2, Zenon DEF Transfer, TransferNew, CreateIf, TransferExisting, WatchIf, TransferCancelled,
     xferVars, TMInv, TMTypeOK
<1>3. ASSUME NEW x \in Xfers, NEW c \in Clients, Release(c, x) PROVE NothingTakenBack
  BY <1>3 DEF Release
<1>4. ASSUME NEW x \in Xfers, \/ FuncInactive(x) \/ FuncDone(x) \/ CleanupInactive(x)
                              \/ CleanupDone(x) \/ Close(x)
      PROVE  NothingTakenBack
  BY <1>4, Zenon DEF FuncInactive, FuncDone, CleanupInactive, CleanupDone, CleanupDoneIf, Close, CloseIf
<1>5. ASSUME NEW n \in Limits, SetConcurrency(n) PROVE NothingTakenBack
  BY <1>5 DEF SetConcurrency, xferVars
<1> QED
  BY <1>1, <1>2, <1>3, <1>4, <1>5, Zenon DEF Next
-----------------------------------------------------------------------------
\* Every step of a push is a step of the manager, or none of its business.
LEMMA PushIsManaged == ASSUME TMInv, UInv, UNext PROVE [Next]_vars
<1> USE DEF UInv, UTypeOK
<1>1. ASSUME NEW c \in Clients, AskSkip(c) \/ Wait(c) \/ WaitOver(c) \/ WaitGivenUp(c)
      PROVE  UNCHANGED vars
  BY <1>1, Zenon DEF AskSkip, Wait, WaitIf, WaitOver, WaitGivenUp
<1>2. ASSUME NEW c \in Clients, NEW x \in Xfers, AskNew(c, x) \/ AskExisting(c, x) \/ AskCancelled(c, x)
      PROVE  \E k \in Keys : Transfer(c, k, x)
  <2>1. Head(todo[c]) \in Keys
    BY <1>2 DEF AskNew, AskExisting, AskCancelled, Asks
  <2> QED
    BY <1>2, <2>1, Zenon DEF AskNew, AskExisting, AskCancelled, Transfer
<1>3. ASSUME NEW c \in Clients, Unwind(c)
      PROVE  UNCHANGED vars \/ \E x \in Xfers : Release(c, x)
  <2>1. uploads[c] # <<>> => uploads[c][Len(uploads[c])] \in Xfers
    OBVIOUS
  <2> QED
    BY <1>3, <2>1, Zenon DEF Unwind
<1>4. ASSUME NEW x \in Xfers, UploadStep(x) \/ UploadError(x)
      PROVE  UNCHANGED vars \/ FuncDone(x)
  BY <1>4, Zenon DEF UploadStep, UploadError, UploadStart, UploadOk, UploadCancelled, UploadDelayOver, UFail
<1>5. ASSUME NEW x \in Xfers, UManager(x) PROVE CleanupDone(x) \/ Close(x)
  BY <1>5 DEF UManager
<1> QED
  BY <1>1, <1>2, <1>3, <1>4, <1>5, Zenon DEF UNext, PushStep, Next

\* The pushes start in states that satisfy their invariant.
LEMMA InitUInv == ASSUME Init, UInitAt("ask") PROVE UInv
<1>1. UTypeOK
  BY UploadAssumption DEF UInitAt, UTypeOK
<1>2. \A c \in Clients : PushOK(c)
  BY UploadAssumption DEF UInitAt, PushOK
<1>3. \A x \in Xfers : UploadOK(x)
  BY DEF Init, UInitAt, UploadOK
<1> QED
  BY <1>1, <1>2, <1>3 DEF UInv

\* The invariant of the pushes says what a push that succeeded has achieved.
LEMMA UInvImplies == UInv => PushedIsThere
BY DEF UInv, PushOK, PushedIsThere

\* Every step of a pull is a step of the manager, or none of its business.
LEMMA PullIsManaged == ASSUME TMInv, DInv, DNext PROVE [Next]_vars
<1>1. ASSUME NEW c \in Clients,
             ScanFound(c) \/ ScanMissing(c) \/ ScanComplete(c) \/ WaitOk(c) \/ UnwindLayer(c)
      PROVE  UNCHANGED vars
  BY <1>1, Zenon DEF ScanFound, ScanMissing, ScanComplete, WaitOk, UnwindLayer
<1>2. ASSUME NEW c \in Clients, NEW x \in Xfers,
             FetchNew(c, x) \/ FetchExisting(c, x) \/ FetchCancelled(c, x)
      PROVE  \E k \in Keys : Transfer(c, k, x)
  BY <1>2, PullNames, Zenon DEF FetchNew, FetchExisting, FetchCancelled, Transfer
<1>3. ASSUME NEW c \in Clients, WaitError(c) \/ WaitCancelled(c) \/ UnwindWatch(c) \/ CallRelease(c)
      PROVE  UNCHANGED vars \/ \E x \in Xfers : Release(c, x)
  BY <1>3, PullNames, Zenon DEF WaitError, WaitCancelled, GiveUp, UnwindWatch, CallRelease
<1>4. ASSUME NEW x \in Xfers, WorkStep(x) \/ DownloadError(x) \/ RegisterError(x) \/ WorkUnref(x)
      PROVE  UNCHANGED vars \/ FuncInactive(x) \/ FuncDone(x)
  BY <1>4, Zenon DEF WorkStep, DownloadError, RegisterError, WorkUnref, UnrefWhen, WorkStart, DownloadOk,
     DownloadCancelled, DelayOver, AwaitParent, AwaitSource, Await, Register, WorkReturn, Fail
<1>5. ASSUME NEW x \in Xfers, Manager(x) PROVE CleanupInactive(x) \/ CleanupDone(x) \/ Close(x)
  BY <1>5 DEF Manager
<1> QED
  BY <1>1, <1>2, <1>3, <1>4, <1>5, Zenon DEF DNext, ClientStep, Next

\* The pulls start in states that satisfy their invariant.
LEMMA InitDInv == ASSUME Init, DInitAt("scan") PROVE DInv
<1>1. DTypeOK
  BY DEF DInitAt, DTypeOK
<1>2. ASSUME NEW c \in Clients PROVE PullOK(c)
  <2>1. phase[c] = "scan" /\ mine[c] = <<>> /\ Len(mine[c]) = 0 /\ topLayer[c] = 0 /\ idx[c] = 1
    BY DEF DInitAt
  <2>2. Top[c] \in 1..Depth /\ Depth \in Nat
    BY DownloadAssumption
  <2>3. 0 = 1 - 1 /\ 1 <= 1 /\ 1 <= Top[c] + 1
    BY <2>2
  <2> QED
    BY <2>1, <2>3, NothingIn, Zenon DEF PullOK
<1>3. \A x \in Xfers : WorkOK(x)
  BY Zenon DEF DInitAt, WorkOK
<1> QED
  BY <1>1, <1>2, <1>3 DEF DInv

\* The invariant of the pulls says what a pull, or a download above another, may rely on.
LEMMA DInvImplies == ASSUME TMInv, DInv PROVE ResultRetained
<1>1. ASSUME NEW i \in Keys, holders[i] # {} PROVE Present(i)
  <2>1. i \in i..Depth
    BY DownloadAssumption
  <2> QED
    BY <1>1, <2>1 DEF Present
<1>2. ASSUME NEW x \in Xfers, result[x] = "ok", watchers[x] # {} PROVE Present(key[x])
  <2>1. key[x] \in Keys /\ x \notin released
    BY <1>2 DEF DInv, WorkOK, TMInv, TMTypeOK, ReleasedExactly
  <2>2. x \in holders[key[x]]
    BY <1>2, <2>1, Zenon DEF DInv, WorkOK
  <2> QED
    BY <1>1, <2>1, <2>2
<1>3. ASSUME NEW c \in Clients, phase[c] = "held" PROVE Present(Top[c])
  <2>1. PullOK(c) /\ mine[c] \in Seq(Xfers) /\ Top[c] \in Keys
    BY DownloadAssumption DEF DInv, DTypeOK
  <2>2. CASE mine[c] = <<>>
    BY <1>1, <1>3, <2>1, <2>2, Zenon DEF PullOK
  <2>3. CASE mine[c] # <<>>
    <3>1. 1 \in 1..Len(mine[c]) /\ mine[c][1] \in Xfers
      BY <2>1, <2>3
    <3> QED
      BY <1>2, <1>3, <2>1, <2>3, <3>1, ZenonT(30) DEF PullOK
  <2> QED
    BY <2>2, <2>3, Zenon
<1>4. ASSUME NEW c \in Clients, NEW x \in Xfers, wpc[x] = "register", parent[x] # Nil,
             c \in watchers[parent[x]]
      PROVE  Present(key[x] - 1)
  <2>1. WorkOK(x) /\ parent[x] \in Xfers
    BY <1>4 DEF DInv, DTypeOK
  <2>2. result[parent[x]] = "ok" /\ key[parent[x]] = key[x] - 1
    BY <1>4, <2>1, Zenon DEF WorkOK
  <2> QED
    BY <1>2, <1>4, <2>1, <2>2
<1> QED
  BY <1>3, <1>4 DEF ResultRetained

-----------------------------------------------------------------------------
(* The manager and its users.                                              *)

\* The inductive invariant of the manager and its users, of one kind at a time.
TInv ==
  /\ TMInv
  /\ IF users = "pulls" THEN DInv ELSE \A c \in Clients : phase[c] = "end"
  /\ IF users = "pushes" THEN UInv ELSE \A c \in Clients : uoutcome[c] = "none"
-----------------------------------------------------------------------------
\* The manager and its users start in states that satisfy the inductive invariant.
LEMMA InitTInv == TInit => TInv
<1> SUFFICES ASSUME TInit PROVE TInv
  OBVIOUS
<1>1. Init /\ TMInv
  BY InitTMInv DEF TInit
<1>2. CASE users = "pulls"
  BY <1>1, <1>2, InitDInv DEF TInit, TInv, UInitAt
<1>3. CASE users = "pushes"
  BY <1>1, <1>3, InitUInv, ZenonT(30) DEF TInit, TInv, DInitAt
<1>4. CASE users # "pulls" /\ users # "pushes"
  BY <1>1, <1>4 DEF TInit, TInv, DInitAt, UInitAt
<1> QED
  BY <1>2, <1>3, <1>4

\* Every step of a caller, a pull or a push keeps the inductive invariant.
LEMMA NextTInv == TInv /\ [TNext]_tvars => TInv'
<1> SUFFICES ASSUME TInv, [TNext]_tvars PROVE TInv'
  OBVIOUS
<1>0. TMInv
  BY DEF TInv
<1>1. CASE UNCHANGED tvars
  <2>1. UNCHANGED <<users, vars, ownDownload, ownUpload>>
    BY <1>1 DEF tvars
  <2>2. TMInv' /\ NothingTakenBack
    BY <1>0, <2>1, NextTMInv, StepKeeps
  <2>3. UNCHANGED dvars /\ UNCHANGED uvars
    BY <2>1 DEF dvars, uvars, ownDownload, ownUpload
  <2>4. (DInv => DInv') /\ (UInv => UInv')
    BY <1>0, <2>2, <2>3, NextDInv, NextUInv
  <2> QED
    BY <2>1, <2>2, <2>4 DEF TInv, ownDownload, clientVars, ownUpload, pushVars
<1>2. CASE Call(Next)
  <2>1. users = "callers" /\ Next /\ UNCHANGED <<users, ownDownload, ownUpload>>
    BY <1>2 DEF Call
  <2>2. TMInv'
    BY <1>0, <2>1, NextTMInv
  <2> QED
    BY <2>1, <2>2 DEF TInv, ownDownload, clientVars, ownUpload, pushVars
<1>3. CASE Pull(DNext)
  <2>1. users = "pulls" /\ DNext /\ UNCHANGED <<users, ownUpload>> /\ DInv
    BY <1>3 DEF Pull, TInv
  <2>2. TMInv' /\ NothingTakenBack
    BY <1>0, <2>1, PullIsManaged, NextTMInv, StepKeeps
  <2>3. DInv'
    BY <1>0, <2>1, <2>2, NextDInv
  <2> QED
    BY <2>1, <2>2, <2>3 DEF TInv, ownUpload, pushVars
<1>4. CASE Push(UNext)
  <2>1. users = "pushes" /\ UNext /\ UNCHANGED <<users, ownDownload>> /\ UInv
    BY <1>4 DEF Push, TInv
  <2>2. TMInv' /\ NothingTakenBack
    BY <1>0, <2>1, PushIsManaged, NextTMInv, StepKeeps
  <2>3. UInv'
    BY <1>0, <2>1, <2>2, NextUInv
  <2> QED
    BY <2>1, <2>2, <2>3 DEF TInv, ownDownload, clientVars
<1> QED
  BY <1>1, <1>2, <1>3, <1>4 DEF TNext

\* The inductive invariant holds whoever uses the manager.
THEOREM SpecTInv == TSpec => []TInv
BY InitTInv, NextTInv, PTL DEF TSpec

\* Below pulls and pushes the transfer manager keeps the promises it makes to any caller.
THEOREM ManagerServesUsers ==
  TSpec => [](QueueNotStranded /\ NoDuplicateTransfer /\ WatchedNotCancelled /\ ReleasedExactly)
<1>1. TInv => QueueNotStranded /\ NoDuplicateTransfer /\ WatchedNotCancelled /\ ReleasedExactly
  BY TMInvImplies DEF TInv
<1> QED
  BY SpecTInv, <1>1, PTL

\* When Upload returns without an error every layer is in the registry, whichever
\* call uploaded it.
THEOREM PushIsComplete == TSpec => []PushedIsThere
<1>1. TInv => PushedIsThere
  BY UInvImplies DEF TInv, PushedIsThere
<1> QED
  BY SpecTInv, <1>1, PTL

\* The layers of a successful pull stay in the store until its caller releases them,
\* and a parent layer as long as a client watches it and the download above it.
THEOREM PullIsRetained == TSpec => []ResultRetained
<1>1. TInv => ResultRetained
  BY DInvImplies DEF TInv, ResultRetained
<1> QED
  BY SpecTInv, <1>1, PTL
=============================================================================
