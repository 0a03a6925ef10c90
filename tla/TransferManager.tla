-------------------------- MODULE TransferManager --------------------------
(***************************************************************************)
(* distribution/xfer/transfer.go: the manager that deduplicates transfers  *)
(* by key and limits how many of them move data at a time, together with   *)
(* the part of a transfer's life it depends on (watchers, cancellation,    *)
(* Close and Released).  How progress reaches a watcher is in Broadcast.   *)
(*                                                                         *)
(* A transfer is a member of Xfers, allocated at most once.  Channels that *)
(* are only ever closed (start, inactive, running, released, the context)  *)
(* are the sets of transfers whose channel is closed.  tm.mu covers each   *)
(* action below, so each is one step.                                      *)
(***************************************************************************)
EXTENDS Integers, Sequences, FiniteSets

CONSTANTS Xfers, Keys, Clients, Limits, Nil

ASSUME TMAssumption == /\ IsFiniteSet(Xfers) /\ IsFiniteSet(Clients)
                       /\ Limits \subseteq Nat
                       /\ Nil \notin Xfers /\ Nil \notin Keys /\ Nil \notin Clients

VARIABLES
  concurrencyLimit, activeTransfers,  \* of the transferManager; limit 0 is no limit
  transfers,           \* [Keys -> Xfers or Nil]
  waitingTransfers,    \* the transfers whose start channel is queued
  key,                 \* of each transfer, Nil before it is created
  watchers,            \* of each transfer, the clients holding a Watcher
  started,             \* start is closed
  inactive,            \* the transfer function closed inactive
  yielded,             \* the clean-up goroutine has called inactivate
  running,             \* transfer.running is still open
  cancelled, closed, released,
  blockedOn            \* the cancelled transfer whose Done() a client in Transfer
                       \* waits for, or Nil

mgrVars == <<concurrencyLimit, activeTransfers, transfers, waitingTransfers, started>>
xferVars == <<key, watchers, inactive, yielded, running, cancelled, closed, released>>
vars == <<mgrVars, xferVars, blockedOn>>

Init == /\ concurrencyLimit \in Limits
        /\ activeTransfers = 0
        /\ transfers = [k \in Keys |-> Nil]
        /\ waitingTransfers = <<>>
        /\ key = [x \in Xfers |-> Nil]
        /\ watchers = [x \in Xfers |-> {}]
        /\ started = {} /\ inactive = {} /\ yielded = {} /\ running = {}
        /\ cancelled = {} /\ closed = {} /\ released = {}
        /\ blockedOn = [c \in Clients |-> Nil]

SetConcurrency(n) ==
  /\ n # concurrencyLimit
  /\ concurrencyLimit' = n
  /\ UNCHANGED <<activeTransfers, transfers, waitingTransfers, started, xferVars, blockedOn>>
-----------------------------------------------------------------------------
Created == {x \in Xfers : key[x] # Nil}

\* The client calls Transfer(k), or is back from waiting for Done() in that call.
\* Bound: a call is made only while there is a transfer left for it to create.
Calls(c, k) ==
  IF blockedOn[c] # Nil
  THEN key[blockedOn[c]] = k /\ blockedOn[c] \notin running
  ELSE /\ Cardinality(Xfers \ Created) > Cardinality({d \in Clients : blockedOn[d] # Nil})
       /\ \A x \in Xfers : c \in watchers[x] => key[x] # k

\* A slot is free for one more transfer.
SlotFree == concurrencyLimit = 0 \/ activeTransfers < concurrencyLimit

\* Allocation order does not matter; fixing it saves TLC the permutations.
Fresh == CHOOSE x \in Xfers : key[x] = Nil

\* No transfer under the key: create one, start it or queue it, watch it.
CreateIf(c, k, x, absent) ==
  /\ Calls(c, k)
  /\ absent
  /\ key[x] = Nil /\ x = Fresh
  /\ IF SlotFree
     THEN /\ started' = started \cup {x}
          /\ activeTransfers' = activeTransfers + 1
          /\ UNCHANGED waitingTransfers
     ELSE /\ waitingTransfers' = Append(waitingTransfers, x)
          /\ UNCHANGED <<started, activeTransfers>>
  /\ key' = [key EXCEPT ![x] = k]
  /\ running' = running \cup {x}
  /\ watchers' = [watchers EXCEPT ![x] = {c}]
  /\ transfers' = [transfers EXCEPT ![k] = x]
  /\ blockedOn' = [blockedOn EXCEPT ![c] = Nil]
  /\ UNCHANGED <<concurrencyLimit, inactive, yielded, cancelled, closed, released>>

\* Fault: a cancelled transfer is replaced at once, not waited for.
TransferNew_Replace(c, k, x) == CreateIf(c, k, x, transfers[k] \in cancelled \cup {Nil})

TransferNew(c, k, x) == CreateIf(c, k, x, transfers[k] = Nil)

\* A transfer under the key that is not cancelled: watch it.
WatchIf(c, k, x, usable) ==
  /\ Calls(c, k)
  /\ transfers[k] = x
  /\ usable
  /\ watchers' = [watchers EXCEPT ![x] = @ \cup {c}]
  /\ blockedOn' = [blockedOn EXCEPT ![c] = Nil]
  /\ UNCHANGED <<mgrVars, key, inactive, yielded, running, cancelled, closed, released>>

\* Fault: the context of the transfer found is not looked at.
TransferExisting_Any(c, k, x) == WatchIf(c, k, x, TRUE)

TransferExisting(c, k, x) == WatchIf(c, k, x, x \notin cancelled)

\* A cancelled one: watch and release it, then wait for its Done() outside tm.mu.
TransferCancelled(c, k, x) ==
  /\ Calls(c, k)
  /\ transfers[k] = x
  /\ x \in cancelled
  /\ blockedOn' = [blockedOn EXCEPT ![c] = x]
  /\ UNCHANGED <<mgrVars, xferVars>>
-----------------------------------------------------------------------------
\* transfer.Release: the last watcher cancels the transfer, or lets go of its
\* result when the manager has stopped tracking it.
Release(c, x) ==
  /\ c \in watchers[x]
  /\ watchers' = [watchers EXCEPT ![x] = @ \ {c}]
  /\ IF watchers[x] # {c} THEN UNCHANGED <<cancelled, released>>
     ELSE IF x \in closed THEN released' = released \cup {x} /\ UNCHANGED cancelled
     ELSE cancelled' = cancelled \cup {x} /\ UNCHANGED released
  /\ UNCHANGED <<mgrVars, key, inactive, yielded, running, closed, blockedOn>>

\* The transfer function gives its slot back early: close(inactive).
FuncInactive(x) ==
  /\ x \in started \cap running
  /\ x \notin inactive
  /\ inactive' = inactive \cup {x}
  /\ UNCHANGED <<mgrVars, key, watchers, yielded, running, cancelled, closed, released, blockedOn>>

\* The transfer function returns: it closes the progress channel, and the
\* broadcaster closes transfer.running.
FuncDone(x) ==
  /\ x \in started \cap running
  /\ running' = running \ {x}
  /\ UNCHANGED <<mgrVars, key, watchers, inactive, yielded, cancelled, closed, released, blockedOn>>

\* Fault: the slot is given up although a transfer waits for it.
Inactivate_NoHandover(x) ==
  IF x \notin started THEN UNCHANGED <<started, activeTransfers, waitingTransfers>>
  ELSE /\ activeTransfers' = activeTransfers - 1
       /\ UNCHANGED <<started, waitingTransfers>>

\* inactivate: a transfer that was started hands its slot to the first one
\* waiting, or gives it up.
Inactivate(x) ==
  IF x \notin started THEN UNCHANGED <<started, activeTransfers, waitingTransfers>>
  ELSE IF waitingTransfers # <<>>
       THEN /\ started' = started \cup {Head(waitingTransfers)}
            /\ waitingTransfers' = Tail(waitingTransfers)
            /\ UNCHANGED activeTransfers
       ELSE /\ activeTransfers' = activeTransfers - 1
            /\ UNCHANGED <<started, waitingTransfers>>

\* The clean-up goroutine receives on inactive, and sets it to nil.
CleanupInactive(x) ==
  /\ x \in inactive \ yielded
  /\ Inactivate(x)
  /\ yielded' = yielded \cup {x}
  /\ UNCHANGED <<concurrencyLimit, transfers, key, watchers, inactive, running,
                 cancelled, closed, released, blockedOn>>

\* The clean-up goroutine receives on Done(): the transfer leaves the map ...
CleanupDoneIf(x, holdsSlot) ==
  /\ key[x] # Nil /\ transfers[key[x]] = x
  /\ x \notin running
  /\ IF holdsSlot THEN Inactivate(x) /\ yielded' = yielded \cup {x}
     ELSE UNCHANGED <<started, activeTransfers, waitingTransfers, yielded>>
  /\ transfers' = [transfers EXCEPT ![key[x]] = Nil]
  /\ UNCHANGED <<concurrencyLimit, key, watchers, inactive, running, cancelled,
                 closed, released, blockedOn>>

\* Fault: the slot is not given back after Done().
CleanupDone_Never(x) == CleanupDoneIf(x, FALSE)

CleanupDone(x) == CleanupDoneIf(x, x \notin yielded)

\* ... and, outside tm.mu, Close.
Gone(x) == key[x] # Nil /\ x \notin running /\ transfers[key[x]] # x

CloseIf(x, unwatched) ==
  /\ Gone(x)
  /\ x \notin closed
  /\ closed' = closed \cup {x}
  /\ released' = IF unwatched THEN released \cup {x} ELSE released
  /\ UNCHANGED <<mgrVars, key, watchers, inactive, yielded, running, cancelled, blockedOn>>

\* Fault: Close lets go of the result whoever is still watching.
Close_Now(x) == CloseIf(x, TRUE)

Close(x) == CloseIf(x, watchers[x] = {})

Transfer(c, k, x) == TransferNew(c, k, x) \/ TransferExisting(c, k, x) \/ TransferCancelled(c, k, x)

Next ==
  \/ \E n \in Limits : SetConcurrency(n)
  \/ \E c \in Clients, k \in Keys, x \in Xfers : Transfer(c, k, x)
  \/ \E c \in Clients, x \in Xfers : Release(c, x)
  \/ \E x \in Xfers : FuncInactive(x) \/ FuncDone(x) \/ CleanupInactive(x)
                        \/ CleanupDone(x) \/ Close(x)

Spec == Init /\ [][Next]_vars

-----------------------------------------------------------------------------
\* The transfers that hold one of the manager's slots.
Slots == started \ yielded

\* activeTransfers counts exactly the transfers that were started and have not
\* given their slot back, however close(inactive), Done() and the two cases of
\* the clean-up select interleave (transfer.go:363-401), and nobody queues
\* without a transfer that will hand over its slot: the queue cannot be
\* stranded, also when SetConcurrency changes the limit under it (304-308,
\* 349-354, 393-398).  A higher limit does not start what is queued: that waits
\* for the next slot to be handed over.
QueueNotStranded ==
  /\ activeTransfers = Cardinality(Slots)
  /\ waitingTransfers # <<>> => Slots # {}

\* Two transfers under one key never run at the same time, although a cancelled
\* one lingers in the map until its function returns (transfer.go:317-344).
NoDuplicateTransfer ==
  \A x, y \in Xfers : x \in running /\ y \in running /\ key[x] = key[y] => x = y

\* A client that was given a transfer never sees it cancelled under it: the
\* context check follows Watch (transfer.go:323-343, 212-226).
WatchedNotCancelled == \A x \in Xfers : watchers[x] # {} => x \notin cancelled

\* released is closed when the transfer is untracked and unwatched, not before
\* and not never: the layer it guards is neither pulled from under a watcher
\* nor leaked (transfer.go:65-67, 208-232, 257-264).
ReleasedExactly ==
  \A x \in Xfers : x \in released <=> (x \in closed /\ watchers[x] = {})
-----------------------------------------------------------------------------
\* The types of the manager's variables and of the transfers'.
TMTypeOK ==
  /\ concurrencyLimit \in Nat
  /\ activeTransfers \in Int
  /\ transfers \in [Keys -> Xfers \cup {Nil}]
  /\ waitingTransfers \in Seq(Xfers)
  /\ key \in [Xfers -> Keys \cup {Nil}]
  /\ watchers \in [Xfers -> SUBSET Clients]
  /\ started \in SUBSET Xfers /\ inactive \in SUBSET Xfers /\ yielded \in SUBSET Xfers
  /\ running \in SUBSET Xfers /\ cancelled \in SUBSET Xfers
  /\ closed \in SUBSET Xfers /\ released \in SUBSET Xfers
  /\ blockedOn \in [Clients -> Xfers \cup {Nil}]

\* The queue holds each waiting transfer once, and none of them was started.
QueueOK ==
  /\ \A i \in 1..Len(waitingTransfers) :
       waitingTransfers[i] \in running /\ waitingTransfers[i] \notin started
  /\ \A i, j \in 1..Len(waitingTransfers) : waitingTransfers[i] = waitingTransfers[j] => i = j

\* How the sets of closed channels, the map and the keys depend on each other.
LifeOK ==
  /\ \A x \in Xfers : key[x] = Nil =>
       /\ x \notin running /\ x \notin started /\ x \notin closed /\ x \notin cancelled
       /\ watchers[x] = {}
  /\ \A x \in Xfers : key[x] # Nil => x \in running \/ x \in started
  /\ inactive \subseteq started /\ yielded \subseteq started
  /\ \A x \in running : transfers[key[x]] = x
  /\ \A k \in Keys : transfers[k] # Nil => key[transfers[k]] = k
  /\ \A x \in closed : Gone(x)

\* The inductive invariant of the manager.
TMInv == /\ TMTypeOK
         /\ QueueOK
         /\ LifeOK
         /\ QueueNotStranded
         /\ WatchedNotCancelled
         /\ ReleasedExactly

\* A step after which a transfer is queued although a slot is free: only a change of the
\* limit makes it so (transfer.go:304-308).
OnlyLimitFreesSlot ==
  (waitingTransfers' # <<>> /\ SlotFree') =>
    (waitingTransfers # <<>> /\ SlotFree) \/ concurrencyLimit' # concurrencyLimit

\* What a step of the manager never takes back: a key, and released.
NothingTakenBack ==
  /\ \A x \in Xfers : key[x] # Nil => key'[x] = key[x]
  /\ released \subseteq released'
=============================================================================
