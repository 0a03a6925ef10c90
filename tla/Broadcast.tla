----------------------------- MODULE Broadcast -----------------------------
(***************************************************************************)
(* distribution/xfer/transfer.go: how the progress of one transfer reaches *)
(* its watchers.  The transfer function sends items on an unbuffered       *)
(* channel, the Broadcast goroutine stores the last one and pokes the      *)
(* watcher goroutines that happen to be listening, each watcher copies the *)
(* stored item to its client.  Items are numbered from 1; 0 is "none yet". *)
(* When a transfer is watched, cancelled and closed is in TransferManager. *)
(***************************************************************************)
EXTENDS Naturals

CONSTANTS Watchers, MaxItems   \* MaxItems: bound on the items sent

VARIABLES
  sent,          \* items received from masterProgressChan
  bpc,           \* the Broadcast goroutine: select, store, finish, closing, gone
  lastProgress, broadcastDone,
  watchers,      \* transfer.watchers
  wpc,           \* a watcher goroutine: none, read, write, select, sync, exited
  done, seen, lastWritten,    \* its local variables
  releaseChan,   \* the watchers whose releaseChan is closed
  owed           \* the items that a watcher must not miss (history)

bvars == <<sent, bpc, lastProgress, broadcastDone>>
wvars == <<wpc, done, seen, lastWritten>>
bcVars == <<bvars, wvars, watchers, releaseChan, owed>>

BcInit == /\ sent = 0 /\ lastProgress = 0
          /\ bpc = "select"
          /\ broadcastDone = FALSE
          /\ watchers = {}
          /\ wpc = [w \in Watchers |-> "none"]
          /\ done = {}
          /\ seen = [w \in Watchers |-> 0]
          /\ lastWritten = [w \in Watchers |-> 0]
          /\ releaseChan = {}
          /\ owed = [w \in Watchers |-> 0]

running == bpc # "gone"

\* The watchers whose exit is not forced yet must have the items sent so far.
Owing(n) == [w \in Watchers |->
               IF wpc[w] \in {"none", "exited"} \/ w \in releaseChan THEN owed[w] ELSE n]
-----------------------------------------------------------------------------
\* An item is sent and received, or the channel is found closed.
Receive == /\ bpc = "select" /\ sent < MaxItems
           /\ sent' = sent + 1
           /\ bpc' = "store"
           /\ owed' = Owing(sent + 1)
           /\ UNCHANGED <<lastProgress, broadcastDone, wvars, watchers, releaseChan>>

ReceiveClosed == /\ bpc = "select"
                 /\ bpc' = "finish"
                 /\ UNCHANGED <<sent, lastProgress, broadcastDone, wvars, watchers, releaseChan, owed>>

\* Under t.mu: keep the item, signal the watchers that are listening.
Store == /\ bpc = "store"
         /\ lastProgress' = sent
         /\ bpc' = "select"
         /\ wpc' = [w \in Watchers |->
                      IF w \in watchers /\ wpc[w] = "select" THEN "read" ELSE wpc[w]]
         /\ UNCHANGED <<sent, broadcastDone, done, seen, lastWritten, watchers, releaseChan, owed>>

Finish == /\ bpc = "finish"
          /\ broadcastDone' = TRUE
          /\ bpc' = "closing"
          /\ UNCHANGED <<sent, lastProgress, wvars, watchers, releaseChan, owed>>

CloseRunning == /\ bpc = "closing"
                /\ bpc' = "gone"
                /\ UNCHANGED <<sent, lastProgress, broadcastDone, wvars, watchers, releaseChan, owed>>
-----------------------------------------------------------------------------
\* Watch: no goroutine when the broadcast is over.
Watch(w) == /\ wpc[w] = "none"
            /\ watchers' = watchers \cup {w}
            /\ wpc' = [wpc EXCEPT ![w] = IF broadcastDone THEN "exited" ELSE "read"]
            /\ owed' = IF broadcastDone THEN owed ELSE [owed EXCEPT ![w] = sent]
            /\ UNCHANGED <<bvars, done, seen, lastWritten, releaseChan>>

\* Release: detach under t.mu, then close(releaseChan) without it; the caller
\* waits until the goroutine has exited.
Detach(w) == /\ w \in watchers
             /\ watchers' = watchers \ {w}
             /\ UNCHANGED <<bvars, wvars, releaseChan, owed>>

CloseRelease(w) == /\ wpc[w] # "none" /\ w \notin watchers /\ w \notin releaseChan
                   /\ releaseChan' = releaseChan \cup {w}
                   /\ UNCHANGED <<bvars, wvars, watchers, owed>>

\* The watcher goroutine copies lastProgress under t.mu ...
Read(w) == /\ wpc[w] = "read"
           /\ seen' = [seen EXCEPT ![w] = lastProgress]
           /\ wpc' = [wpc EXCEPT ![w] = "write"]
           /\ UNCHANGED <<bvars, done, lastWritten, watchers, releaseChan, owed>>

\* ... and writes it out, the last time only if it is news.
Write(w) ==
  /\ wpc[w] = "write"
  /\ lastWritten' = IF seen[w] # 0 /\ (w \notin done \/ lastWritten[w] # seen[w])
                    THEN [lastWritten EXCEPT ![w] = seen[w]] ELSE lastWritten
  /\ wpc' = [wpc EXCEPT ![w] = IF w \in done THEN "exited" ELSE "select"]
  /\ UNCHANGED <<bvars, done, seen, watchers, releaseChan, owed>>

\* select: releaseChan or t.running (a signal is received in Store).
LeaveSelect(w, next) ==
  /\ wpc[w] = "select"
  /\ done' = done \cup {w}
  /\ wpc' = [wpc EXCEPT ![w] = next]
  /\ UNCHANGED <<bvars, seen, lastWritten, watchers, releaseChan, owed>>

\* Fault: the watcher does not wait for the broadcaster to catch up.
SeeRelease_NoSync(w) == w \in releaseChan /\ LeaveSelect(w, "read")

SeeRelease(w) == w \in releaseChan /\ LeaveSelect(w, "sync")

SeeRunning(w) == ~running /\ LeaveSelect(w, "read")

\* The broadcaster receives on broadcastSyncChan, in its second select.
SyncWhen(w, ready) ==
  /\ wpc[w] = "sync"
  /\ ready
  /\ wpc' = [wpc EXCEPT ![w] = "read"]
  /\ UNCHANGED <<bvars, done, seen, lastWritten, watchers, releaseChan, owed>>

\* Fault: only the broadcaster can answer, also when it is gone.
Sync_Broadcaster(w) == SyncWhen(w, bpc = "select")

Sync(w) == SyncWhen(w, bpc = "select" \/ ~running)

BroadcastStep == Store \/ Finish \/ CloseRunning
WatcherStep(w) == Read(w) \/ Write(w) \/ SeeRelease(w) \/ SeeRunning(w) \/ Sync(w)

BcNext == \/ Receive \/ ReceiveClosed \/ BroadcastStep
          \/ \E w \in Watchers : Watch(w) \/ Detach(w) \/ CloseRelease(w) \/ WatcherStep(w)

BcSpec == BcInit /\ [][BcNext]_bcVars

\* The goroutines keep running; a client's output is written without blocking
\* for ever.  The transfer need not send anything, and need not end.
BcFairness == /\ WF_bcVars(BroadcastStep)
              /\ \A w \in Watchers : WF_bcVars(WatcherStep(w))

BcFairSpec == BcSpec /\ BcFairness
-----------------------------------------------------------------------------
\* A watcher that has exited has shown every item that was sent before it was
\* released, or every item when the transfer ended first: "a detaching watcher
\* won't miss an event that was sent before it started detaching"
\* (transfer.go:73-77), although signals to a busy watcher are dropped.
NothingMissed == \A w \in Watchers : wpc[w] = "exited" => lastWritten[w] >= owed[w]

\* Release returns although the transfer may be silent for ever, and every watcher
\* goroutine ends when the transfer is over: the watchers and the broadcaster do not
\* wait for each other (transfer.go:184-231).
WatchersEnd == \A w \in Watchers :
  (w \in releaseChan \/ (wpc[w] # "none" /\ ~running)) ~> wpc[w] = "exited"
=============================================================================
