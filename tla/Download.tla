------------------------------ MODULE Download ------------------------------
(***************************************************************************)
(* distribution/xfer/download.go: pulls of images through the manager of   *)
(* TransferManager.  A client is one call of LayerDownloadManager.Download;*)
(* all clients pull prefixes of one chain of layers 1..Depth, so that the  *)
(* transfer key of a layer (the concatenated keys up to it) is its index.  *)
(* SameAs[i] is an earlier layer with the same data, or 0.                 *)
(*                                                                         *)
(* The layer store appears as the references it has given out: holders[i]  *)
(* are the clients, transfers and images that hold layer i.  A layer is in *)
(* the store as long as it or a layer above it is held (module LayerStore).*)
(***************************************************************************)
EXTENDS TransferManager

CONSTANTS Depth, Top, SameAs,  \* Top[c]: the layers 1..Top[c] make up c's image
          MayCancel,           \* the clients whose context may be cancelled
          Images,              \* images that may already hold a layer
          MaxAttempts,         \* maxDownloadAttempts
          MaxFailures          \* bound on failures injected below download.go

ASSUME DownloadAssumption == /\ Keys = 1..Depth
                             /\ Top \in [Clients -> Keys]
                             /\ SameAs \in [Keys -> 0..Depth]
                             /\ \A i \in Keys : SameAs[i] < i
                             /\ Depth \in Nat /\ Xfers \cap Clients = {}

VARIABLES
  phase, idx, topLayer, mine, outcome,   \* of each client
  wpc, parent, source, retries, result,  \* of each transfer function
  holders, diffKnown,                    \* layer store, DiffID metadata
  failures

clientVars == <<phase, idx, topLayer, mine, outcome>>
workVars == <<wpc, parent, source, retries, result>>
storeVars == <<holders, diffKnown>>
dvars == <<vars, clientVars, workVars, storeVars, failures>>

\* scan   looking for layers that are already there
\* fetch  asking the manager for the missing ones
\* wait   for the top download or the context
\* unwind running the deferred releases
\* held   returned successfully, the release function not yet called
\* A client that has not been called yet is one that is slow to scan.
DInitAt(p) ==
  /\ phase = [c \in Clients |-> p]
  /\ idx = [c \in Clients |-> 1]
  /\ topLayer = [c \in Clients |-> 0]
  /\ mine = [c \in Clients |-> <<>>]
  /\ outcome = [c \in Clients |-> "none"]
  /\ wpc = [x \in Xfers |-> "none"]
  /\ parent = [x \in Xfers |-> Nil]
  /\ source = [x \in Xfers |-> Nil]
  /\ retries = [x \in Xfers |-> 0]
  /\ result = [x \in Xfers |-> "none"]
  /\ \E i \in IF Images = {} THEN {0} ELSE 0..Depth :
        /\ holders = [j \in Keys |-> IF j = i THEN Images ELSE {}]
        /\ diffKnown = 1..i
  /\ failures = 0

DInit == Init /\ DInitAt("scan")

Present(i) == i = 0 \/ \E j \in i..Depth : holders[j] # {}

Without(h, i, who) == [j \in Keys |-> IF j = i THEN h[j] \ {who} ELSE h[j]]
With(h, i, who) == [h EXCEPT ![i] = @ \cup {who}]
-----------------------------------------------------------------------------
\* The next layer of the prefix is known and in the store: swap the reference.
ScanFound(c) ==
  LET i == idx[c] IN
  /\ phase[c] = "scan" /\ i <= Top[c]
  /\ i \in diffKnown /\ Present(i)
  /\ holders' = With(Without(holders, topLayer[c], c), i, c)
  /\ topLayer' = [topLayer EXCEPT ![c] = i]
  /\ idx' = [idx EXCEPT ![c] = i + 1]
  /\ UNCHANGED <<vars, phase, mine, outcome, workVars, diffKnown, failures>>

ScanMissing(c) ==
  LET i == idx[c] IN
  /\ phase[c] = "scan" /\ i <= Top[c]
  /\ ~(i \in diffKnown /\ Present(i))
  /\ phase' = [phase EXCEPT ![c] = "fetch"]
  /\ UNCHANGED <<vars, idx, topLayer, mine, outcome, workVars, storeVars, failures>>

\* Every layer was there.
ScanComplete(c) ==
  /\ phase[c] = "scan" /\ idx[c] > Top[c]
  /\ phase' = [phase EXCEPT ![c] = "held"]
  /\ outcome' = [outcome EXCEPT ![c] = "ok"]
  /\ UNCHANGED <<vars, idx, topLayer, mine, workVars, storeVars, failures>>

\* A transfer for the next layer was returned; after the last one, wait.
Got(c, x) == /\ mine' = [mine EXCEPT ![c] = Append(@, x)]
             /\ idx' = [idx EXCEPT ![c] = @ + 1]
             /\ phase' = [phase EXCEPT ![c] = IF idx[c] = Top[c] THEN "wait" ELSE @]

\* The download this client already has for an earlier layer with the same data.
Existing(c, i) == LET xs == {x \in Xfers : c \in watchers[x] /\ key[x] = SameAs[i]}
                  IN IF xs = {} THEN Nil ELSE CHOOSE x \in xs : TRUE

TopOf(c) == IF mine[c] = <<>> THEN Nil ELSE mine[c][Len(mine[c])]

FetchNew(c, x) ==
  /\ phase[c] = "fetch"
  /\ TransferNew(c, idx[c], x)
  /\ Got(c, x)
  /\ wpc' = [wpc EXCEPT ![x] = "start"]
  /\ parent' = [parent EXCEPT ![x] = TopOf(c)]
  /\ source' = [source EXCEPT ![x] = Existing(c, idx[c])]
  /\ UNCHANGED <<topLayer, outcome, retries, result, storeVars, failures>>

FetchExisting(c, x) ==
  /\ phase[c] = "fetch"
  /\ TransferExisting(c, idx[c], x)
  /\ Got(c, x)
  /\ UNCHANGED <<topLayer, outcome, workVars, storeVars, failures>>

FetchCancelled(c, x) == /\ phase[c] = "fetch"
                        /\ TransferCancelled(c, idx[c], x)
                        /\ UNCHANGED <<clientVars, workVars, storeVars, failures>>
-----------------------------------------------------------------------------
Front(s) == SubSeq(s, 1, Len(s) - 1)

\* Where a client is that still has to release m and the layer l, and keeps k.
Unwinding(m, l, k) == IF Len(m) > k \/ l # 0 THEN "unwind"
                      ELSE IF k = 1 THEN "held" ELSE "end"

\* The context is done, or the top download failed: release it and unwind.
GiveUp(c, why) ==
  /\ phase[c] = "wait"
  /\ Release(c, TopOf(c))
  /\ mine' = [mine EXCEPT ![c] = Front(@)]
  /\ phase' = [phase EXCEPT ![c] = Unwinding(mine'[c], topLayer[c], 0)]
  /\ outcome' = [outcome EXCEPT ![c] = why]
  /\ UNCHANGED <<idx, topLayer, workVars, storeVars, failures>>

WaitCancelled(c) == c \in MayCancel /\ GiveUp(c, "cancelled")

WaitError(c) == /\ phase[c] = "wait"
                /\ TopOf(c) \notin running
                /\ result[TopOf(c)] = "error"
                /\ GiveUp(c, "error")

\* Success: the watcher of the top download is kept for the release function.
WaitOk(c) ==
  /\ phase[c] = "wait"
  /\ TopOf(c) \notin running
  /\ result[TopOf(c)] = "ok"
  /\ mine' = [mine EXCEPT ![c] = <<TopOf(c)>> \o Front(@)]
  /\ phase' = [phase EXCEPT ![c] = Unwinding(mine[c], topLayer[c], 1)]
  /\ outcome' = [outcome EXCEPT ![c] = "ok"]
  /\ UNCHANGED <<vars, idx, topLayer, workVars, storeVars, failures>>

Kept(c) == IF outcome[c] = "ok" THEN 1 ELSE 0

\* The deferred calls, last first: the layer found by the scan, the watchers.
UnwindLayer(c) ==
  /\ phase[c] = "unwind" /\ topLayer[c] # 0
  /\ holders' = Without(holders, topLayer[c], c)
  /\ topLayer' = [topLayer EXCEPT ![c] = 0]
  /\ phase' = [phase EXCEPT ![c] = Unwinding(mine[c], 0, Kept(c))]
  /\ UNCHANGED <<vars, idx, mine, outcome, workVars, diffKnown, failures>>

UnwindWatch(c) ==
  /\ phase[c] = "unwind" /\ topLayer[c] = 0
  /\ Release(c, TopOf(c))
  /\ mine' = [mine EXCEPT ![c] = Front(@)]
  /\ phase' = [phase EXCEPT ![c] = Unwinding(mine'[c], 0, Kept(c))]
  /\ UNCHANGED <<idx, topLayer, outcome, workVars, storeVars, failures>>

\* The caller calls the release function it was given.
CallRelease(c) ==
  /\ phase[c] = "held"
  /\ phase' = [phase EXCEPT ![c] = "end"]
  /\ IF mine[c] # <<>>
     THEN Release(c, TopOf(c)) /\ UNCHANGED holders
     ELSE holders' = Without(holders, topLayer[c], c) /\ UNCHANGED vars
  /\ mine' = [mine EXCEPT ![c] = <<>>]
  /\ topLayer' = [topLayer EXCEPT ![c] = 0]
  /\ UNCHANGED <<idx, outcome, workVars, diffKnown, failures>>
-----------------------------------------------------------------------------
Goto(x, at) == wpc' = [wpc EXCEPT ![x] = at]

\* The transfer function sets d.err and returns.
Fail(x) == /\ FuncDone(x)
           /\ Goto(x, "end")
           /\ result' = [result EXCEPT ![x] = "error"]

Succeeded(p) == p # Nil => p \notin running /\ result[p] = "ok"
Failed(p) == p # Nil /\ p \notin running /\ result[p] = "error"

\* start is closed.  A transfer with a source has nothing to move.
WorkStart(x) ==
  /\ wpc[x] = "start" /\ x \in started
  /\ IF source[x] # Nil THEN FuncInactive(x) /\ Goto(x, "parent") /\ UNCHANGED result
     ELSE IF Failed(parent[x]) THEN Fail(x)
     ELSE Goto(x, "download") /\ UNCHANGED <<vars, result>>
  /\ UNCHANGED <<clientVars, parent, source, retries, storeVars, failures>>

\* descriptor.Download succeeds: close(inactive), then wait for the parent.
DownloadOk(x) ==
  /\ wpc[x] = "download"
  /\ FuncInactive(x)
  /\ Goto(x, IF parent[x] = Nil THEN "register" ELSE "parent")
  /\ UNCHANGED <<clientVars, parent, source, retries, result, storeVars, failures>>

\* descriptor.Download fails: because of the context, for good, or for a retry.
DownloadCancelled(x) ==
  /\ wpc[x] \in {"download", "delay"} /\ x \in cancelled
  /\ Fail(x)
  /\ UNCHANGED <<clientVars, parent, source, retries, storeVars, failures>>

DownloadError(x) ==
  /\ wpc[x] = "download" /\ x \notin cancelled /\ failures < MaxFailures
  /\ failures' = failures + 1
  /\ retries' = [retries EXCEPT ![x] = @ + 1]
  /\ \/ Fail(x)                                  \* DoNotRetry, or one time too many
     \/ /\ retries[x] + 1 # MaxAttempts
        /\ Goto(x, "delay") /\ UNCHANGED <<vars, result>>
  /\ UNCHANGED <<clientVars, parent, source, storeVars>>

DelayOver(x) ==
  /\ wpc[x] = "delay"
  /\ Goto(x, "download")
  /\ UNCHANGED <<vars, clientVars, parent, source, retries, result, storeVars, failures>>

\* Wait for the context or for the download p, whichever the select takes.
Await(x, p, at) ==
  /\ \/ x \in cancelled /\ Fail(x)
     \/ Failed(p) /\ Fail(x)
     \/ Succeeded(p) /\ Goto(x, at) /\ UNCHANGED <<vars, result>>
  /\ UNCHANGED <<clientVars, parent, source, retries, storeVars, failures>>

AwaitParent(x) == /\ wpc[x] = "parent"
                  /\ Await(x, parent[x], IF source[x] = Nil THEN "register" ELSE "source")
AwaitSource(x) == wpc[x] = "source" /\ Await(x, source[x], "register")

\* The layer store registers the data on top of the parent layer, which has to
\* be there (and so has the source layer, whose tar stream is read).
Registrable(x) == Present(key[x] - 1) /\ (source[x] = Nil \/ Present(key[source[x]]))

Register(x) ==
  /\ wpc[x] = "register"
  /\ IF Registrable(x)
     THEN /\ holders' = With(holders, key[x], x)
          /\ diffKnown' = diffKnown \cup {key[x]}
          /\ Goto(x, "return") /\ result' = [result EXCEPT ![x] = "ok"]
          /\ UNCHANGED vars
     ELSE Fail(x) /\ UNCHANGED storeVars
  /\ UNCHANGED <<clientVars, parent, source, retries, failures>>

\* The tar stream ends early (the context is done) or the driver fails.
RegisterError(x) ==
  /\ wpc[x] = "register"
  /\ \/ x \in cancelled /\ UNCHANGED failures
     \/ failures < MaxFailures /\ failures' = failures + 1
  /\ Fail(x)
  /\ UNCHANGED <<clientVars, parent, source, retries, storeVars>>

WorkReturn(x) ==
  /\ wpc[x] = "return"
  /\ FuncDone(x)
  /\ Goto(x, "end")
  /\ UNCHANGED <<clientVars, parent, source, retries, result, storeVars, failures>>

\* A goroutine lets go of the layer when it may.
UnrefWhen(x, free) ==
  /\ wpc[x] = "end" /\ x \in holders[key[x]]
  /\ free
  /\ holders' = Without(holders, key[x], x)
  /\ UNCHANGED <<vars, clientVars, workVars, diffKnown, failures>>

\* Faults: it waits for Done(), not Released(); it never lets go.
WorkUnref_Done(x) == UnrefWhen(x, x \notin running)
WorkUnref_Never(x) == UnrefWhen(x, FALSE)

WorkUnref(x) == UnrefWhen(x, x \in released)

Manager(x) == /\ CleanupInactive(x) \/ CleanupDone(x) \/ Close(x)
              /\ UNCHANGED <<clientVars, workVars, storeVars, failures>>

ClientStep(c) == \/ ScanFound(c) \/ ScanMissing(c) \/ ScanComplete(c)
                 \/ \E x \in Xfers : FetchNew(c, x) \/ FetchExisting(c, x) \/ FetchCancelled(c, x)
                 \/ WaitError(c) \/ WaitOk(c)
                 \/ UnwindLayer(c) \/ UnwindWatch(c) \/ CallRelease(c)

WorkStep(x) == \/ WorkStart(x) \/ DownloadOk(x) \/ DownloadCancelled(x) \/ DelayOver(x)
               \/ AwaitParent(x) \/ AwaitSource(x) \/ Register(x) \/ WorkReturn(x)

DNext == \/ \E c \in Clients : ClientStep(c) \/ WaitCancelled(c)
         \/ \E x \in Xfers : \/ WorkStep(x) \/ DownloadError(x) \/ RegisterError(x)
                             \/ WorkUnref(x) \/ Manager(x)

DSpec == DInit /\ [][DNext]_dvars

-----------------------------------------------------------------------------
\* The layers of a successful pull are in the store until its caller calls the
\* release function (download.go:84-90), however the other clients of the same
\* transfers are cancelled or released; and while a client waits with both a
\* download and its parent, the parent's layer is there for the download to be
\* registered on (301-310).
ResultRetained ==
  \A c \in Clients :
    /\ phase[c] = "held" => Present(Top[c])
    /\ \A x \in Xfers :
         /\ phase[c] = "wait" /\ c \in watchers[x]
         /\ wpc[x] = "register" /\ parent[x] # Nil /\ c \in watchers[parent[x]]
         => Present(key[x] - 1)

\* Every pull ends, with one slot as with many, although downloads wait for
\* slots, for their parents and for cancelled predecessors (download.go:91-197).
DownloadEnds == <>(\A c \in Clients : phase[c] = "end")

\* When every pull has ended no layer stays referenced but by an image, for good
\* (download.go:166-170, 349-354).
LayersLetGo == <>[](\A i \in Keys : holders[i] \subseteq Images)

\* A pull that is not cancelled, and below which nothing fails, succeeds, also
\* when another client of the same transfers is interrupted (transfer.go:89-91:
\* "so that a transfer won't be cancelled automatically if the client which
\* requested it is ^C'd (there could be other viewers)").
OthersCancelHarmless ==
  \A c \in Clients : outcome[c] = "error" => failures > 0
=============================================================================
