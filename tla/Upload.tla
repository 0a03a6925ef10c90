------------------------------- MODULE Upload -------------------------------
(***************************************************************************)
(* distribution/xfer/upload.go: pushes of images through the manager of    *)
(* TransferManager.  A client is one call of LayerUploadManager.Upload for *)
(* the layers Layers[c], named by their keys; two layers of a call may have*)
(* the same key.  remote is what the registry has, uploadedBy the transfer *)
(* each layer's descriptor was taken from.                                 *)
(***************************************************************************)
EXTENDS TransferManager

CONSTANTS Layers,        \* [Clients -> Seq(Keys)]
          MayGiveUp,     \* the clients whose context may be cancelled
          MaxUploadAttempts,   \* maxUploadAttempts
          MaxUploadFailures    \* bound on the uploads that fail

ASSUME UploadAssumption == /\ Layers \in [Clients -> Seq(Keys)]
                           /\ MayGiveUp \subseteq Clients
                           /\ MaxUploadAttempts \in Nat \ {0} /\ MaxUploadFailures \in Nat

VARIABLES
  uphase, todo, uploads, uoutcome,   \* of each client; uploads: its uploads in order
  waitAt,                            \* ... and how many of them it has seen done
  upc, uretries, uresult,            \* of each transfer function
  remote, ufailures

pushVars == <<uphase, todo, uploads, uoutcome, waitAt>>
uploadVars == <<upc, uretries, uresult>>
uvars == <<vars, pushVars, uploadVars, remote, ufailures>>

UInitAt(p) ==
  /\ uphase = [c \in Clients |-> p]
  /\ todo = Layers
  /\ uploads = [c \in Clients |-> <<>>]
  /\ uoutcome = [c \in Clients |-> "none"]
  /\ waitAt = [c \in Clients |-> 0]
  /\ upc = [x \in Xfers |-> "none"]
  /\ uretries = [x \in Xfers |-> 0]
  /\ uresult = [x \in Xfers |-> "none"]
  /\ remote = {} /\ ufailures = 0

UInit == Init /\ UInitAt("ask")

Dedup(c, k) == \E i \in 1 .. Len(uploads[c]) : key[uploads[c][i]] = k
-----------------------------------------------------------------------------
\* Upload, first loop: a key that this call has an upload for is skipped
AskSkip(c) ==
  /\ uphase[c] = "ask" /\ todo[c] # <<>>
  /\ Dedup(c, Head(todo[c]))
  /\ todo' = [todo EXCEPT ![c] = Tail(@)]
  /\ UNCHANGED <<vars, uphase, uploads, uoutcome, waitAt, uploadVars, remote, ufailures>>

Asks(c) == uphase[c] = "ask" /\ todo[c] # <<>> /\ ~Dedup(c, Head(todo[c]))

Given(c, x) == /\ uploads' = [uploads EXCEPT ![c] = Append(@, x)]
               /\ todo' = [todo EXCEPT ![c] = Tail(@)]
               /\ UNCHANGED <<uphase, uoutcome, waitAt>>

AskNew(c, x) ==
  /\ Asks(c)
  /\ TransferNew(c, Head(todo[c]), x)
  /\ Given(c, x)
  /\ upc' = [upc EXCEPT ![x] = "start"]
  /\ UNCHANGED <<uretries, uresult, remote, ufailures>>

AskExisting(c, x) ==
  /\ Asks(c)
  /\ TransferExisting(c, Head(todo[c]), x)
  /\ Given(c, x)
  /\ UNCHANGED <<uploadVars, remote, ufailures>>

AskCancelled(c, x) ==
  /\ Asks(c)
  /\ TransferCancelled(c, Head(todo[c]), x)
  /\ UNCHANGED <<pushVars, uploadVars, remote, ufailures>>

Return(c, why) == /\ uoutcome' = [uoutcome EXCEPT ![c] = why]
                  /\ uphase' = [uphase EXCEPT ![c] = "unwind"]

\* Second loop: wait for the uploads in order
WaitIf(c, seen) ==
  LET x == uploads[c][waitAt[c] + 1]
  IN
  /\ uphase[c] = "ask" /\ todo[c] = <<>> /\ waitAt[c] < Len(uploads[c])
  /\ seen => x \notin running
  /\ IF uresult[x] = "error" THEN Return(c, "error") /\ UNCHANGED waitAt
     ELSE waitAt' = [waitAt EXCEPT ![c] = @ + 1] /\ UNCHANGED <<uphase, uoutcome>>
  /\ UNCHANGED <<vars, todo, uploads, uploadVars, remote, ufailures>>

\* Fault: an upload that another call has asked for is not waited for.
Wait_OwnOnly(c) == WaitIf(c, watchers[uploads[c][waitAt[c] + 1]] = {c})

Wait(c) == WaitIf(c, TRUE)

WaitGivenUp(c) ==
  /\ uphase[c] = "ask" /\ todo[c] = <<>> /\ waitAt[c] < Len(uploads[c])
  /\ c \in MayGiveUp
  /\ Return(c, "cancelled")
  /\ UNCHANGED <<vars, todo, uploads, waitAt, uploadVars, remote, ufailures>>

\* Every upload is done: the descriptors are handed out
WaitOver(c) ==
  /\ uphase[c] = "ask" /\ todo[c] = <<>> /\ waitAt[c] = Len(uploads[c])
  /\ Return(c, "ok")
  /\ UNCHANGED <<vars, todo, uploads, waitAt, uploadVars, remote, ufailures>>

\* The deferred releases, the last watcher first
Unwind(c) ==
  /\ uphase[c] = "unwind"
  /\ IF uploads[c] = <<>>
     THEN uphase' = [uphase EXCEPT ![c] = "end"] /\ UNCHANGED <<vars, uploads>>
     ELSE /\ Release(c, uploads[c][Len(uploads[c])])
          /\ uploads' = [uploads EXCEPT ![c] = SubSeq(@, 1, Len(@) - 1)]
          /\ UNCHANGED uphase
  /\ UNCHANGED <<todo, uoutcome, waitAt, uploadVars, remote, ufailures>>
-----------------------------------------------------------------------------
UGoto(x, at) == upc' = [upc EXCEPT ![x] = at]

\* The transfer function sets u.err and returns.
UFail(x) == /\ FuncDone(x)
            /\ UGoto(x, "end")
            /\ uresult' = [uresult EXCEPT ![x] = "error"]

\* <-start; a cancelled upload waits for it too
UploadStart(x) ==
  /\ upc[x] = "start" /\ x \in started
  /\ UGoto(x, "upload")
  /\ UNCHANGED <<vars, pushVars, uretries, uresult, remote, ufailures>>

\* descriptor.Upload succeeds
UploadOk(x) ==
  /\ upc[x] = "upload"
  /\ FuncDone(x)
  /\ UGoto(x, "end")
  /\ uresult' = [uresult EXCEPT ![x] = "ok"]
  /\ remote' = remote \cup {key[x]}
  /\ UNCHANGED <<pushVars, uretries, ufailures>>

\* It fails, or the delay before the next attempt ends, because of the context
UploadCancelled(x) ==
  /\ upc[x] \in {"upload", "delay"} /\ x \in cancelled
  /\ UFail(x)
  /\ UNCHANGED <<pushVars, uretries, remote, ufailures>>

\* It fails otherwise
UploadError(x) ==
  /\ upc[x] = "upload" /\ x \notin cancelled /\ ufailures < MaxUploadFailures
  /\ ufailures' = ufailures + 1
  /\ uretries' = [uretries EXCEPT ![x] = @ + 1]
  /\ \/ UFail(x)                                  \* DoNotRetry, or one time too many
     \/ uretries[x] + 1 # MaxUploadAttempts /\ UGoto(x, "delay") /\ UNCHANGED <<vars, uresult>>
  /\ UNCHANGED <<pushVars, remote>>

UploadDelayOver(x) ==
  /\ upc[x] = "delay"
  /\ UGoto(x, "upload")
  /\ UNCHANGED <<vars, pushVars, uretries, uresult, remote, ufailures>>

UManager(x) == /\ CleanupDone(x) \/ Close(x)
               /\ UNCHANGED <<pushVars, uploadVars, remote, ufailures>>

PushStep(c) ==
  \/ AskSkip(c) \/ \E x \in Xfers : AskNew(c, x) \/ AskExisting(c, x) \/ AskCancelled(c, x)
  \/ Wait(c) \/ WaitOver(c) \/ Unwind(c)

UploadStep(x) == UploadStart(x) \/ UploadOk(x) \/ UploadCancelled(x) \/ UploadDelayOver(x)

UNext == \/ \E c \in Clients : PushStep(c) \/ WaitGivenUp(c)
         \/ \E x \in Xfers : UploadStep(x) \/ UploadError(x) \/ UManager(x)

USpec == UInit /\ [][UNext]_uvars
-----------------------------------------------------------------------------
\* "Upload is a blocking function which ensures the listed layers are present on the
\* remote registry" (upload.go:58): also those another call was already uploading.
PushedIsThere ==
  \A c \in Clients : uoutcome[c] = "ok"
    => {Layers[c][i] : i \in 1 .. Len(Layers[c])} \subseteq remote

\* Every push ends, although uploads wait for slots and for cancelled predecessors, and
\* a cancelled one waits for its slot before it sees that it is cancelled
\* (upload.go:82-91, 112-117).
UploadEnds == <>(\A c \in Clients : uphase[c] = "end")
=============================================================================
