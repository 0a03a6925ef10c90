----------------------------- MODULE Transfers -----------------------------
(***************************************************************************)
(* One transfer manager and its users: callers that do anything the        *)
(* interface of the manager allows (TransferManager), the pulls of a       *)
(* LayerDownloadManager (Download) or the pushes of a LayerUploadManager   *)
(* (Upload).  Each manager of layers has a transfer manager of its own     *)
(* (download.go:38, upload.go:30), so a behaviour has users of one kind.   *)
(***************************************************************************)
EXTENDS Download, Upload

CONSTANT Users     \* the kinds of users: "callers", "pulls", "pushes"

VARIABLE users

ownDownload == <<clientVars, workVars, storeVars, failures>>
ownUpload == <<pushVars, uploadVars, remote, ufailures>>
tvars == <<users, vars, ownDownload, ownUpload>>

TInit ==
  /\ Init
  /\ users \in Users
  /\ \/ users = "callers" /\ DInitAt("end") /\ UInitAt("end")
     \/ users = "pulls" /\ DInitAt("scan") /\ UInitAt("end")
     \/ users = "pushes" /\ DInitAt("end") /\ UInitAt("ask")
  /\ users # "pulls" => diffKnown = {}

Call(A) == users = "callers" /\ A /\ UNCHANGED <<users, ownDownload, ownUpload>>
Pull(A) == users = "pulls" /\ A /\ UNCHANGED <<users, ownUpload>>
Push(A) == users = "pushes" /\ A /\ UNCHANGED <<users, ownDownload>>

TNext == Call(Next) \/ Pull(DNext) \/ Push(UNext)

\* Some goroutine that can go on does.  Nobody has to cancel a pull or a push or to make
\* one fail; a download or an upload that does not fail ends.
Fairness ==
  /\ WF_tvars(Pull(\/ \E c \in Clients : ClientStep(c)
                   \/ \E x \in Xfers : WorkStep(x) \/ WorkUnref(x) \/ Manager(x)))
  /\ WF_tvars(Push(\/ \E c \in Clients : PushStep(c)
                   \/ \E x \in Xfers : UploadStep(x) \/ UManager(x)))

TSpec == TInit /\ [][TNext]_tvars
TFairSpec == TSpec /\ Fairness
-----------------------------------------------------------------------------
\* Every pull and every push ends, although transfers wait for slots, for their parents
\* and for cancelled predecessors.
TransfersEnd == DownloadEnds /\ UploadEnds
=============================================================================
