--------------------------- MODULE ContainerNames ---------------------------
(***************************************************************************)
(* The names of containers: pkg/registrar, daemon/names.go,                *)
(* daemon/rename.go, and the naming side of daemon/create.go,              *)
(* daemon/delete.go and daemon.restore.                                    *)
(*                                                                         *)
(* A name is taken at the start of a create, long before the container can *)
(* be looked up, changed by rename under the container's lock, and given   *)
(* back by a removal that takes no lock.  The registrar has a lock for     *)
(* each call only.                                                         *)
(***************************************************************************)
EXTENDS Integers, FiniteSets

CONSTANTS NmProcs, NmIds, NmNames, NmLoads, NoName

VARIABLES nmLoad,   \* the scenario; never changes
          names,    \* Registrar.names: name -> id, or NoName (idx is its inverse)
          cname,    \* container.Name of each id, or NoName
          reg,      \* ids in daemon.containers
          cfile,    \* the name in config.v2.json, or NoName without a directory
          cLock,    \* holder of each container's lock, or NoName
          npc, nreq,
          nspent,
          marred    \* ids that a failed rename left without their name, or with another on
                    \* disk; no guard reads it

nmVars == <<nmLoad, names, cname, reg, cfile, cLock, npc, nreq, nspent, marred>>

NoNreq == [id |-> NoName, old |-> NoName, new |-> NoName]
GotoN(p, l) == npc' = [npc EXCEPT ![p] = l]
FinishN(p) == GotoN(p, "idle") /\ nreq' = [nreq EXCEPT ![p] = NoNreq]
AskN(p, what) ==
    /\ npc[p] = "idle" /\ what \in nmLoad.what /\ nspent.reqs < nmLoad.reqs
    /\ nspent' = [nspent EXCEPT !.reqs = @ + 1]
Fail == nspent.faults < nmLoad.faults /\ nspent' = [nspent EXCEPT !.faults = @ + 1]

\* Reserve is idempotent: a name may be reserved again for the same key.
Reserved(n, id) == names[n] \in {NoName, id}

-----------------------------------------------------------------------------
(* Create: reserve, write the container, register it.                      *)

NewContainer(p) ==
    /\ AskN(p, "create")
    /\ \E id \in NmIds, n \in NmNames :
         /\ cname[id] = NoName
         /\ Reserved(n, id)
         /\ names' = [names EXCEPT ![n] = id]
         /\ cname' = [cname EXCEPT ![id] = n]
         /\ nreq' = [nreq EXCEPT ![p] = [NoNreq EXCEPT !.id = id]]
    /\ GotoN(p, "todisk")
    /\ UNCHANGED <<nmLoad, marred, reg, cfile, cLock>>

\* A failure on the way ends in cleanupContainer with force.
CreateToDisk(p) ==
    /\ npc[p] = "todisk"
    /\ \/ /\ cfile' = [cfile EXCEPT ![nreq[p].id] = cname[nreq[p].id]]
          /\ GotoN(p, "register") /\ UNCHANGED nspent
       \/ Fail /\ GotoN(p, "unname") /\ UNCHANGED cfile
    /\ UNCHANGED <<nmLoad, marred, names, cname, reg, cLock, nreq>>

RegisterContainer(p) ==
    /\ npc[p] = "register"
    /\ reg' = reg \cup {nreq[p].id}
    /\ FinishN(p)
    /\ UNCHANGED <<nmLoad, marred, names, cname, cfile, cLock, nspent>>

-----------------------------------------------------------------------------
(* Rename.                                                                 *)

\* The old name is read before the lock is taken.
Rename(p) ==
    /\ AskN(p, "rename")
    /\ \E id \in reg, n \in NmNames :
         /\ n # cname[id]
         /\ nmLoad.apart => \A q \in NmProcs : nreq[q].id # id
         /\ nreq' = [nreq EXCEPT ![p] = [id |-> id, old |-> cname[id], new |-> n]]
    /\ GotoN(p, "reserve")
    /\ UNCHANGED <<nmLoad, marred, names, cname, reg, cfile, cLock>>

RenameReserve(p) ==
    /\ npc[p] = "reserve"
    /\ LET id == nreq[p].id
           n  == nreq[p].new
       IN  /\ cLock[id] = NoName
           /\ IF Reserved(n, id)
              THEN /\ names' = [names EXCEPT ![n] = id]
                   /\ cname' = [cname EXCEPT ![id] = n]
                   /\ cLock' = [cLock EXCEPT ![id] = p]
                   /\ GotoN(p, "release") /\ UNCHANGED nreq
              ELSE FinishN(p) /\ UNCHANGED <<names, cname, cLock>>
    /\ UNCHANGED <<nmLoad, marred, reg, cfile, nspent>>

\* Fault: the old name is kept.
RenameRelease_Kept(p) ==
    /\ npc[p] = "release"
    /\ GotoN(p, "save")
    /\ UNCHANGED <<nmLoad, marred, names, cname, reg, cfile, cLock, nreq, nspent>>

\* releaseName asks nobody whose name it is.
RenameRelease(p) ==
    /\ npc[p] = "release"
    /\ marred' = marred \cup ({names[nreq[p].old]} \ {nreq[p].id, NoName})
    /\ names' = [names EXCEPT ![nreq[p].old] = NoName]
    /\ GotoN(p, "save")
    /\ UNCHANGED <<nmLoad, cname, reg, cfile, cLock, nreq, nspent>>

\* container.ToDisk, which fails when the directory is gone, too.
Saved(id, n) == cfile[id] # NoName /\ cfile' = [cfile EXCEPT ![id] = n] /\ UNCHANGED nspent
NotSaved(id) == /\ \/ cfile[id] = NoName /\ UNCHANGED nspent
                   \/ Fail
                /\ UNCHANGED cfile

\* The new name is written.  The sandbox of a running container is renamed after that,
\* and may refuse.
RenameSave(p) ==
    /\ npc[p] = "save"
    /\ LET id == nreq[p].id
       IN  \/ /\ Saved(id, nreq[p].new)
              /\ cLock' = [cLock EXCEPT ![id] = NoName]
              /\ FinishN(p)
              /\ marred' = marred \ {id}
           \/ NotSaved(id) /\ GotoN(p, "undo") /\ UNCHANGED <<cLock, nreq, marred>>
           \/ /\ cfile[id] # NoName /\ Fail
              /\ cfile' = [cfile EXCEPT ![id] = nreq[p].new]
              /\ GotoN(p, "rewrite") /\ UNCHANGED <<cLock, nreq, marred>>
    /\ UNCHANGED <<nmLoad, names, cname, reg>>

\* The second deferred function: the old name is written back.
RenameRewrite(p) ==
    /\ npc[p] = "rewrite"
    /\ LET id == nreq[p].id
       IN  /\ cname' = [cname EXCEPT ![id] = nreq[p].old]
           /\ \/ Saved(id, nreq[p].old) /\ UNCHANGED marred
              \/ NotSaved(id) /\ marred' = marred \cup {id}
    /\ GotoN(p, "undo")
    /\ UNCHANGED <<nmLoad, names, reg, cLock, nreq>>

\* The first deferred function: the old name again, unless somebody took it meanwhile,
\* and the new one given back.
RenameUndo(p) ==
    /\ npc[p] = "undo"
    /\ LET id == nreq[p].id
       IN  /\ cname' = [cname EXCEPT ![id] = nreq[p].old]
           /\ names' = [names EXCEPT ![nreq[p].old] = IF Reserved(nreq[p].old, id) THEN id ELSE @,
                                     ![nreq[p].new] = NoName]
           /\ marred' = IF Reserved(nreq[p].old, id) THEN marred ELSE marred \cup {id}
           /\ cLock' = [cLock EXCEPT ![id] = NoName]
    /\ FinishN(p)
    /\ UNCHANGED <<nmLoad, reg, cfile, nspent>>

-----------------------------------------------------------------------------
(* Removal: the directory, every name of the id, the entry.                *)

Remove(p) ==
    /\ AskN(p, "rm")
    /\ \E id \in reg :
         /\ \A q \in NmProcs : nreq[q].id = id => ~nmLoad.apart /\ npc[q] \notin {"unname", "forget"}
         /\ cfile' = [cfile EXCEPT ![id] = NoName]
         /\ nreq' = [nreq EXCEPT ![p] = [NoNreq EXCEPT !.id = id]]
    /\ GotoN(p, "unname")
    /\ UNCHANGED <<nmLoad, marred, names, cname, reg, cLock>>

Unname(p) ==
    /\ npc[p] = "unname"
    /\ names' = [n \in NmNames |-> IF names[n] = nreq[p].id THEN NoName ELSE names[n]]
    /\ GotoN(p, "forget")
    /\ UNCHANGED <<nmLoad, marred, cname, reg, cfile, cLock, nreq, nspent>>

ForgetContainer(p) ==
    /\ npc[p] = "forget"
    /\ reg' = reg \ {nreq[p].id}
    /\ FinishN(p)
    /\ UNCHANGED <<nmLoad, marred, names, cname, cfile, cLock, nspent>>

-----------------------------------------------------------------------------
(* The daemon dies; daemon.restore registers the names found on disk, in   *)
(* no particular order, and skips a container whose name is taken.         *)

NmCrash ==
    /\ nspent.crashes < nmLoad.crashes
    /\ nspent' = [nspent EXCEPT !.crashes = @ + 1]
    /\ \E win \in [NmNames -> NmIds \cup {NoName}] :
         /\ \A n \in NmNames : IF \E id \in NmIds : cfile[id] = n
                               THEN win[n] # NoName /\ cfile[win[n]] = n
                               ELSE win[n] = NoName
         /\ names' = win
         /\ reg' = {win[n] : n \in NmNames} \ {NoName}
    /\ cname' = cfile
    /\ cLock' = [id \in NmIds |-> NoName]
    /\ npc' = [p \in NmProcs |-> "idle"] /\ nreq' = [p \in NmProcs |-> NoNreq]
    /\ marred' = {}
    /\ UNCHANGED <<nmLoad, cfile>>

-----------------------------------------------------------------------------
(* The specification.                                                      *)

NmInit ==
    /\ nmLoad \in NmLoads
    /\ names = [n \in NmNames |-> NoName]
    /\ cname = [id \in NmIds |-> NoName] /\ cfile = [id \in NmIds |-> NoName]
    /\ reg = {} /\ cLock = [id \in NmIds |-> NoName]
    /\ npc = [p \in NmProcs |-> "idle"] /\ nreq = [p \in NmProcs |-> NoNreq]
    /\ nspent = [reqs |-> 0, faults |-> 0, crashes |-> 0]
    /\ marred = {}

NmStep(p) ==
    \/ NewContainer(p) \/ CreateToDisk(p) \/ RegisterContainer(p)
    \/ Rename(p) \/ RenameReserve(p) \/ RenameRelease(p) \/ RenameSave(p)
    \/ RenameRewrite(p) \/ RenameUndo(p)
    \/ Remove(p) \/ Unname(p) \/ ForgetContainer(p)

NmNext == (\E p \in nmLoad.procs : NmStep(p)) \/ NmCrash

NmSpec == NmInit /\ [][NmNext]_nmVars

-----------------------------------------------------------------------------
(* Properties.                                                             *)

\* When nothing is in progress the registrar and the containers agree: a name belongs
\* to a registered container with this name, each registered container is found under
\* its own name (Registrar.Reserve: "A name reservation is globally unique";
\* ContainerRm: "If the remove succeeds, the container name is released"), and the
\* daemon would read the same names after a restart.  A rename that fails may leave its
\* container without a name, when another took the old one meanwhile, or with the new
\* name on disk (daemon/rename.go:52-55,77-79); and when such a container is renamed
\* again, that other one loses the name.  The second half says nothing of these.
NamesAgree ==
    (\A p \in NmProcs : npc[p] = "idle") =>
        /\ \A n \in NmNames : names[n] # NoName => names[n] \in reg /\ cname[names[n]] = n
        /\ \A id \in reg \ marred : names[cname[id]] = id /\ cfile[id] = cname[id]
=============================================================================
