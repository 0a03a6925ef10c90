----------------------------- MODULE DeviceSet -----------------------------
(***************************************************************************)
(* The device-mapper graph driver: daemon/graphdriver/devmapper            *)
(* (deviceset.go, driver.go) and the reference counter in front of it      *)
(* (daemon/graphdriver/counter.go), on a thin pool given by the            *)
(* administrator (dm.thinpooldev; blocks are then not discarded).          *)
(*                                                                         *)
(* Every layer is a thin device with a numeric id.  What the driver knows  *)
(* is spread over its memory (Devices, the map of used ids), one metadata  *)
(* file per device, the transaction file, the device-set file, and the     *)
(* pool in the kernel.  A creation or a deletion is a transaction: the     *)
(* transaction file is written first, the pool's transaction id is raised  *)
(* last, and a start that finds the file ahead of the pool rolls back.     *)
(*                                                                         *)
(* devices.Lock is devL; the lock of a device's info object is taken       *)
(* before it, after the lookup, so that an object may be out of date when  *)
(* its lock is got.  Transaction ids are only compared with each other and *)
(* with zero: a transaction file holds how far it is AHEAD of the pool.    *)
(***************************************************************************)
EXTENDS Integers, Sequences, FiniteSets, FiniteSetsExt

CONSTANTS DmUsers,    \* goroutines that serve the layer store
          DmHashes,   \* names of devices, besides the base device
          DmMaxId,    \* maxDeviceID: ids are 0..DmMaxId and wrap around
          DmRetries,  \* bound: how often removeDevice retries (200 in the code)
          DmLoads,    \* scenarios: options, faults, crashes, requests
          None        \* no value

Base   == "base"
Hashes == DmHashes \cup {Base}
Ids    == 0..DmMaxId
Procs  == DmUsers \cup {"boot", "worker"}

VARIABLES load,    \* the scenario; never changes
          up,      \* "down", "init", "up", "stopping", "failed"
          mem,     \* what a crash loses: see NoMem
          devL,    \* holder of devices.Lock, or None
          pc, op,  \* where each goroutine is, and in what call
          meta,    \* metadata file of each device, or None
          txFile,  \* transaction-metadata, or None
          setFile, \* deviceset-metadata: NextDeviceID and BaseDeviceUUID
          pool,    \* thin id -> name the device was created for, or None
          virgin,  \* the pool's transaction id is still 0
          act,     \* active (mapped) devices of the kernel, or None
          mnt,     \* devices mounted at their mount point
          held,    \* devices a detached mount elsewhere still keeps open
          ctr,     \* RefCounter
          kept,    \* devices promised to a caller and not asked to be deleted
          spent,   \* requests, faults and crashes so far
          past     \* what rollbacks left behind, for the properties; read by no
                   \* guard: see NoPast

dmVars == <<load, up, mem, devL, pc, op, meta, txFile, setFile, pool, virgin,
            act, mnt, held, ctr, kept, spent, past>>
disk   == <<meta, txFile, setFile>>
kernel == <<act, mnt, held>>

NoMem == [objs |-> <<>>,                       \* devInfo objects, by creation
          dev  |-> [h \in Hashes |-> 0],       \* Devices: index in objs, or 0
          next |-> 0, used |-> {}, nr |-> 0, uuid |-> None]

NoOp == [kind |-> None, h |-> None, o |-> 0, id |-> 0, sync |-> FALSE,
         tries |-> 0, todo |-> {}]

NoCtr == [h \in Hashes |-> [check |-> FALSE, count |-> 0]]

NoPast == [orphans |-> {},   \* ids a rollback could not delete from the pool
           ghosts  |-> {},   \* devices it forgot on the disk and not in Devices
           lost    |-> {}]   \* devices deleted in place of one of those

Obj(p) == mem.objs[op[p].o]
Open(h) == h \in mnt \cup held
IdActive(i) == \E h \in Hashes : act[h] # None /\ act[h].id = i

\* One call to the disk or to the kernel may fail when the scenario says so.
Fault == /\ spent.faults < load.faults
         /\ spent' = [spent EXCEPT !.faults = @ + 1]
NoFault == UNCHANGED spent

-----------------------------------------------------------------------------
(* Objects, ids and transactions.                                          *)

\* lookupDevice: what is not in Devices is loaded from its metadata file.
lookupDevice(m, h) ==
    IF m.dev[h] # 0 \/ meta[h] = None THEN m
    ELSE [m EXCEPT !.objs = Append(@, [hash |-> h, id |-> meta[h].id,
                                       deleted |-> meta[h].deleted,
                                       init |-> meta[h].init, lock |-> None]),
                   !.dev[h] = Len(m.objs) + 1]

\* The ids in the order getNextFreeDeviceID tries them, from NextDeviceID + 1.
After(n, k) == (n + k) % (DmMaxId + 1)

FreeFrom(m) == {k \in 1..(DmMaxId + 1) : After(m.next, k) \notin m.used}

getNextFreeDeviceID(m) ==
    LET k == CHOOSE k \in FreeFrom(m) : \A j \in FreeFrom(m) : k <= j
    IN  [m EXCEPT !.next = After(m.next, k), !.used = @ \cup {After(m.next, k)}]

\* What openTransaction saves: one more than the pool's transaction id.
openTransaction(h, i) == [ahead |-> 1, hash |-> h, id |-> i]

markDeviceIDFree(m, i) == [m EXCEPT !.used = @ \ {i}]

\* DeleteDevice of pkg/devicemapper: the thin device must exist and not be active.
PoolDelete(i) == IF pool[i] # None /\ ~IdActive(i) THEN [pool EXCEPT ![i] = None] ELSE pool

\* History: what a deletion of h by its id i destroys that is not h's.
Amiss(h, i) == IF h \in past.ghosts \cup past.lost THEN {pool[i]} \ {h, None} ELSE {}

\* updatePoolTransactionID: the pool now has the id of the transaction file.
Closed(t) == IF t = None THEN None ELSE [t EXCEPT !.ahead = 0]

-----------------------------------------------------------------------------
(* The end of a call: the deferred unlocks, and what the caller does next. *)

Unlocked(m, o) == IF o = 0 THEN m ELSE [m EXCEPT !.objs[o].lock = None]

BootCall(kind) == [NoOp EXCEPT !.kind = kind, !.h = Base, !.sync = TRUE]

\* m is the memory the call leaves behind, ok whether it returned no error.
Return(p, m, ok) ==
    LET c == op[p] IN
    /\ mem' = Unlocked(m, c.o)
    /\ devL' = None
    /\ kept' = IF ok /\ c.kind = "add" /\ p # "boot" THEN kept \cup {c.h} ELSE kept
    /\ ctr' = IF ~ok /\ c.kind = "get" THEN [ctr EXCEPT ![c.h].count = @ - 1] ELSE ctr
    /\ IF p = "boot"
       THEN IF ok THEN /\ pc' = [pc EXCEPT ![p] = IF c.kind = "del" THEN "dev" ELSE "mkfs"]
                       /\ op' = [op EXCEPT ![p] = BootCall("add")]
                       /\ UNCHANGED up
                  ELSE /\ up' = "failed"
                       /\ pc' = [pc EXCEPT ![p] = "idle"]
                       /\ op' = [op EXCEPT ![p] = NoOp]
       ELSE /\ UNCHANGED up
            /\ pc' = [pc EXCEPT ![p] = CASE p = "worker" /\ c.todo # {} -> "lookup"
                                         [] ok /\ c.kind = "get" -> "using"
                                         [] OTHER -> "idle"]
            /\ op' = [op EXCEPT ![p] =
                        IF p = "worker" /\ c.todo # {} THEN [NoOp EXCEPT !.todo = c.todo]
                        ELSE IF ok /\ c.kind = "get" THEN [NoOp EXCEPT !.h = c.h] ELSE NoOp]

Goto(p, l) == pc' = [pc EXCEPT ![p] = l]

-----------------------------------------------------------------------------
(* Requests of the layer store, the lookup and the two locks.              *)

Ask(p, kind, h) ==
    /\ spent.reqs < load.reqs
    /\ spent' = [spent EXCEPT !.reqs = @ + 1]
    /\ op' = [op EXCEPT ![p] = [NoOp EXCEPT !.kind = kind, !.h = h]]

\* Driver.Create on the base device, and Driver.Remove.  The layer store makes up
\* a name for each layer: nobody else uses it before Create has returned.  It
\* asks again for a removal that failed or was cut short when the scenario says so.
Request(p) ==
    /\ up = "up" /\ pc[p] = "idle"
    /\ \E h \in DmHashes :
         /\ h \in kept \/ \A q \in Procs : op[q].h # h
         /\ \/ Ask(p, "add", h) /\ UNCHANGED kept
            \/ Ask(p, "del", h) /\ (h \in kept \/ load.retry) /\ kept' = kept \ {h}
    /\ Goto(p, "lookup")
    /\ UNCHANGED <<load, past, up, mem, devL, disk, pool, virgin, kernel, ctr>>

\* lookupDeviceWithLock, and the test of Deleted that AddDevice and MountDevice
\* make before they have any lock.
Lookup(p) ==
    /\ pc[p] = "lookup" /\ devL = None
    /\ \E h \in IF p = "worker" THEN op[p].todo ELSE {op[p].h} :
         LET kind   == IF p = "worker" THEN "del" ELSE op[p].kind
             target == IF kind = "add" THEN Base ELSE h
             m      == lookupDevice(mem, target)
             o      == m.dev[target]
             c      == [op[p] EXCEPT !.kind = kind, !.h = h, !.todo = @ \ {h}]
         IN  /\ mem' = m
             /\ IF o = 0 \/ (kind \in {"add", "get"} /\ m.objs[o].deleted)
                THEN /\ pc' = [pc EXCEPT ![p] = IF c.todo = {} THEN "idle" ELSE "lookup"]
                     /\ op' = [op EXCEPT ![p] = [NoOp EXCEPT !.todo = c.todo]]
                     /\ ctr' = IF kind = "get" THEN [ctr EXCEPT ![h].count = @ - 1] ELSE ctr
                ELSE /\ Goto(p, "info")
                     /\ op' = [op EXCEPT ![p] = [c EXCEPT !.o = o]]
                     /\ UNCHANGED ctr
    /\ UNCHANGED <<load, past, up, devL, disk, pool, virgin, kernel, kept, spent>>

LockInfo(p) ==
    /\ pc[p] = "info" /\ Obj(p).lock = None
    /\ mem' = [mem EXCEPT !.objs[op[p].o].lock = p]
    /\ Goto(p, "dev")
    /\ UNCHANGED <<load, past, up, devL, op, disk, pool, virgin, kernel, ctr, kept, spent>>

-----------------------------------------------------------------------------
(* AddDevice and createRegisterDevice, from devices.Lock on.               *)

\* The device must not exist; an id is taken and the transaction is opened.
AddOpen(p) ==
    /\ pc[p] = "dev" /\ op[p].kind = "add" /\ devL = None
    /\ LET h == op[p].h
           m == IF p = "boot" THEN mem ELSE lookupDevice(mem, h)
           n == getNextFreeDeviceID(m)
       IN \/ /\ (m.dev[h] # 0 /\ p # "boot") \/ FreeFrom(m) = {}
             /\ NoFault /\ Return(p, m, FALSE) /\ UNCHANGED txFile
          \/ /\ (m.dev[h] = 0 \/ p = "boot") /\ FreeFrom(m) # {}
             /\ \/ /\ NoFault
                   /\ mem' = n /\ txFile' = openTransaction(h, n.next) /\ devL' = p
                   /\ Goto(p, "create")
                   /\ op' = [op EXCEPT ![p].id = n.next]
                   /\ UNCHANGED <<up, ctr, kept>>
                \/ /\ Fault
                   /\ Return(p, markDeviceIDFree(n, n.next), FALSE)
                   /\ UNCHANGED txFile
    /\ UNCHANGED <<load, past, meta, setFile, pool, virgin, kernel>>

\* CreateDevice, or CreateSnapDevice, whose origin must be in the pool.  An id
\* that the pool already has stays marked as used, and the next one is tried.
AddCreate(p) ==
    /\ pc[p] = "create"
    /\ LET i      == op[p].id
           exists == pool[i] # None
           origin == IF p = "boot" THEN TRUE ELSE pool[Obj(p).id] # None
           n      == getNextFreeDeviceID(mem)
       IN \/ /\ exists /\ FreeFrom(mem) # {}
             /\ op' = [op EXCEPT ![p].id = n.next]
             /\ mem' = n
             /\ \/ NoFault /\ txFile' = openTransaction(op[p].h, n.next)
                \/ Fault /\ UNCHANGED txFile
             /\ UNCHANGED <<up, devL, pc, pool, ctr, kept>>
          \/ /\ exists /\ FreeFrom(mem) = {}
             /\ NoFault /\ Return(p, mem, FALSE) /\ UNCHANGED <<pool, txFile>>
          \/ /\ ~exists /\ origin /\ NoFault
             /\ pool' = [pool EXCEPT ![i] = op[p].h]
             /\ Goto(p, "register")
             /\ UNCHANGED <<up, mem, devL, op, txFile, ctr, kept>>
          \/ /\ ~exists
             /\ IF origin THEN Fault ELSE NoFault
             /\ Return(p, markDeviceIDFree(mem, i), FALSE)
             /\ UNCHANGED <<pool, txFile>>
    /\ UNCHANGED <<load, past, meta, setFile, virgin, kernel>>

\* registerDevice: Devices first, then the metadata file.
AddRegister(p) ==
    /\ pc[p] = "register"
    /\ LET i == op[p].id
           h == op[p].h
           o == [hash |-> h, id |-> i, deleted |-> FALSE, init |-> FALSE, lock |-> None]
       IN \/ /\ NoFault
             /\ mem' = [mem EXCEPT !.objs = Append(@, o), !.dev[h] = Len(mem.objs) + 1]
             /\ meta' = [meta EXCEPT ![h] = [id |-> i, deleted |-> FALSE, init |-> FALSE]]
             /\ past' = [past EXCEPT !.lost = @ \ {h}, !.ghosts = @ \ {h}]
             /\ Goto(p, "closeAdd")
             /\ UNCHANGED <<up, devL, op, pool, ctr, kept>>
          \/ /\ Fault
             /\ pool' = PoolDelete(i)
             /\ Return(p, markDeviceIDFree([mem EXCEPT !.dev[h] = 0], i), FALSE)
             /\ UNCHANGED <<meta, past>>
    /\ UNCHANGED <<load, txFile, setFile, virgin, kernel>>

\* Fault: the creation is reported and the pool's transaction id is not raised.
AddClose_NotClosed(p) ==
    /\ pc[p] = "closeAdd"
    /\ NoFault /\ Return(p, mem, TRUE)
    /\ UNCHANGED <<load, past, virgin, disk, pool, kernel>>

\* closeTransaction raises the pool's transaction id; a failure takes the
\* device back.
AddClose(p) ==
    /\ pc[p] = "closeAdd"
    /\ LET i == op[p].id
           h == op[p].h
       IN \/ /\ NoFault
             /\ virgin' = FALSE /\ txFile' = Closed(txFile)
             /\ Return(p, mem, TRUE)
             /\ UNCHANGED <<meta, pool>>
          \/ /\ Fault
             /\ meta' = [meta EXCEPT ![h] = None]
             /\ pool' = PoolDelete(i)
             /\ Return(p, markDeviceIDFree([mem EXCEPT !.dev[h] = 0], i), FALSE)
             /\ UNCHANGED <<virgin, txFile>>
    /\ UNCHANGED <<load, past, setFile, kernel>>

-----------------------------------------------------------------------------
(* deactivateDevice, as DeleteDevice and UnmountDevice call it.            *)

\* What deactivateDevice leaves of the mapping of h, which is open or not.
Deactivated(h, open) ==
    IF act[h] = None \/ ~open THEN [act EXCEPT ![h] = None]
    ELSE [act EXCEPT ![h].deferred = load.deferredRemove]

Deactivates(h, open) == act[h] = None \/ load.deferredRemove \/ ~open

\* removeDevice found the device busy: it sleeps without devices.Lock, still
\* holding the lock of the device, and tries again or gives up.
Busy(p, l) ==
    IF op[p].tries < DmRetries
    THEN /\ devL' = None
         /\ Goto(p, l)
         /\ op' = [op EXCEPT ![p].tries = @ + 1]
         /\ UNCHANGED <<up, mem, ctr, kept>>
    ELSE Return(p, mem, FALSE)

\* deleteDevice up to the transaction.
DelOpen(p) ==
    /\ pc[p] = "dev" /\ op[p].kind = "del" /\ devL = None
    /\ LET h == op[p].h
       IN /\ act' = Deactivated(h, Open(h))
          /\ IF Deactivates(h, Open(h))
             THEN \/ /\ NoFault
                     /\ txFile' = openTransaction(h, Obj(p).id) /\ devL' = p
                     /\ Goto(p, "delete")
                     /\ UNCHANGED <<up, mem, op, ctr, kept>>
                  \/ Fault /\ Return(p, mem, FALSE) /\ UNCHANGED txFile
             ELSE NoFault /\ Busy(p, "dev") /\ UNCHANGED txFile
    /\ UNCHANGED <<load, past, meta, setFile, pool, virgin, mnt, held>>

\* devicemapper.DeleteDevice, and where deleteTransaction goes from its result.
DelPool(p) ==
    /\ pc[p] = "delete"
    /\ LET i    == Obj(p).id
           busy == pool[i] # None /\ IdActive(i)
       IN \/ /\ pool[i] # None /\ ~busy /\ NoFault
             /\ pool' = PoolDelete(i)
             /\ past' = [past EXCEPT !.orphans = @ \ {i}, !.lost = @ \cup Amiss(op[p].h, i)]
             /\ Goto(p, "unregister")
          \/ /\ busy /\ load.deferredDelete /\ ~op[p].sync /\ NoFault
             /\ Goto(p, IF Obj(p).deleted THEN "closeDel" ELSE "mark")
             /\ UNCHANGED <<pool, past>>
          \/ /\ IF busy /\ load.deferredDelete /\ ~op[p].sync THEN Fault
                ELSE IF busy \/ pool[i] = None THEN NoFault ELSE Fault
             /\ Goto(p, "closeErr")
             /\ UNCHANGED <<pool, past>>
    /\ UNCHANGED <<load, up, mem, devL, op, disk, virgin, kernel, ctr, kept>>

\* unregisterDevice; the counter and the id follow only if the file is gone.
DelUnregister(p) ==
    /\ pc[p] = "unregister"
    /\ LET gone == [mem EXCEPT !.dev[op[p].h] = 0]
           nr   == IF Obj(p).deleted THEN mem.nr - 1 ELSE mem.nr
       IN \/ /\ NoFault
             /\ meta' = [meta EXCEPT ![op[p].h] = None]
             /\ mem' = markDeviceIDFree([gone EXCEPT !.nr = nr], Obj(p).id)
             /\ Goto(p, "closeDel")
          \/ /\ Fault
             /\ mem' = gone
             /\ Goto(p, "closeErr")
             /\ UNCHANGED meta
    /\ UNCHANGED <<load, past, up, devL, op, txFile, setFile, pool, virgin, kernel, ctr, kept>>

\* markForDeferredDeletion of a device that is not marked yet.
DelMark(p) ==
    /\ pc[p] = "mark"
    /\ \/ /\ NoFault
          /\ mem' = [mem EXCEPT !.objs[op[p].o].deleted = TRUE, !.nr = @ + 1]
          /\ meta' = [meta EXCEPT ![op[p].h] = [id |-> Obj(p).id, deleted |-> TRUE,
                                                init |-> Obj(p).init]]
          /\ Goto(p, "closeDel")
       \/ /\ Fault
          /\ Goto(p, "closeErr")
          /\ UNCHANGED <<mem, meta>>
    /\ UNCHANGED <<load, past, up, devL, op, txFile, setFile, pool, virgin, kernel, ctr, kept>>

\* The deferred closeTransaction: it runs after an error too, and its own is
\* ignored.
DelClose(p) ==
    /\ pc[p] \in {"closeDel", "closeErr"}
    /\ \/ NoFault /\ virgin' = FALSE /\ txFile' = Closed(txFile)
       \/ Fault /\ UNCHANGED <<virgin, txFile>>
    /\ Return(p, mem, pc[p] = "closeDel")
    /\ UNCHANGED <<load, past, meta, setFile, pool, kernel>>

-----------------------------------------------------------------------------
(* Driver.Get and Driver.Put.                                              *)

\* RefCounter.Increment and Decrement: the first use of a path asks whether it
\* is mounted already.
Counted(h, d) ==
    [ctr EXCEPT ![h] = [check |-> TRUE,
                        count |-> @.count + d + IF ~@.check /\ h \in mnt THEN 1 ELSE 0]]

Get(p) ==
    /\ up = "up" /\ pc[p] = "idle" /\ p \in load.mounters
    /\ \E h \in kept : Ask(p, "get", h) /\ ctr' = Counted(h, 1)
    /\ Goto(p, "count")
    /\ UNCHANGED <<load, past, up, mem, devL, disk, pool, virgin, kernel, kept>>

Put(p) ==
    /\ pc[p] = "using"
    /\ ctr' = Counted(op[p].h, -1)
    /\ op' = [op EXCEPT ![p].kind = "put"]
    /\ Goto(p, "count")
    /\ UNCHANGED <<load, past, up, mem, devL, disk, pool, virgin, kernel, kept, spent>>

\* Both return m.count, which they read after c.mu.Unlock.
ReadCount(p) ==
    /\ pc[p] = "count"
    /\ LET n == ctr[op[p].h].count
       IN  CASE op[p].kind = "get" /\ n > 1 ->
                  Goto(p, "using") /\ op' = [op EXCEPT ![p].kind = None]
             [] op[p].kind = "put" /\ n > 0 ->
                  Goto(p, "idle") /\ op' = [op EXCEPT ![p] = NoOp]
             [] OTHER -> Goto(p, "lookup") /\ UNCHANGED op
    /\ UNCHANGED <<load, past, up, mem, devL, disk, pool, virgin, kernel, ctr, kept, spent>>

\* MountDevice under its locks: activateDeviceIfNeeded refuses a deleted device,
\* cancels a deferred removal and maps the device if it is not mapped.
MountDevice(p) ==
    /\ pc[p] = "dev" /\ op[p].kind = "get" /\ devL = None
    /\ LET h  == op[p].h
           ok == ~Obj(p).deleted /\ (act[h] # None \/ pool[Obj(p).id] # None)
       IN \/ /\ ok /\ NoFault
             /\ act' = [act EXCEPT ![h] = [id |-> IF @ = None THEN Obj(p).id ELSE @.id,
                                           deferred |-> FALSE]]
             /\ mnt' = mnt \cup {h}
             /\ Return(p, mem, TRUE)
          \/ /\ IF ok THEN Fault ELSE NoFault
             /\ Return(p, mem, FALSE)
             /\ UNCHANGED <<act, mnt>>
    /\ UNCHANGED <<load, past, disk, pool, virgin, held>>

\* UnmountDevice: the mount is detached, which may leave a copy of it in another
\* mount namespace, and the device is deactivated.
UnmountDevice(p) ==
    /\ devL = None
    /\ LET h == op[p].h
       IN \/ /\ pc[p] = "dev" /\ op[p].kind = "put"
             /\ mnt' = mnt \ {h}
             /\ held' \in IF h \in mnt /\ load.leaks THEN {held, held \cup {h}} ELSE {held}
          \/ pc[p] = "remove" /\ UNCHANGED <<mnt, held>>
    /\ LET h    == op[p].h
           open == h \in mnt' \cup held'
       IN IF pc[p] = "dev" /\ h \notin mnt
          THEN Return(p, mem, FALSE) /\ UNCHANGED act
          ELSE /\ act' = Deactivated(h, open)
               /\ IF Deactivates(h, open) THEN Return(p, mem, TRUE) ELSE Busy(p, "remove")
    /\ UNCHANGED <<load, past, disk, pool, virgin, spent>>

\* The kernel: the last user of a detached mount lets go of it, and a device
\* whose removal was deferred goes away.
LetGo(h) ==
    /\ h \in held
    /\ held' = held \ {h}
    /\ act' = IF act[h] # None /\ act[h].deferred /\ h \notin mnt
              THEN [act EXCEPT ![h] = None] ELSE act
    /\ UNCHANGED <<load, past, up, mem, devL, pc, op, disk, pool, virgin, mnt, ctr, kept, spent>>

-----------------------------------------------------------------------------
(* cleanupDeletedDevices, on the ticks of startDeviceDeletionWorker.       *)

Deleted(m) == {h \in Hashes : m.dev[h] # 0 /\ m.objs[m.dev[h]].deleted}

Worker ==
    /\ load.deferredDelete /\ up \in {"init", "up"} /\ pc["boot"] \notin {"rollback", "forget"}
    /\ pc["worker"] = "idle" /\ devL = None
    /\ mem.nr # 0 /\ Deleted(mem) # {}
    /\ op' = [op EXCEPT !["worker"] = [NoOp EXCEPT !.todo = Deleted(mem)]]
    /\ Goto("worker", "lookup")
    /\ UNCHANGED <<load, past, up, mem, devL, disk, pool, virgin, kernel, ctr, kept, spent>>

-----------------------------------------------------------------------------
(* initDevmapper: initMetaData and setupBaseImage.                         *)

Loaded == FoldSet(LAMBDA h, m : lookupDevice(m, h), NoMem, Hashes)

\* loadDeviceFilesOnStart, constructDeviceIDMap, countDeletedDevices, and
\* whether processPendingTransaction finds the file ahead of the pool.
Boot ==
    /\ up = "down"
    /\ up' = "init"
    /\ mem' = [Loaded EXCEPT !.used = {Loaded.objs[o].id : o \in DOMAIN Loaded.objs},
                             !.nr   = Cardinality(Deleted(Loaded)),
                             !.next = setFile.next, !.uuid = setFile.uuid]
    /\ IF txFile # None /\ txFile.ahead > 0
       THEN Goto("boot", "rollback") /\ devL' = "boot"
       ELSE Goto("boot", "setup") /\ UNCHANGED devL
    /\ UNCHANGED <<load, past, op, disk, pool, virgin, kernel, ctr, kept, spent>>

\* Fault: the device of the open transaction is not deleted from the pool.
Rollback_KeepsPool ==
    /\ pc["boot"] = "rollback"
    /\ Goto("boot", "forget")
    /\ UNCHANGED <<load, past, up, mem, devL, op, disk, pool, virgin, kernel, ctr, kept, spent>>

\* rollbackTransaction: the thin device (a failure is only logged) ...
Rollback ==
    /\ pc["boot"] = "rollback"
    /\ \/ NoFault /\ pool' = PoolDelete(txFile.id)
       \/ Fault /\ UNCHANGED pool
    /\ LET i == txFile.id
       IN  past' = IF pool'[i] # None THEN [past EXCEPT !.orphans = @ \cup {i}]
                   ELSE [past EXCEPT !.lost = @ \cup Amiss(txFile.hash, i)]
    /\ Goto("boot", "forget")
    /\ UNCHANGED <<load, up, mem, devL, op, disk, virgin, kernel, ctr, kept>>

\* ... then its metadata file, with which its id becomes free, and the transaction
\* file; again a failure is only logged.  Devices was loaded before and keeps its
\* entry.
Forget ==
    /\ pc["boot"] = "forget"
    /\ \E failed \in SUBSET {"meta", "tx"} :
         /\ spent.faults + Cardinality(failed) <= load.faults
         /\ spent' = [spent EXCEPT !.faults = @ + Cardinality(failed)]
         /\ IF "meta" \in failed THEN UNCHANGED <<meta, mem, past>>
            ELSE /\ meta' = [meta EXCEPT ![txFile.hash] = None]
                 /\ mem' = markDeviceIDFree(mem, txFile.id)
                 /\ past' = [past EXCEPT !.ghosts = {h \in {txFile.hash} : mem.dev[h] # 0}]
         /\ txFile' = IF "tx" \in failed THEN txFile ELSE None
    /\ devL' = None
    /\ Goto("boot", "setup")
    /\ UNCHANGED <<load, up, op, setFile, pool, virgin, kernel, ctr, kept>>

\* setupBaseImage: verify the base device, or delete what is left of it, or
\* create it in a pool that must be empty.
SetupBaseImage ==
    /\ pc["boot"] = "setup" /\ devL = None
    /\ LET m == lookupDevice(mem, Base)
           o == m.dev[Base]
           i == m.objs[o].id
       IN /\ mem' = m
          /\ IF o # 0 /\ m.objs[o].init /\ ~m.objs[o].deleted
             THEN /\ IF pool[i] # None /\ m.uuid \in {None, pool[i]}
                     THEN Goto("boot", IF m.uuid = None THEN "uuid" ELSE "idle")
                     ELSE Goto("boot", "idle")
                  /\ up' = IF pool[i] = None \/ m.uuid \notin {None, pool[i]} THEN "failed"
                           ELSE IF m.uuid = None THEN up ELSE "up"
                  /\ UNCHANGED op
             ELSE IF o # 0
             THEN /\ Goto("boot", "lookup")
                  /\ op' = [op EXCEPT !["boot"] = BootCall("del")]
                  /\ UNCHANGED up
             ELSE IF virgin /\ \A j \in Ids : pool[j] = None
             THEN /\ Goto("boot", "dev")
                  /\ op' = [op EXCEPT !["boot"] = BootCall("add")]
                  /\ UNCHANGED up
             ELSE up' = "failed" /\ Goto("boot", "idle") /\ UNCHANGED op
    /\ UNCHANGED <<load, past, devL, disk, pool, virgin, kernel, ctr, kept, spent>>

\* createBaseImage after createRegisterDevice: the file system is made and the
\* device is saved as initialized ...
MakeBase ==
    /\ pc["boot"] = "mkfs"
    /\ LET o == mem.dev[Base]
       IN \/ /\ NoFault
             /\ act' = [act EXCEPT ![Base] = [id |-> mem.objs[o].id, deferred |-> FALSE]]
             /\ mem' = [mem EXCEPT !.objs[o].init = TRUE]
             /\ meta' = [meta EXCEPT ![Base].init = TRUE]
             /\ Goto("boot", "uuid")
             /\ UNCHANGED <<up, op>>
          \/ /\ Fault
             /\ up' = "failed" /\ Goto("boot", "idle")
             /\ op' = [op EXCEPT !["boot"] = NoOp]
             /\ UNCHANGED <<act, mem, meta>>
    /\ UNCHANGED <<load, past, devL, txFile, setFile, pool, virgin, mnt, held, ctr, kept>>

\* ... and saveBaseDeviceUUID writes the device-set file.
SaveBaseUUID ==
    /\ pc["boot"] = "uuid" /\ devL = None
    /\ act' = [act EXCEPT ![Base] = None]
    /\ mem' = [mem EXCEPT !.uuid = Base]
    /\ \/ /\ NoFault
          /\ setFile' = [next |-> mem.next, uuid |-> Base]
          /\ up' = "up"
       \/ /\ Fault
          /\ up' = "failed"
          /\ UNCHANGED setFile
    /\ Goto("boot", "idle")
    /\ op' = [op EXCEPT !["boot"] = NoOp]
    /\ UNCHANGED <<load, past, devL, meta, txFile, pool, virgin, mnt, held, ctr, kept>>

-----------------------------------------------------------------------------
(* The end of the daemon.                                                  *)

Stops ==
    /\ spent.crashes < load.crashes
    /\ spent' = [spent EXCEPT !.crashes = @ + 1]
    /\ past' = [past EXCEPT !.ghosts = {h \in @ : txFile # None /\ txFile.hash = h}]
    /\ up' = "down" /\ mem' = NoMem /\ devL' = None /\ ctr' = NoCtr
    /\ pc' = [p \in Procs |-> "idle"] /\ op' = [p \in Procs |-> NoOp]

\* The process ends at any point; mounts and mappings are the kernel's.
Crash ==
    /\ up # "down" /\ Stops
    /\ UNCHANGED <<load, disk, pool, virgin, kernel, kept>>

\* Shutdown saves the device-set file first, because it may be killed later ...
Shutdown ==
    /\ up = "up" /\ devL = None /\ spent.crashes < load.crashes
    /\ setFile' = [next |-> mem.next, uuid |-> mem.uuid]
    /\ up' = "stopping"
    /\ UNCHANGED <<load, past, mem, devL, pc, op, meta, txFile, pool, virgin, kernel, ctr, kept, spent>>

\* ... then detaches the mounts and deactivates the devices.
ShutdownRest ==
    /\ up = "stopping" /\ devL = None /\ Stops
    /\ mnt' = {}
    /\ act' = [h \in Hashes |-> Deactivated(h, h \in held)[h]]
    /\ UNCHANGED <<load, disk, pool, virgin, held, kept>>

-----------------------------------------------------------------------------

Fresh == [meta |-> [h \in Hashes |-> None], pool |-> [i \in Ids |-> None],
          next |-> 0, uuid |-> None]

\* A daemon that created its base device in an earlier life.
Installed ==
    [meta |-> [h \in Hashes |-> IF h = Base THEN [id |-> 1, deleted |-> FALSE, init |-> TRUE]
                                ELSE None],
     pool |-> [i \in Ids |-> IF i = 1 THEN Base ELSE None],
     next |-> 1, uuid |-> Base]

DmInit ==
    /\ load \in DmLoads
    /\ LET s == IF load.fresh THEN Fresh ELSE Installed
       IN  /\ meta = s.meta /\ pool = s.pool
           /\ setFile = [next |-> s.next, uuid |-> s.uuid]
    /\ txFile = None /\ virgin = load.fresh
    /\ up = "down" /\ mem = NoMem /\ devL = None /\ ctr = NoCtr
    /\ pc = [p \in Procs |-> "idle"] /\ op = [p \in Procs |-> NoOp]
    /\ act = [h \in Hashes |-> None] /\ mnt = {} /\ held = {}
    /\ kept = {}
    /\ spent = [reqs |-> 0, faults |-> 0, crashes |-> 0] /\ past = NoPast

Step(p) ==
    \/ Lookup(p) \/ LockInfo(p)
    \/ AddOpen(p) \/ AddCreate(p) \/ AddRegister(p) \/ AddClose(p)
    \/ DelOpen(p) \/ DelPool(p) \/ DelUnregister(p) \/ DelMark(p) \/ DelClose(p)

UserStep(p) == Step(p) \/ Request(p) \/ Get(p) \/ Put(p) \/ ReadCount(p)
                       \/ MountDevice(p) \/ UnmountDevice(p)

BootStep == Boot \/ Rollback \/ Forget \/ SetupBaseImage \/ MakeBase \/ SaveBaseUUID

\* Every call has returned; the requests of the scenario are spent.
Rest == /\ up \in {"up", "down", "failed"} /\ \A p \in Procs : pc[p] \in {"idle", "using"}
        /\ UNCHANGED dmVars

DmNext ==
    \/ \E p \in Procs : Step(p)
    \/ \E p \in DmUsers : UserStep(p)
    \/ Worker \/ BootStep \/ Crash \/ Shutdown \/ ShutdownRest
    \/ \E h \in Hashes : LetGo(h)
    \/ Rest

DmSpec == DmInit /\ [][DmNext]_dmVars

-----------------------------------------------------------------------------
(* Properties.                                                             *)

\* What AddDevice promised and nobody asked to delete is, in every state and
\* through every failure, crash and rollback, described by its metadata file as
\* a live device, and the pool holds under its id what was created for it.  One
\* case is the code's own and excepted: a rollback frees the id of a device and
\* leaves the device in Devices (deviceset.go:1363-1378); the next device gets
\* that id, and a deletion of the first that is asked again, by the layer store
\* or the deletion worker, deletes the thin device of the second (1955), whose
\* id is then free in its turn.
DevicesSurvive ==
    \A h \in kept : /\ meta[h] # None /\ ~meta[h].deleted
                    /\ pool[meta[h].id] = h \/ h \in past.lost

\* While no transaction runs in a daemon that is up, every thin device of the
\* pool is the device of a metadata file: a creation or deletion that failed or
\* was cut short by a crash leaves no device that nobody will ever delete, but
\* for one that the rollback could not delete, because it was in use or the call
\* failed.  Nor is one forgotten that is marked for deferred deletion:
\* nrDeletedDevices, without which cleanupDeletedDevices does nothing
\* (deviceset.go:658), counts the devices that are marked, through deletions by
\* others and restarts.  It may only stay too high, after a metadata file could
\* not be removed.
NothingLeaked ==
    up = "up" /\ devL = None =>
        LET n == Cardinality(Deleted(mem)) IN
        /\ \A i \in Ids \ past.orphans : pool[i] # None => \E h \in Hashes : meta[h] # None /\ meta[h].id = i
        /\ mem.nr >= n /\ (spent.faults = 0 => mem.nr = n)
=============================================================================
