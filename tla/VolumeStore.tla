----------------------------- MODULE VolumeStore -----------------------------
(***************************************************************************)
(* volume/store/store.go: the names, the drivers and the references of     *)
(* volumes.  A process makes one call of the store at a time; a container  *)
(* is the process that makes the calls with its ID as the reference, a     *)
(* client makes the calls without one.  A call runs under the lock of the  *)
(* volume's name (a pkg/locker lock, see Locker) and is cut at every       *)
(* driver operation and at its last write, which frees the lock.           *)
(*                                                                         *)
(* A volume is a pair of a driver and a name.  Options, labels and scopes  *)
(* are left out: no decision of the store depends on them.                 *)
(***************************************************************************)
EXTENDS Naturals, FiniteSets

CONSTANTS Containers, Clients, Names, Drivers, Nil,
          Local,      \* volume.DefaultDriverName
          Loads       \* what the daemon may be put through: who acts (procs), the drivers
                      \* that may go away and come back (fallible), what the clients use
                      \* besides binds and anonymous volumes (uses), and the bounds on failed
                      \* driver and database operations (faults) and on restarts (crashes)

ASSUME VolumeAssumption ==
  /\ Local \in Drivers
  /\ Loads \subseteq [procs : SUBSET (Containers \cup Clients),
                      fallible : SUBSET (Drivers \ {Local}), faults : Nat, crashes : Nat,
                      uses : SUBSET {"bind sharing", "start config", "links"}]
  /\ Nil \notin Drivers \cup Containers \cup Clients
  /\ Containers \cap Clients = {}

VARIABLES
  lock,      \* locks: the process that holds the lock of a name
  names,     \* the driver of the volume stored under a name
  refs,      \* the containers that refer to a name
  vols,      \* the volumes the drivers have
  up,        \* the drivers GetDriver finds
  pc, call,  \* of a process: where it is, and in which call
  got,       \* what its call returned: a volume's driver, or Nil with an error
  faults,
  load       \* the member of Loads this behaviour is about

store == <<names, refs>>
svars == <<lock, names, refs, vols, up, pc, call, got, faults, load>>

Procs == Containers \cup Clients
NoDriver == Nil    \* the empty driver name
NoCall == [op |-> "none", name |-> Nil, driver |-> Nil]

StoreInit ==
  /\ lock = [n \in Names |-> Nil]
  /\ names = [n \in Names |-> Nil]
  /\ refs = [n \in Names |-> {}]
  /\ vols = {}
  /\ up = Drivers
  /\ pc = [p \in Procs |-> "idle"]
  /\ call = [p \in Procs |-> NoCall]
  /\ got = [p \in Procs |-> Nil]
  /\ faults = 0 /\ load \in Loads

Goto(p, where) == pc' = [pc EXCEPT ![p] = where]
Step(p, from, where) == pc[p] = from /\ Goto(p, where)
OK == UNCHANGED faults
Fails == faults < load.faults /\ faults' = faults + 1
Gives(p, d) == got' = [got EXCEPT ![p] = d]
Free(n) == lock' = [lock EXCEPT ![n] = Nil]

\* The deferred Unlock and the return with result d.
Return(p, d) == Goto(p, "done") /\ Free(call[p].name) /\ Gives(p, d)
-----------------------------------------------------------------------------
Call(p, op, n, d) ==
  /\ Goto(p, "call")
  /\ call' = [call EXCEPT ![p] = [op |-> op, name |-> n, driver |-> d]]
  /\ Gives(p, Nil)

\* s.locks.Lock(name)
Lock(p) ==
  /\ pc[p] = "call"
  /\ lock[call[p].name] = Nil
  /\ lock' = [lock EXCEPT ![call[p].name] = p]
  /\ Goto(p, call[p].op)
  /\ UNCHANGED <<names, refs, vols, up, call, got, faults, load>>

\* getVolume, the drivers that have the volume: the stored one, or any
Found(n) == IF names[n] # Nil THEN {names[n]} \cap {d \in up : <<d, n>> \in vols}
                              ELSE {d \in up : <<d, n>> \in vols}

\* create, up to the use of a driver: a stored volume is returned unless another
\* driver is asked for, and without a driver name all of them are asked
CreateNamed(p) ==
  LET n == call[p].name
      d == call[p].driver
      conflict == d \notin {names[n], NoDriver, Local}
  IN /\ pc[p] = "create"
     /\ \/ names[n] # Nil /\ conflict /\ Return(p, Nil)
        \/ /\ names[n] # Nil /\ ~conflict
           /\ Goto(p, "set") /\ Gives(p, names[n]) /\ UNCHANGED lock
        \/ /\ names[n] = Nil
           /\ d = NoDriver => Found(n) = {}
           /\ Goto(p, "driver") /\ UNCHANGED <<lock, got>>
        \/ /\ names[n] = Nil /\ d = NoDriver
           /\ \E e \in Found(n) : Gives(p, e)
           /\ Goto(p, "set") /\ UNCHANGED lock
     /\ UNCHANGED <<store, vols, up, call, faults, load>>

\* create: the driver's Get, then its Create
CreateDriver(p) ==
  LET n == call[p].name
      d == IF call[p].driver = NoDriver THEN Local ELSE call[p].driver
  IN /\ pc[p] = "driver"
     /\ \/ d \notin up /\ OK /\ Return(p, Nil) /\ UNCHANGED vols
        \/ /\ d \in up /\ <<d, n>> \in vols
           /\ OK /\ Goto(p, "set") /\ Gives(p, d) /\ UNCHANGED <<vols, lock>>
        \/ /\ d \in up /\ <<d, n>> \notin vols
           /\ \/ /\ OK /\ vols' = vols \cup {<<d, n>>}
                 /\ Goto(p, "save") /\ Gives(p, d) /\ UNCHANGED lock
              \/ Fails /\ Return(p, Nil) /\ UNCHANGED vols
     /\ UNCHANGED <<store, up, call, load>>

\* create: the labels and the metadata; when that fails the driver keeps the volume
CreateSave(p) ==
  /\ pc[p] = "save"
  /\ \/ OK /\ Goto(p, "set") /\ UNCHANGED <<lock, got>>
     \/ Fails /\ Return(p, Nil)
  /\ UNCHANGED <<store, vols, up, call, load>>

\* GetWithRef asks the given driver, whatever is stored under the name
GetWithRef(p) ==
  LET v == <<call[p].driver, call[p].name>>
  IN /\ pc[p] = "getref"
     /\ IF v \in vols /\ v[1] \in up
        THEN Goto(p, "set") /\ Gives(p, v[1]) /\ UNCHANGED lock
        ELSE Return(p, Nil)
     /\ UNCHANGED <<store, vols, up, call, faults, load>>

\* Get and getVolume
Get(p) ==
  /\ pc[p] = "get"
  /\ \/ \E d \in Found(call[p].name) : Goto(p, "set") /\ Gives(p, d) /\ UNCHANGED lock
     \/ Found(call[p].name) = {} /\ Return(p, Nil)
  /\ UNCHANGED <<store, vols, up, call, faults, load>>

\* setNamed, and the end of the calls that use it
SetNamed(p) ==
  LET n == call[p].name
  IN /\ pc[p] = "set"
     /\ names' = [names EXCEPT ![n] = got[p]]
     /\ refs' = [refs EXCEPT ![n] = @ \cup ({p} \cap Containers)]
     /\ Return(p, got[p])
     /\ UNCHANGED <<vols, up, call, faults, load>>
-----------------------------------------------------------------------------
RemoveCheckRefs(p, used) ==
  /\ pc[p] = "remove"
  /\ \/ (used \/ call[p].driver \notin up) /\ Return(p, Nil)
     \/ /\ ~used /\ call[p].driver \in up
        /\ Goto(p, "unlink") /\ UNCHANGED <<lock, got>>
  /\ UNCHANGED <<store, vols, up, call, faults, load>>

\* Fault: the references are not looked at.
RemoveCheck_Blind(p) == RemoveCheckRefs(p, FALSE)

\* Remove: a volume with references stays.  Without its driver the call ends as well, by
\* a panic: the error value is built from the nil driver.
RemoveCheck(p) == RemoveCheckRefs(p, refs[call[p].name] # {})

\* Remove: the driver removes its volume
RemoveDriver(p) ==
  /\ pc[p] = "unlink"
  /\ \/ /\ call[p].driver \in up
        /\ OK /\ vols' = vols \ {<<call[p].driver, call[p].name>>}
        /\ Goto(p, "purge") /\ UNCHANGED <<lock, got>>
     \/ Fails /\ Return(p, Nil) /\ UNCHANGED vols
     \/ call[p].driver \notin up /\ OK /\ Return(p, Nil) /\ UNCHANGED vols
  /\ UNCHANGED <<store, up, call, load>>

\* Remove: purge
Purge(p) ==
  LET n == call[p].name
  IN /\ pc[p] = "purge"
     /\ names' = [names EXCEPT ![n] = Nil]
     /\ refs' = [refs EXCEPT ![n] = {}]
     /\ Return(p, call[p].driver)
     /\ UNCHANGED <<vols, up, call, faults, load>>

\* Dereference: every reference of the container to the name
Dereference(p) ==
  /\ pc[p] = "deref"
  /\ refs' = [refs EXCEPT ![call[p].name] = @ \ {p}]
  /\ Return(p, call[p].driver)
  /\ UNCHANGED <<names, vols, up, call, faults, load>>

StoreStep(p) ==
  \/ Lock(p)
  \/ CreateNamed(p) \/ CreateDriver(p) \/ CreateSave(p)
  \/ GetWithRef(p) \/ Get(p) \/ SetNamed(p)
  \/ RemoveCheck(p) \/ RemoveDriver(p) \/ Purge(p)
  \/ Dereference(p)

\* A driver becomes unavailable, or available again.
Flip(d) == /\ up' = IF d \in up THEN up \ {d} ELSE up \cup {d}
           /\ UNCHANGED <<lock, names, refs, vols, pc, call, got, faults, load>>
=============================================================================
