--------------------------- MODULE ContainerVolumes ---------------------------
(***************************************************************************)
(* How the daemon uses the volume store: the mount points of containers    *)
(* (daemon/volumes.go, daemon/mounts.go), the volume requests              *)
(* (daemon/create.go, daemon/delete.go) and the start of the daemon        *)
(* (daemon/daemon.go).                                                     *)
(*                                                                         *)
(* A container has at most one mount point and is handled by one request   *)
(* at a time.  The mount points are on disk, without their Volume; all     *)
(* that the store knows is in memory.                                      *)
(***************************************************************************)
EXTENDS VolumeStore

VARIABLES
  job,      \* the request a process works on
  mount,    \* the mount point of a container, or Nil
  made,     \* the mount point a request creates or tears down
  booting,  \* containers that the restore of a starting daemon still has to start again, or
            \* to prepare the mount points of
  crashes,
  missed    \* history: containers without a reference since their automatic restart failed

cvars == <<job, mount, made, booting, crashes, missed>>
vars == <<svars, cvars>>

\* volume is the driver of m.Volume, or Nil; source: m.Source is set
Mounts == [name : Names, driver : Drivers, source : BOOLEAN, named : BOOLEAN,
           volume : Drivers \cup {Nil}]

ASSUME MountAssumption == Nil \notin Mounts

Init ==
  /\ StoreInit
  /\ job = [p \in Procs |-> "none"]
  /\ mount = [c \in Containers |-> Nil]
  /\ made = [c \in Containers |-> Nil]
  /\ booting = {} /\ crashes = 0 /\ missed = {}

Ready(p) == pc[p] = "idle" /\ booting = {}
Back(p, j, op) == pc[p] = "done" /\ job[p] = j /\ call[p].op = op
Begin(p, j) == job' = [job EXCEPT ![p] = j]
Quit(p) == /\ Goto(p, "idle") /\ Begin(p, "none") /\ Gives(p, Nil)
           /\ call' = [call EXCEPT ![p] = NoCall]
Same == UNCHANGED <<lock, names, refs, vols, up, faults, load>>
-----------------------------------------------------------------------------
\* VolumeCreate
VolumeCreate(r, n, d) ==
  /\ Ready(r)
  /\ Begin(r, "volume create") /\ Call(r, "create", n, d)
  /\ Same /\ UNCHANGED <<mount, made, booting, crashes, missed>>

\* VolumeRm: Get ...
VolumeRm(r, n) ==
  /\ Ready(r)
  /\ Begin(r, "volume rm") /\ Call(r, "get", n, Nil)
  /\ Same /\ UNCHANGED <<mount, made, booting, crashes, missed>>

\* ... then Remove, of the volume that Get found
VolumeRmRemove(r) ==
  /\ Back(r, "volume rm", "get") /\ got[r] # Nil
  /\ Call(r, "remove", call[r].name, got[r])
  /\ Same /\ UNCHANGED cvars

Answer(r) ==
  /\ r \in Clients /\ pc[r] = "done"
  /\ Back(r, "volume rm", "get") => got[r] = Nil
  /\ Quit(r)
  /\ Same /\ UNCHANGED <<mount, made, booting, crashes, missed>>
-----------------------------------------------------------------------------
NewMount(n, d, source, named) ==
  [name |-> n, driver |-> d, source |-> source, named |-> named, volume |-> Nil]

\* registerMountPoints, a bind with a volume name: its driver is the volume's, known
\* after CreateWithRef
Bind(c, n, d) ==
  /\ Ready(c) /\ mount[c] = Nil
  /\ Begin(c, "create") /\ Call(c, "create", n, d)
  /\ made' = [made EXCEPT ![c] = NewMount(n, Local, TRUE, TRUE)]
  /\ Same /\ UNCHANGED <<mount, booting, crashes, missed>>

\* A generated ID: a name that nothing has used.
Unused(n) == /\ \A d \in Drivers : <<d, n>> \notin vols
             /\ names[n] = Nil /\ refs[n] = {}
             /\ \A c \in Containers : mount[c] # Nil => mount[c].name # n
             /\ \A p \in Procs : call[p].name # n

\* createContainerPlatformSpecificSettings: a volume of the image
Anonymous(c, n, d) ==
  /\ Ready(c) /\ mount[c] = Nil /\ Unused(n)
  /\ Begin(c, "create anonymous") /\ Call(c, "create", n, d)
  /\ made' = [made EXCEPT ![c] = NewMount(n, Local, FALSE, FALSE)]
  /\ Same /\ UNCHANGED <<mount, booting, crashes, missed>>

\* registerMountPoints, --volumes-from: a mount point without a source is looked up
VolumesFrom(c, o) ==
  /\ Ready(c) /\ mount[c] = Nil /\ mount[o] # Nil /\ ~mount[o].source
  /\ Begin(c, "create") /\ Call(c, "getref", mount[o].name, mount[o].driver)
  /\ made' = [made EXCEPT ![c] = [mount[o] EXCEPT !.volume = Nil]]
  /\ Same /\ UNCHANGED <<mount, booting, crashes, missed>>

\* ... one with a source is copied as it is, without a reference
VolumesFromSource(c, o) ==
  /\ "bind sharing" \in load.uses
  /\ Ready(c) /\ mount[c] = Nil /\ mount[o] # Nil /\ mount[o].source
  /\ mount' = [mount EXCEPT ![c] = [mount[o] EXCEPT !.volume = Nil]]
  /\ Same /\ UNCHANGED <<pc, call, got, job, made, booting, crashes, missed>>

Creating(c) == pc[c] = "done" /\ job[c] \in {"create", "create anonymous"}
Given(c) == [made[c] EXCEPT !.driver = got[c], !.volume = got[c]]

\* The container is created, and saved
Created(c) ==
  /\ Creating(c) /\ got[c] # Nil
  /\ mount' = [mount EXCEPT ![c] = Given(c)]
  /\ made' = [made EXCEPT ![c] = Nil]
  /\ Quit(c)
  /\ Same /\ UNCHANGED <<booting, crashes, missed>>

\* The store refuses: no mount point was added
CreateRefused(c) ==
  /\ Creating(c) /\ got[c] = Nil
  /\ made' = [made EXCEPT ![c] = Nil]
  /\ Quit(c)
  /\ Same /\ UNCHANGED <<mount, booting, crashes, missed>>

\* setHostConfig fails after registerMountPoints (registerLinks), and the relabelling
\* of an anonymous volume: nobody dereferences what the request referenced
CreateFailsEarly(c) ==
  /\ "links" \in load.uses
  /\ Creating(c) /\ got[c] # Nil
  /\ made' = [made EXCEPT ![c] = Nil]
  /\ Quit(c)
  /\ Same /\ UNCHANGED <<mount, booting, crashes, missed>>

\* create fails later: removeMountPoints(container, true)
CreateFailsLate(c) ==
  /\ Creating(c) /\ got[c] # Nil
  /\ made' = [made EXCEPT ![c] = Given(c)]
  /\ Begin(c, "rm -v") /\ Call(c, "deref", made[c].name, got[c])
  /\ Same /\ UNCHANGED <<mount, booting, crashes, missed>>
-----------------------------------------------------------------------------
\* setupMounts at the start of a container: lazyInitializeVolume
ContainerStart(c) ==
  /\ Ready(c) /\ mount[c] # Nil /\ mount[c].volume = Nil
  /\ Begin(c, "start") /\ Call(c, "getref", mount[c].name, mount[c].driver)
  /\ Same /\ UNCHANGED <<mount, made, booting, crashes, missed>>

\* restore: containerStart for a container to be started again, up to its setupMounts, and
\* prepareMountPoints for the others.  Which ones have a restart policy is left open, and
\* the order of the two is not kept: either only looks volumes up.
Restore(c) ==
  /\ c \in booting /\ pc[c] = "idle"
  /\ Begin(c, "restore") /\ Call(c, "getref", mount[c].name, mount[c].driver)
  /\ Same /\ UNCHANGED <<mount, made, booting, crashes, missed>>

\* restore: containerStart fails before setupMounts (the root file system, the network,
\* the spec), which is logged; such a container is not among those prepared later
RestartFails(c) ==
  /\ c \in booting /\ pc[c] = "idle"
  /\ booting' = booting \ {c}
  /\ missed' = missed \cup {c}
  /\ Same /\ UNCHANGED <<pc, call, got, job, mount, made, crashes>>

\* The volume is set, or the error is returned or logged
Initialized(c) ==
  /\ pc[c] = "done" /\ job[c] \in {"start", "restore"}
  /\ mount' = [mount EXCEPT ![c].volume = got[c]]
  /\ booting' = booting \ {c}
  /\ missed' = IF got[c] = Nil THEN missed ELSE missed \ {c}
  /\ Quit(c)
  /\ Same /\ UNCHANGED <<made, crashes>>

\* ContainerStart with a host config (API before 1.24) registers the mount points
\* again, and step 4 of registerMountPoints dereferences those it keeps
StartWithConfig(c) ==
  /\ "start config" \in load.uses
  /\ Ready(c) /\ mount[c] # Nil /\ mount[c].volume # Nil
  /\ ~mount[c].source => mount[c].driver = Local
  /\ Begin(c, "start config") /\ Call(c, "deref", mount[c].name, mount[c].volume)
  /\ Same /\ UNCHANGED <<mount, made, booting, crashes, missed>>

StartedWithConfig(c) ==
  /\ Back(c, "start config", "deref")
  /\ Quit(c)
  /\ Same /\ UNCHANGED <<mount, made, booting, crashes, missed>>

RmWith(c, v, volume) ==
  /\ Ready(c) /\ mount[c] # Nil
  /\ mount' = [mount EXCEPT ![c] = Nil]
  /\ missed' = missed \ {c}
  /\ IF volume = Nil
     THEN UNCHANGED <<pc, call, got, job, made>>
     ELSE /\ made' = [made EXCEPT ![c] = mount[c]]
          /\ Begin(c, v) /\ Call(c, "deref", mount[c].name, volume)
  /\ Same /\ UNCHANGED <<booting, crashes>>

\* Fault: a removed container leaves its reference behind.
ContainerRm_NoDeref(c, v) == RmWith(c, v, Nil)

\* ContainerRm: the container goes first, then removeMountPoints
ContainerRm(c, v) == RmWith(c, v, mount[c].volume)

\* removeMountPoints: with -v, an unnamed volume goes as well
RmVolume(c) ==
  /\ Back(c, "rm -v", "deref") /\ ~made[c].named
  /\ Call(c, "remove", made[c].name, made[c].volume)
  /\ Same /\ UNCHANGED cvars

Removed(c) ==
  /\ pc[c] = "done" /\ job[c] \in {"rm", "rm -v"}
  /\ (job[c] = "rm -v" /\ ~made[c].named) => call[c].op = "remove"
  /\ made' = [made EXCEPT ![c] = Nil]
  /\ Quit(c)
  /\ Same /\ UNCHANGED <<mount, booting, crashes, missed>>
-----------------------------------------------------------------------------
CrashBooting(prepared) ==
  /\ crashes < load.crashes /\ crashes' = crashes + 1
  /\ lock' = [n \in Names |-> Nil]
  /\ names' = [n \in Names |-> Nil]
  /\ refs' = [n \in Names |-> {}]
  /\ pc' = [p \in Procs |-> "idle"]
  /\ call' = [p \in Procs |-> NoCall]
  /\ got' = [p \in Procs |-> Nil]
  /\ job' = [p \in Procs |-> "none"]
  /\ made' = [c \in Containers |-> Nil]
  /\ mount' = [c \in Containers |->
                 IF mount[c] = Nil THEN Nil ELSE [mount[c] EXCEPT !.volume = Nil]]
  /\ booting' = prepared
  /\ UNCHANGED <<vols, up, faults, load, missed>>

\* Fault: the mount points are left to the next start of their container.
Crash_Lazy == CrashBooting({})

\* The daemon stops and starts again: before it serves requests, every container with a
\* mount point goes through Restore or RestartFails
Crash == CrashBooting({c \in Containers : mount[c] # Nil})

ClientStep(r) ==
  \/ \E n \in Names, d \in Drivers \cup {NoDriver} : VolumeCreate(r, n, d)
  \/ \E n \in Names : VolumeRm(r, n)
  \/ VolumeRmRemove(r) \/ Answer(r)

ContainerStep(c) ==
  \/ \E n \in Names, d \in Drivers \cup {NoDriver} : Bind(c, n, d) \/ Anonymous(c, n, d)
  \/ \E o \in Containers : VolumesFrom(c, o) \/ VolumesFromSource(c, o)
  \/ Created(c) \/ CreateRefused(c) \/ CreateFailsEarly(c) \/ CreateFailsLate(c)
  \/ ContainerStart(c) \/ Restore(c) \/ RestartFails(c) \/ Initialized(c)
  \/ StartWithConfig(c) \/ StartedWithConfig(c)
  \/ \E v \in {"rm", "rm -v"} : ContainerRm(c, v)
  \/ RmVolume(c) \/ Removed(c)

Next ==
  \/ \E r \in Clients \cap load.procs : ClientStep(r)
  \/ \E c \in Containers \cap load.procs : ContainerStep(c)
  \/ \E p \in Procs : StoreStep(p) /\ UNCHANGED cvars
  \/ \E d \in load.fallible : Flip(d) /\ UNCHANGED cvars
  \/ Crash

Spec == Init /\ [][Next]_vars
-----------------------------------------------------------------------------
\* CreateWithRef and GetWithRef store the reference under the lock, so that no Remove
\* comes between finding a volume and referring to it (store.go:214-218, 316-318): the
\* volume of a mount point whose container the store knows as a reference exists.
HeldVolumeExists ==
  \A c \in Containers :
    (mount[c] # Nil /\ mount[c].volume # Nil /\ c \in refs[mount[c].name])
      => <<mount[c].volume, mount[c].name>> \in vols

\* --volumes-from of a named bind, a start with a host config, a creation that fails on
\* its links, and a driver that is away break what follows: see the README.
Plain == load.uses = {} /\ load.fallible = {}

\* The references to a volume are those of containers that exist or are in the middle of
\* a request: one that nobody drops would keep the volume until the daemon restarts
\* (mounts.go:34-48, volumes.go:72-82, create.go:121-125).
RefsAreReal ==
  Plain => \A n \in Names : \A c \in refs[n] :
             \/ mount[c] # Nil /\ mount[c].name = n
             \/ pc[c] # "idle" /\ call[c].name = n

\* The volume in the configuration of a container stays, whether or not the store has
\* heard of the container since its own start.
Keeps(c) == (mount[c] # Nil /\ mount'[c] # Nil)
              => LET v == <<mount[c].driver, mount[c].name>> IN v \in vols => v \in vols'

\* "If the volume is referenced by a container it is not removed" (delete.go:140), for
\* binds and anonymous volumes on drivers that stay, over crashes and failures.  Not for a
\* container that the starting daemon could not start again: restore leaves it out when it
\* prepares mount points (daemon.go:289-296), and until it has been started the store knows
\* no reference of it, so that its volume can be removed.
ReferencedNotRemoved == [][Plain => \A c \in Containers \ missed : Keeps(c)]_vars

\* "If the volume is referenced by a container it is not removed" (delete.go:140), as it
\* stands.
NeverRemoved == [][\A c \in Containers : Keeps(c)]_vars
=============================================================================
