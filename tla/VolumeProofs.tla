---------------------------- MODULE VolumeProofs ----------------------------
(***************************************************************************)
(* A restart of the daemon, a driver that goes away and the requests of    *)
(* clients and containers keep the invariant of the volume store.  What    *)
(* follows from it: volumes that are referred to exist, no reference       *)
(* outlives its container, and a volume with a container is not removed    *)
(* unless the automatic restart of the container has failed, for any       *)
(* number of clients, containers, names and drivers.                       *)
(***************************************************************************)
EXTENDS DaemonProofs

\* More time for a leaf than by default, and a second attempt, for slow machines.
USE SMTT(30), Z3T(30), ZenonT(30)

\* The daemon starts again: the store is empty, and every mount point is to be prepared.
LEMMA CrashInv ==
  ASSUME VolInv, Crash
  PROVE  VolInv' /\ vols' = vols
<1>1. /\ lock' = [n \in Names |-> Nil] /\ names' = [n \in Names |-> Nil]
      /\ refs' = [n \in Names |-> {}] /\ pc' = [p \in Procs |-> "idle"]
      /\ call' = [p \in Procs |-> NoCall] /\ got' = [p \in Procs |-> Nil]
      /\ job' = [p \in Procs |-> "none"] /\ made' = [c \in Containers |-> Nil]
      /\ booting' = {c \in Containers : mount[c] # Nil}
      /\ UNCHANGED <<vols, up, load, missed>>
  BY Zenon DEF Crash, CrashBooting
<1>2. mount' = [c \in Containers |->
                  IF mount[c] = Nil THEN Nil ELSE [mount[c] EXCEPT !.volume = Nil]]
  BY Zenon DEF Crash, CrashBooting
<1>3. /\ vols \in SUBSET (Drivers \X Names) /\ up \in SUBSET Drivers /\ load \in Loads
      /\ mount \in [Containers -> Mounts \cup {Nil}]
  BY Zenon DEF VolInv, VolTypeOK
<1>4. ASSUME NEW c \in Containers
      PROVE  /\ mount'[c] \in Mounts \cup {Nil} /\ (mount'[c] = Nil <=> mount[c] = Nil)
             /\ mount[c] # Nil => /\ mount'[c].volume = Nil
                                  /\ mount'[c].name = mount[c].name /\ mount'[c].driver = mount[c].driver
  <2>1. CASE mount[c] = Nil
    BY <1>2, <2>1
  <2>2. CASE mount[c] # Nil
    <3>1. mount[c] \in Mounts /\ mount'[c] = [mount[c] EXCEPT !.volume = Nil]
      BY <1>2, <1>3, <2>2
    <3>2. /\ mount'[c] \in Mounts /\ mount'[c].volume = Nil
          /\ mount'[c].name = mount[c].name /\ mount'[c].driver = mount[c].driver
      BY <3>1 DEF Mounts
    <3> QED
      BY <2>2, <3>2, MountAssumption
  <2> QED
    BY <2>1, <2>2
<1>5. VolTypeOK'
  <2>1. mount' \in [Containers -> Mounts \cup {Nil}]
    BY <1>2, <1>4
  <2>2. /\ lock' \in [Names -> Procs \cup {Nil}] /\ names' \in [Names -> Drivers \cup {Nil}]
        /\ refs' \in [Names -> SUBSET Containers]
    BY <1>1
  <2>3. /\ pc' \in [Procs -> Locked \cup {"idle", "call", "done"}]
        /\ call' \in [Procs -> Calls \cup {NoCall}] /\ got' \in [Procs -> Drivers \cup {Nil}]
    BY <1>1
  <2>4. job' \in [Procs -> Jobs] /\ made' \in [Containers -> Mounts \cup {Nil}] /\ booting' \in SUBSET Containers
    BY <1>1 DEF Jobs
  <2> QED
    BY <1>1, <1>3, <2>1, <2>2, <2>3, <2>4, Zenon DEF VolTypeOK
<1>6. /\ \A p \in Procs : pc'[p] = "idle" /\ job'[p] = "none" /\ got'[p] = Nil
      /\ \A c \in Containers : c \in Procs /\ (c \in booting' <=> mount[c] # Nil)
      /\ \A n \in Names : names'[n] = Nil /\ refs'[n] = {}
  BY <1>1 DEF Procs
<1>7. BootOK'
  BY <1>1, <1>4, <1>6 DEF BootOK
<1>8. \A p \in Procs : CallOK(p)'
  BY <1>6 DEF CallOK, Locked, Ops
<1>9. \A n \in Names : NamedOK(n)'
  BY <1>6, Zenon DEF NamedOK
<1>10. ASSUME NEW c \in Containers PROVE JobOK(c)' /\ MountOK(c)' /\ (Plain => PlainOK(c)')
  <2>1. JobOK(c)'
    BY <1>6, <1>10, Zenon DEF JobOK, Getting, Removing
  <2>2. MountOK(c)'
    BY <1>4, <1>10, Zenon DEF MountOK
  <2>3. ASSUME Plain PROVE PlainOK(c)'
    <3>1. /\ mount[c] # Nil /\ c \notin missed => <<mount[c].driver, mount[c].name>> \in vols
          /\ c \in missed => mount[c] # Nil
      BY <1>10, <2>3, Zenon DEF VolInv, PlainOK
    <3>2. /\ job'[c] \notin {"start", "start config", "restore"} /\ job'[c] \notin Getting
          /\ \A n \in Names : c \notin refs'[n]
      BY <1>6, <1>10, Zenon DEF Getting
    <3> QED
      BY <1>1, <1>4, <1>6, <1>10, <3>1, <3>2, Zenon DEF PlainOK, FindsOK
  <2> QED
    BY <2>1, <2>2, <2>3
<1>11. (Plain <=> Plain') /\ (Plain => up' = Drivers)
  <2>1. Plain => up = Drivers
    BY Zenon DEF VolInv
  <2>2. Plain <=> Plain'
    BY <1>1 DEF Plain
  <2> QED
    BY <1>1, <2>1, <2>2, Zenon
<1> QED
  BY <1>1, <1>5, <1>7, <1>8, <1>9, <1>10, <1>11, Zenon DEF VolInv

\* A driver that goes away or comes back: only the runs that are not plain have one.
LEMMA FlipInv ==
  ASSUME VolInv, NEW d \in load.fallible, Flip(d), UNCHANGED cvars
  PROVE  VolInv' /\ vols' = vols
<1>1. UNCHANGED <<lock, names, refs, vols, pc, call, got, load, job, mount, made, booting, missed>>
  BY Zenon DEF Flip, cvars
<1>2. d \in Drivers
  BY VolumeAssumption, Zenon DEF VolInv, VolTypeOK
<1>3. up' \in SUBSET Drivers
  BY <1>2 DEF Flip, VolInv, VolTypeOK
<1>4. ~Plain /\ ~Plain'
  BY <1>1 DEF Plain
<1>5. VolTypeOK'
  BY <1>1, <1>3, Zenon DEF VolInv, VolTypeOK
<1>6. BootOK'
  BY <1>1, Zenon DEF VolInv, BootOK
<1>7. \A p \in Procs : CallOK(p)'
  BY <1>1, Zenon DEF VolInv, CallOK
<1>8. \A n \in Names : NamedOK(n)'
  BY <1>1, Zenon DEF VolInv, NamedOK
<1>9. ASSUME NEW c \in Containers PROVE JobOK(c)' /\ MountOK(c)'
  <2>1. JobOK(c) /\ MountOK(c)
    BY <1>9, Zenon DEF VolInv
  <2>2. JobOK(c)'
    BY <1>1, <2>1, Zenon DEF JobOK
  <2> QED
    BY <1>1, <2>1, <2>2, Zenon DEF MountOK
<1> QED
  BY <1>1, <1>4, <1>5, <1>6, <1>7, <1>8, <1>9, Zenon DEF VolInv

LEMMA InitVolInv ==
  Init => VolInv
<1> SUFFICES ASSUME Init PROVE VolInv
  OBVIOUS
<1>1. /\ lock = [n \in Names |-> Nil] /\ names = [n \in Names |-> Nil]
      /\ refs = [n \in Names |-> {}] /\ pc = [p \in Procs |-> "idle"]
      /\ call = [p \in Procs |-> NoCall] /\ got = [p \in Procs |-> Nil]
      /\ job = [p \in Procs |-> "none"] /\ made = [c \in Containers |-> Nil]
      /\ mount = [c \in Containers |-> Nil] /\ booting = {} /\ vols = {} /\ up = Drivers /\ load \in Loads
      /\ missed = {}
  BY Zenon DEF Init, StoreInit
<1>2. VolTypeOK
  <2>1. /\ lock \in [Names -> Procs \cup {Nil}] /\ names \in [Names -> Drivers \cup {Nil}]
        /\ refs \in [Names -> SUBSET Containers]
    BY <1>1
  <2>2. /\ pc \in [Procs -> Locked \cup {"idle", "call", "done"}]
        /\ call \in [Procs -> Calls \cup {NoCall}] /\ got \in [Procs -> Drivers \cup {Nil}]
    BY <1>1
  <2>3. /\ job \in [Procs -> Jobs] /\ made \in [Containers -> Mounts \cup {Nil}]
        /\ mount \in [Containers -> Mounts \cup {Nil}] /\ booting \in SUBSET Containers
        /\ vols \in SUBSET (Drivers \X Names) /\ up \in SUBSET Drivers
    BY <1>1 DEF Jobs
  <2> QED
    BY <1>1, <2>1, <2>2, <2>3, Zenon DEF VolTypeOK
<1>3. /\ \A p \in Procs : pc[p] = "idle" /\ job[p] = "none"
      /\ \A c \in Containers : c \in Procs /\ mount[c] = Nil /\ c \notin missed
      /\ \A n \in Names : names[n] = Nil /\ refs[n] = {}
  BY <1>1 DEF Procs
<1>4. BootOK
  BY <1>1, <1>3 DEF BootOK
<1>5. \A p \in Procs : CallOK(p)
  BY <1>3 DEF CallOK, Locked, Ops
<1>6. \A n \in Names : NamedOK(n)
  BY <1>3, Zenon DEF NamedOK
<1>7. ASSUME NEW c \in Containers PROVE JobOK(c) /\ MountOK(c) /\ PlainOK(c)
  <2>1. /\ pc[c] = "idle" /\ job[c] = "none" /\ mount[c] = Nil /\ \A n \in Names : c \notin refs[n]
        /\ job[c] \notin {"create", "create anonymous", "start", "restore", "start config"}
        /\ job[c] \notin {"volume create", "volume rm"}
        /\ job[c] \notin Getting /\ job[c] \notin Removing
    BY <1>3, <1>7, Zenon DEF Getting, Removing
  <2>2. JobOK(c)
    BY <2>1, Zenon DEF JobOK
  <2> QED
    BY <1>3, <2>1, <2>2, Zenon DEF MountOK, PlainOK, FindsOK
<1> QED
  BY <1>1, <1>2, <1>4, <1>5, <1>6, <1>7, Zenon DEF VolInv
-----------------------------------------------------------------------------
\* The assignments of a step of a request, between the calls of the store.
RequestShape(p) ==
  /\ UNCHANGED <<lock, names, refs, vols, up, load>>
  /\ pc[p] \in {"idle", "done"} /\ pc'[p] \in {"idle", "call"}
  /\ pc' = pc \/ \E w \in {"idle", "call"} : pc' = [pc EXCEPT ![p] = w]
  /\ call' = call \/ \E k \in Calls \cup {NoCall} : call' = [call EXCEPT ![p] = k]
  /\ pc'[p] = "call" => call'[p] \in Calls
  /\ got' = got \/ got' = [got EXCEPT ![p] = Nil]
  /\ job' = job \/ \E j \in Jobs : job' = [job EXCEPT ![p] = j]
  /\ mount' = mount \/ \E m \in Mounts \cup {Nil} : mount' = [mount EXCEPT ![p] = m]
  /\ made' = made \/ \E m \in Mounts \cup {Nil} : made' = [made EXCEPT ![p] = m]
  /\ booting' \in SUBSET Containers /\ \A c : c # p => (c \in booting' <=> c \in booting)
  /\ \A c : c # p => (c \in missed' <=> c \in missed)

\* What a step of a request leaves alone.
RequestFrame(p) ==
  /\ UNCHANGED <<lock, names, refs, vols, up, load>>
  /\ \A q \in Procs : q # p => /\ pc'[q] = pc[q] /\ call'[q] = call[q]
                               /\ got'[q] = got[q] /\ job'[q] = job[q]
  /\ \A c \in Containers : c # p => mount'[c] = mount[c] /\ made'[c] = made[c]
  /\ \A c : c # p => (c \in booting' <=> c \in booting) /\ (c \in missed' <=> c \in missed)

LEMMA RequestRows ==
  ASSUME VolInv, NEW p \in Procs, RequestShape(p)
  PROVE  VolTypeOK' /\ RequestFrame(p)
<1>1. VolTypeOK
  BY DEF VolInv
<1>2. /\ pc' \in [Procs -> Locked \cup {"idle", "call", "done"}]
      /\ \A q \in Procs : q # p => pc'[q] = pc[q]
  <2>1. pc \in [Procs -> Locked \cup {"idle", "call", "done"}]
    BY <1>1, Zenon DEF VolTypeOK
  <2>2. pc' = pc \/ \E w \in {"idle", "call"} : pc' = [pc EXCEPT ![p] = w]
    BY Zenon DEF RequestShape
  <2> QED
    BY <2>1, <2>2
<1>3. got' \in [Procs -> Drivers \cup {Nil}] /\ \A q \in Procs : q # p => got'[q] = got[q]
  <2>1. got \in [Procs -> Drivers \cup {Nil}]
    BY <1>1, Zenon DEF VolTypeOK
  <2>2. got' = got \/ got' = [got EXCEPT ![p] = Nil]
    BY Zenon DEF RequestShape
  <2> QED
    BY <2>1, <2>2
<1>4. call' \in [Procs -> Calls \cup {NoCall}] /\ \A q \in Procs : q # p => call'[q] = call[q]
  <2>1. call \in [Procs -> Calls \cup {NoCall}]
    BY <1>1, Zenon DEF VolTypeOK
  <2>2. call' = call \/ \E k \in Calls \cup {NoCall} : call' = [call EXCEPT ![p] = k]
    BY Zenon DEF RequestShape
  <2> QED
    BY <2>1, <2>2
<1>5. job' \in [Procs -> Jobs] /\ \A q \in Procs : q # p => job'[q] = job[q]
  <2>1. job \in [Procs -> Jobs]
    BY <1>1, Zenon DEF VolTypeOK
  <2>2. job' = job \/ \E j \in Jobs : job' = [job EXCEPT ![p] = j]
    BY Zenon DEF RequestShape
  <2> QED
    BY <2>1, <2>2
<1>6. mount' \in [Containers -> Mounts \cup {Nil}] /\ \A c \in Containers : c # p => mount'[c] = mount[c]
  <2>1. mount \in [Containers -> Mounts \cup {Nil}]
    BY <1>1, Zenon DEF VolTypeOK
  <2>2. mount' = mount \/ \E m \in Mounts \cup {Nil} : mount' = [mount EXCEPT ![p] = m]
    BY Zenon DEF RequestShape
  <2> QED
    BY <2>1, <2>2
<1>7. made' \in [Containers -> Mounts \cup {Nil}] /\ \A c \in Containers : c # p => made'[c] = made[c]
  <2>1. made \in [Containers -> Mounts \cup {Nil}]
    BY <1>1, Zenon DEF VolTypeOK
  <2>2. made' = made \/ \E m \in Mounts \cup {Nil} : made' = [made EXCEPT ![p] = m]
    BY Zenon DEF RequestShape
  <2> QED
    BY <2>1, <2>2
<1>8. VolTypeOK'
  BY <1>1, <1>2, <1>3, <1>4, <1>5, <1>6, <1>7, Zenon DEF VolTypeOK, RequestShape
<1> QED
  BY <1>2, <1>3, <1>4, <1>5, <1>6, <1>7, <1>8, Zenon DEF RequestShape, RequestFrame

\* A step of one request keeps what is said of the others.
LEMMA RequestInv ==
  ASSUME VolInv, NEW p \in Procs, RequestShape(p), BootOK',
         p \in Containers => JobOK(p)' /\ MountOK(p)' /\ (Plain => PlainOK(p)')
  PROVE  VolInv' /\ vols' = vols
<1>1. VolTypeOK' /\ RequestFrame(p)
  BY RequestRows, Zenon
<1>2. ASSUME NEW q \in Procs PROVE CallOK(q)'
  <2>1. CASE q = p
    <3>1. pc'[p] \in {"idle", "call"} /\ (pc'[p] = "call" => call'[p] \in Calls)
      BY Zenon DEF RequestShape
    <3> QED
      BY <2>1, <3>1 DEF CallOK, Locked, Ops
  <2>2. CASE q # p
    <3>1. CallOK(q)
      BY Zenon DEF VolInv
    <3> QED
      BY <1>1, <2>2, <3>1, Zenon DEF CallOK, RequestFrame
  <2> QED
    BY <2>1, <2>2
<1>3. ASSUME NEW n \in Names PROVE NamedOK(n)'
  <2>1. NamedOK(n) /\ pc[p] # "purge"
    BY DEF VolInv, RequestShape
  <2>2. \A q \in Procs : pc[q] = "purge" => pc'[q] = "purge" /\ call'[q] = call[q]
    BY <1>1, <2>1, Zenon DEF RequestFrame
  <2> QED
    BY <1>1, <2>1, <2>2, Zenon DEF NamedOK, RequestFrame
<1>4. ASSUME NEW c \in Containers PROVE JobOK(c)' /\ MountOK(c)' /\ (Plain => PlainOK(c)')
  <2>1. CASE c = p
    BY <1>4, <2>1, Zenon
  <2>2. CASE c # p
    <3>1. JobOK(c) /\ MountOK(c) /\ (Plain => PlainOK(c))
      BY <1>4, Zenon DEF VolInv
    <3>2. /\ pc'[c] = pc[c] /\ call'[c] = call[c] /\ got'[c] = got[c] /\ job'[c] = job[c]
          /\ mount'[c] = mount[c] /\ made'[c] = made[c] /\ (c \in booting' <=> c \in booting)
          /\ (c \in missed' <=> c \in missed) /\ UNCHANGED <<refs, vols>>
      BY <1>1, <1>4, <2>2, Zenon DEF RequestFrame, Procs
    <3>3. JobOK(c)'
      BY <3>1, <3>2, Zenon DEF JobOK
    <3>4. MountOK(c)'
      BY <3>1, <3>2, Zenon DEF MountOK
    <3>5. ASSUME Plain PROVE PlainOK(c)'
      <4>1. FindsOK(c)'
        BY <3>1, <3>2, <3>5, Zenon DEF PlainOK, FindsOK
      <4> QED
        BY <3>1, <3>2, <3>5, <4>1, Zenon DEF PlainOK
    <3> QED
      BY <3>3, <3>4, <3>5
  <2> QED
    BY <2>1, <2>2
<1>5. (Plain <=> Plain') /\ (Plain => up' = Drivers)
  <2>1. up' = up /\ load' = load
    BY <1>1, Zenon DEF RequestFrame
  <2>2. Plain => up = Drivers
    BY Zenon DEF VolInv
  <2>3. Plain <=> Plain'
    BY <2>1 DEF Plain
  <2> QED
    BY <2>1, <2>2, <2>3, Zenon
<1>6. vols' = vols
  BY <1>1, Zenon DEF RequestFrame
<1> QED
  BY <1>1, <1>2, <1>3, <1>4, <1>5, <1>6, Zenon DEF VolInv

\* A request that is served after the start of the daemon.
LEMMA ServedInv ==
  ASSUME VolInv, NEW p \in Procs, RequestShape(p), booting = {}, booting' = {},
         p \in Containers => /\ job'[p] # "restore"
                             /\ JobOK(p)' /\ MountOK(p)' /\ (Plain => PlainOK(p)')
  PROVE  VolInv' /\ vols' = vols
<1>1. ASSUME NEW c \in Containers, job'[c] = "restore" PROVE FALSE
  <2>1. c # p /\ c \in Procs
    BY <1>1, Zenon DEF Procs
  <2>2. job[c] = "restore"
    BY <1>1, <2>1, RequestRows, Zenon DEF RequestFrame
  <2> QED
    BY <2>2 DEF VolInv, BootOK
<1>2. BootOK'
  BY <1>1 DEF BootOK
<1> QED
  BY <1>2, RequestInv, Zenon

\* While the daemon starts, only its own lookups end.
LEMMA NotBooting ==
  ASSUME VolInv, NEW p \in Procs, pc[p] = "done", p \in Containers => job[p] # "restore"
  PROVE  booting = {}
BY DEF VolInv, BootOK, VolTypeOK

\* The start of a call of the store, and the end of a request.
Starts(p, j, k) ==
  /\ pc' = [pc EXCEPT ![p] = "call"] /\ call' = [call EXCEPT ![p] = k]
  /\ got' = [got EXCEPT ![p] = Nil] /\ job' = [job EXCEPT ![p] = j]
Ends(p) ==
  /\ pc' = [pc EXCEPT ![p] = "idle"] /\ call' = [call EXCEPT ![p] = NoCall]
  /\ got' = [got EXCEPT ![p] = Nil] /\ job' = [job EXCEPT ![p] = "none"]

LEMMA StartsRow ==
  ASSUME VolInv, NEW p \in Procs, NEW j \in Jobs, NEW k \in Calls, Starts(p, j, k)
  PROVE  pc'[p] = "call" /\ call'[p] = k /\ got'[p] = Nil /\ job'[p] = j
<1>1. /\ pc \in [Procs -> Locked \cup {"idle", "call", "done"}]
      /\ call \in [Procs -> Calls \cup {NoCall}]
      /\ got \in [Procs -> Drivers \cup {Nil}] /\ job \in [Procs -> Jobs]
  BY Zenon DEF VolInv, VolTypeOK
<1> QED
  BY <1>1 DEF Starts

LEMMA EndsRow ==
  ASSUME VolInv, NEW p \in Procs, Ends(p)
  PROVE  pc'[p] = "idle" /\ call'[p] = NoCall /\ got'[p] = Nil /\ job'[p] = "none"
<1>1. /\ pc \in [Procs -> Locked \cup {"idle", "call", "done"}]
      /\ call \in [Procs -> Calls \cup {NoCall}]
      /\ got \in [Procs -> Drivers \cup {Nil}] /\ job \in [Procs -> Jobs]
  BY Zenon DEF VolInv, VolTypeOK
<1> QED
  BY <1>1 DEF Ends

\* The other assignments of a request, when the daemon is up.
Serves(p) ==
  /\ UNCHANGED <<lock, names, refs, vols, up, load>>
  /\ pc[p] \in {"idle", "done"} /\ booting = {} /\ booting' = {}
  /\ \A c : c # p => (c \in missed' <=> c \in missed)
  /\ mount' = mount \/ \E m \in Mounts \cup {Nil} : mount' = [mount EXCEPT ![p] = m]
  /\ made' = made \/ \E m \in Mounts \cup {Nil} : made' = [made EXCEPT ![p] = m]

LEMMA StartsShape ==
  ASSUME VolInv, NEW p \in Procs, NEW j \in Jobs, NEW k \in Calls, Starts(p, j, k), Serves(p)
  PROVE  RequestShape(p)
<1>1. pc'[p] = "call" /\ call'[p] = k
  BY StartsRow, Zenon
<1>2. {} \in SUBSET Containers /\ "call" \in {"idle", "call"} /\ k \in Calls \cup {NoCall}
  OBVIOUS
<1> QED
  BY <1>1, <1>2, Zenon DEF Starts, Serves, RequestShape

LEMMA EndsShape ==
  ASSUME VolInv, NEW p \in Procs, Ends(p), Serves(p)
  PROVE  RequestShape(p)
<1>1. pc'[p] = "idle" /\ pc'[p] # "call"
  BY EndsRow
<1>2. {} \in SUBSET Containers /\ "idle" \in {"idle", "call"} /\ NoCall \in Calls \cup {NoCall}
      /\ "none" \in Jobs
  BY DEF Jobs
<1> QED
  BY <1>1, <1>2, Zenon DEF Ends, Serves, RequestShape

\* A request of a client: it has no references.
LEMMA ClientInv ==
  ASSUME VolInv, NEW r \in Clients, ClientStep(r)
  PROVE  VolInv' /\ vols' = vols
<1>1. r \in Procs /\ r \notin Containers
  BY VolumeAssumption, Zenon DEF Procs
<1>2. (pc[r] = "idle" /\ booting = {}) \/ pc[r] = "done"
  BY Zenon DEF ClientStep, VolumeCreate, VolumeRm, VolumeRmRemove, Answer, Ready, Back
<1>3. booting = {}
  BY <1>1, <1>2, NotBooting, Zenon
<1>4. /\ UNCHANGED <<lock, names, refs, vols, up, load>> /\ UNCHANGED <<mount, made, booting, missed>>
  BY Zenon DEF ClientStep, VolumeCreate, VolumeRm, VolumeRmRemove, Answer, Same, cvars
<1>5. Serves(r)
  BY <1>2, <1>3, <1>4, Zenon DEF Serves
<1>6. ASSUME NEW j \in Jobs, NEW k \in Calls, Starts(r, j, k) PROVE VolInv' /\ vols' = vols
  BY <1>1, <1>3, <1>4, <1>5, <1>6, StartsShape, ServedInv, Zenon
<1>7. ASSUME NEW n \in Names, NEW d \in Drivers \cup {NoDriver}, VolumeCreate(r, n, d)
      PROVE  VolInv' /\ vols' = vols
  <2>1. Starts(r, "volume create", [op |-> "create", name |-> n, driver |-> d])
    BY <1>7, Zenon DEF VolumeCreate, Begin, Call, Goto, Gives, Starts
  <2>2. "volume create" \in Jobs /\ [op |-> "create", name |-> n, driver |-> d] \in Calls
    BY DEF Jobs, Calls, Ops, NoDriver
  <2> QED
    BY <1>6, <2>1, <2>2, Zenon
<1>8. ASSUME NEW n \in Names, VolumeRm(r, n) PROVE VolInv' /\ vols' = vols
  <2>1. Starts(r, "volume rm", [op |-> "get", name |-> n, driver |-> Nil])
    BY <1>8, Zenon DEF VolumeRm, Begin, Call, Goto, Gives, Starts
  <2>2. "volume rm" \in Jobs /\ [op |-> "get", name |-> n, driver |-> Nil] \in Calls
    BY DEF Jobs, Calls, Ops
  <2> QED
    BY <1>6, <2>1, <2>2, Zenon
<1>9. ASSUME VolumeRmRemove(r) PROVE VolInv' /\ vols' = vols
  <2>1. job \in [Procs -> Jobs] /\ got \in [Procs -> Drivers \cup {Nil}] /\ call[r].name \in Names
    BY <1>1, <1>9, InCall, Zenon DEF VolInv, VolTypeOK, VolumeRmRemove, Back
  <2>2. job = [job EXCEPT ![r] = job[r]] /\ job[r] \in Jobs
    BY <1>1, <2>1
  <2>3. Starts(r, job[r], [op |-> "remove", name |-> call[r].name, driver |-> got[r]])
    BY <1>9, <2>2, Zenon DEF VolumeRmRemove, Call, Goto, Gives, Starts, cvars
  <2>4. [op |-> "remove", name |-> call[r].name, driver |-> got[r]] \in Calls
    BY <1>1, <2>1 DEF Calls, Ops
  <2> QED
    BY <1>6, <2>2, <2>3, <2>4, Zenon
<1>10. ASSUME Answer(r) PROVE VolInv' /\ vols' = vols
  <2>1. Ends(r)
    BY <1>10, Zenon DEF Answer, Quit, Begin, Goto, Gives, Ends
  <2> QED
    BY <1>1, <1>3, <1>4, <1>5, <2>1, EndsShape, ServedInv, Zenon
<1> QED
  BY <1>7, <1>8, <1>9, <1>10, Zenon DEF ClientStep

\* A request that creates a container asks for the volume of its mount point.
LEMMA CreateStarts ==
  ASSUME VolInv, NEW c \in Containers, Ready(c), mount[c] = Nil,
         NEW j \in {"create", "create anonymous"}, NEW k \in Calls, k.op \in {"create", "getref"},
         NEW m \in Mounts, m.name = k.name, Starts(c, j, k), made' = [made EXCEPT ![c] = m],
         UNCHANGED <<lock, names, refs, vols, up, load, mount, booting, missed>>
  PROVE  VolInv' /\ vols' = vols
<1>1. c \in Procs /\ j \in Jobs /\ pc[c] = "idle" /\ booting = {} /\ m # Nil
  <2>1. m # Nil
    BY MountAssumption, Zenon
  <2> QED
    BY <2>1, Zenon DEF Procs, Jobs, Getting, Ready
<1>2. Serves(c)
  BY <1>1, Zenon DEF Serves
<1>3. RequestShape(c)
  BY <1>1, <1>2, StartsShape, Zenon
<1>4. pc'[c] = "call" /\ call'[c] = k /\ got'[c] = Nil /\ job'[c] = j
  BY <1>1, StartsRow, Zenon
<1>5. made'[c] = m
  BY Zenon DEF VolInv, VolTypeOK
<1>6. j \notin {"none", "volume create", "volume rm", "start", "restore", "start config"} /\ j \notin Removing
  BY Zenon DEF Removing
<1>7. JobOK(c)'
  BY <1>1, <1>4, <1>5, <1>6, Zenon DEF JobOK
<1>8. MountOK(c)'
  BY Zenon DEF MountOK
<1>9. ASSUME Plain PROVE PlainOK(c)'
  <2>1. \A n \in Names : c \notin refs[n]
    <3>1. PlainOK(c)
      BY <1>9, Zenon DEF VolInv
    <3> QED
      BY <1>1, <3>1, Zenon DEF PlainOK
  <2>2. pc'[c] \notin {"set", "done"} /\ job'[c] \notin {"start", "start config"} /\ c \notin missed'
    <3>1. PlainOK(c)
      BY <1>9, Zenon DEF VolInv
    <3> QED
      BY <1>4, <1>6, <3>1, Zenon DEF PlainOK
  <2> QED
    BY <2>1, <2>2, Zenon DEF PlainOK, FindsOK
<1> QED
  BY <1>1, <1>3, <1>4, <1>6, <1>7, <1>8, <1>9, ServedInv, Zenon

LEMMA BindInv ==
  ASSUME VolInv, NEW c \in Containers, NEW n \in Names, NEW d \in Drivers \cup {NoDriver},
         Bind(c, n, d) \/ Anonymous(c, n, d)
  PROVE  VolInv' /\ vols' = vols
<1> DEFINE k == [op |-> "create", name |-> n, driver |-> d]
<1>1. k \in Calls /\ k.op \in {"create", "getref"} /\ k.name = n
  BY DEF Calls, Ops, NoDriver
<1>2. \A a, b \in BOOLEAN : NewMount(n, Local, a, b) \in Mounts /\ NewMount(n, Local, a, b).name = n
  BY VolumeAssumption, Zenon DEF NewMount, Mounts
<1>3. /\ Ready(c) /\ mount[c] = Nil
      /\ UNCHANGED <<lock, names, refs, vols, up, load, mount, booting, missed>>
  BY Zenon DEF Bind, Anonymous, Same
<1>4. \E j \in {"create", "create anonymous"}, a \in BOOLEAN, b \in BOOLEAN :
        Starts(c, j, k) /\ made' = [made EXCEPT ![c] = NewMount(n, Local, a, b)]
  <2>1. CASE Bind(c, n, d)
    <3>1. Starts(c, "create", k) /\ made' = [made EXCEPT ![c] = NewMount(n, Local, TRUE, TRUE)]
      BY <2>1, Zenon DEF Bind, Starts, Begin, Call, Goto, Gives
    <3> QED
      BY <3>1, Zenon
  <2>2. CASE Anonymous(c, n, d)
    <3>1. Starts(c, "create anonymous", k) /\ made' = [made EXCEPT ![c] = NewMount(n, Local, FALSE, FALSE)]
      BY <2>2, Zenon DEF Anonymous, Starts, Begin, Call, Goto, Gives
    <3> QED
      BY <3>1, Zenon
  <2> QED
    BY <2>1, <2>2, Zenon
<1> HIDE DEF k
<1> QED
  BY <1>1, <1>2, <1>3, <1>4, CreateStarts, Zenon

LEMMA VolumesFromInv ==
  ASSUME VolInv, NEW c \in Containers, NEW o \in Containers, VolumesFrom(c, o)
  PROVE  VolInv' /\ vols' = vols
<1> DEFINE k == [op |-> "getref", name |-> mount[o].name, driver |-> mount[o].driver]
           m == [mount[o] EXCEPT !.volume = Nil]
<1>1. mount[o] \in Mounts
  BY DEF VolInv, VolTypeOK, VolumesFrom
<1>2. /\ k \in Calls /\ k.op \in {"create", "getref"}
      /\ m \in Mounts /\ m.name = k.name
  BY <1>1 DEF Calls, Ops, Mounts
<1>3. /\ Ready(c) /\ mount[c] = Nil
      /\ UNCHANGED <<lock, names, refs, vols, up, load, mount, booting, missed>>
      /\ Starts(c, "create", k) /\ made' = [made EXCEPT ![c] = m]
  BY Zenon DEF VolumesFrom, Same, Starts, Begin, Call, Goto, Gives
<1> HIDE DEF k, m
<1> QED
  BY <1>2, <1>3, CreateStarts, Zenon

\* A mount point is copied: its container has no reference, and the load is not plain.
LEMMA VolumesFromSourceInv ==
  ASSUME VolInv, NEW c \in Containers, NEW o \in Containers, VolumesFromSource(c, o)
  PROVE  VolInv' /\ vols' = vols
<1> DEFINE m == [mount[o] EXCEPT !.volume = Nil]
<1>1. mount[o] \in Mounts /\ mount \in [Containers -> Mounts \cup {Nil}]
  BY Zenon DEF VolInv, VolTypeOK, VolumesFromSource
<1>2. m \in Mounts \cup {Nil} /\ m.volume = Nil
  BY <1>1 DEF Mounts
<1>3. /\ pc[c] = "idle" /\ booting = {} /\ mount' = [mount EXCEPT ![c] = m]
      /\ UNCHANGED <<lock, names, refs, vols, up, load, pc, call, got, job, made, booting, missed>>
  BY Zenon DEF VolumesFromSource, Same, Ready
<1>4. mount'[c].volume = Nil
  BY <1>1, <1>2, <1>3
<1> HIDE DEF m
<1>5. ~Plain /\ c \in Procs
  BY Zenon DEF VolumesFromSource, Plain, Procs
<1>6. RequestShape(c)
  <2>1. pc'[c] \in {"idle", "call"} /\ pc'[c] # "call" /\ {} \in SUBSET Containers
    BY <1>3
  <2> QED
    BY <1>2, <1>3, <2>1, Zenon DEF RequestShape
<1>7. JobOK(c) /\ job[c] = "none"
  BY <1>3, Zenon DEF VolInv, JobOK
<1>8. JobOK(c)' /\ job'[c] # "restore"
  BY <1>3, <1>7 DEF JobOK, Getting, Removing
<1>9. MountOK(c)'
  BY <1>4, Zenon DEF MountOK
<1> QED
  BY <1>3, <1>5, <1>6, <1>8, <1>9, ServedInv, Zenon

\* The end of the request that creates a container.
LEMMA CreateEnds ==
  ASSUME VolInv, NEW c \in Containers, Creating(c), Ends(c), NEW m \in Mounts \cup {Nil},
         UNCHANGED <<lock, names, refs, vols, up, load, booting, missed>>,
         made' = [made EXCEPT ![c] = Nil],
         mount' = [mount EXCEPT ![c] = m],
         m # Nil => m = Given(c) /\ got[c] # Nil,
         m = Nil => got[c] = Nil \/ ~Plain
  PROVE  VolInv' /\ vols' = vols
<1>1. c \in Procs /\ pc[c] = "done" /\ job[c] \in Getting /\ job[c] # "restore"
      /\ job[c] \in {"create", "create anonymous"} /\ job[c] \notin Removing
  BY Zenon DEF Creating, Procs, Getting, Removing
<1>2. booting = {}
  BY <1>1, NotBooting, Zenon
<1>3. Serves(c)
  BY <1>1, <1>2, Zenon DEF Serves
<1>4. RequestShape(c)
  BY <1>1, <1>3, EndsShape, Zenon
<1>5. pc'[c] = "idle" /\ got'[c] = Nil /\ job'[c] = "none"
  BY <1>1, EndsRow, Zenon
<1>6. mount'[c] = m
  BY DEF VolInv, VolTypeOK
<1>7. /\ JobOK(c) /\ (Plain => PlainOK(c)) /\ made[c] \in Mounts /\ made[c].name = call[c].name
      /\ got[c] \in Drivers \cup {Nil} /\ call[c].name \in Names
  <2>1. JobOK(c) /\ (Plain => PlainOK(c)) /\ made[c] \in Mounts \cup {Nil} /\ got[c] \in Drivers \cup {Nil}
    BY <1>1, Zenon DEF VolInv, VolTypeOK
  <2>2. made[c] # Nil /\ made[c].name = call[c].name
    BY <1>1, <2>1, Zenon DEF JobOK
  <2>3. call[c].name \in Names
    BY <1>1, InCall, Zenon
  <2> QED
    BY <2>1, <2>2, <2>3
<1>8. JobOK(c)' /\ job'[c] # "restore"
  BY <1>5 DEF JobOK, Getting, Removing
<1>9. m # Nil => m.name = call[c].name /\ m.volume = got[c] /\ m.driver = got[c]
  BY <1>7, Zenon DEF Given, Mounts
<1>10. got[c] # Nil /\ c \in refs[call[c].name] => <<got[c], call[c].name>> \in vols
  BY <1>1, <1>7, Zenon DEF JobOK
<1>11. MountOK(c)'
  <2>1. m # Nil /\ m.volume # Nil /\ c \in refs[m.name] => <<m.volume, m.name>> \in vols
    BY <1>9, <1>10
  <2>2. refs' = refs /\ vols' = vols
    OBVIOUS
  <2> QED
    BY <1>6, <2>1, <2>2, Zenon DEF MountOK
<1>12. ASSUME Plain PROVE PlainOK(c)'
  <2>1. /\ got[c] # Nil => c \in refs[call[c].name]
        /\ \A n \in Names : c \in refs[n] => got[c] # Nil /\ call[c].name = n
    BY <1>1, <1>7, <1>12, Zenon DEF PlainOK
  <2>2. \A n \in Names : c \in refs[n] => m # Nil /\ m.name = n /\ m.volume # Nil
    BY <1>9, <1>12, <2>1, Zenon
  <2>3. m # Nil => /\ <<m.driver, m.name>> \in vols
                   /\ m.volume # Nil /\ c \in refs[m.name]
    BY <1>9, <1>10, <2>1, Zenon
  <2>4. /\ job'[c] \notin {"start", "start config", "restore"} /\ job'[c] \notin Getting
        /\ refs' = refs /\ vols' = vols
    BY <1>5 DEF Getting
  <2>5. c \notin missed'
    BY <1>1, <1>7, <1>12, Zenon DEF PlainOK, JobOK
  <2> QED
    BY <1>5, <1>6, <2>2, <2>3, <2>4, <2>5, Zenon DEF PlainOK, FindsOK
<1> QED
  BY <1>1, <1>2, <1>4, <1>8, <1>11, <1>12, ServedInv, Zenon

\* The mount point that a request has created.
LEMMA GivenMount ==
  ASSUME VolInv, NEW c \in Containers, Creating(c), got[c] # Nil
  PROVE  Given(c) \in Mounts /\ Given(c) # Nil /\ made[c].name \in Names /\ got[c] \in Drivers
<1>1. c \in Procs /\ made[c] # Nil
  BY Zenon DEF VolInv, JobOK, Creating, Procs
<1>2. made[c] \in Mounts /\ got[c] \in Drivers
  BY <1>1 DEF VolInv, VolTypeOK
<1>3. Given(c) \in Mounts /\ made[c].name \in Names
  BY <1>2, Zenon DEF Given, Mounts
<1> QED
  BY <1>2, <1>3, MountAssumption, Zenon

LEMMA CreatedInv ==
  ASSUME VolInv, NEW c \in Containers, Created(c) \/ CreateRefused(c) \/ CreateFailsEarly(c)
  PROVE  VolInv' /\ vols' = vols
<1>1. /\ Creating(c) /\ Ends(c) /\ made' = [made EXCEPT ![c] = Nil]
      /\ UNCHANGED <<lock, names, refs, vols, up, load, booting, missed>>
  BY Zenon DEF Created, CreateRefused, CreateFailsEarly, Same, Quit, Ends, Goto, Begin, Gives
<1>2. CASE Created(c)
  <2>1. mount' = [mount EXCEPT ![c] = Given(c)] /\ got[c] # Nil
    BY <1>2, Zenon DEF Created
  <2>2. Given(c) \in Mounts \cup {Nil} /\ Given(c) # Nil
    BY <1>1, <2>1, GivenMount, Zenon
  <2> QED
    BY <1>1, <2>1, <2>2, CreateEnds, Zenon
<1>3. CASE CreateRefused(c) \/ CreateFailsEarly(c)
  <2>1. mount[c] = Nil /\ mount \in [Containers -> Mounts \cup {Nil}]
    BY <1>1, Zenon DEF VolInv, VolTypeOK, JobOK, Creating
  <2>2. mount' = [mount EXCEPT ![c] = Nil]
    BY <1>3, <2>1 DEF CreateRefused, CreateFailsEarly
  <2>3. got[c] = Nil \/ ~Plain
    BY <1>3 DEF CreateRefused, CreateFailsEarly, Plain
  <2> QED
    BY <1>1, <2>2, <2>3, CreateEnds, Zenon
<1> QED
  BY <1>2, <1>3

\* A request that goes on with a call, of Dereference or Remove.
LEMMA RemovalStarts ==
  ASSUME VolInv, NEW c \in Containers, NEW j \in Removing, NEW k \in Calls, Starts(c, j, k), Serves(c),
         mount'[c] = Nil, made'[c] # Nil, k.op \in {"deref", "remove"}, Plain => c \notin missed',
         Plain => \A n \in Names : c \in refs[n] => k.op = "deref" /\ k.name = n
  PROVE  VolInv' /\ vols' = vols
<1>1. c \in Procs /\ j \in Jobs /\ j \notin Getting /\ j \notin {"none", "volume create", "volume rm", "start config"}
      /\ j \notin {"create", "create anonymous", "start", "restore"}
  BY Zenon DEF Procs, Jobs, Removing, Getting
<1>2. RequestShape(c)
  BY <1>1, StartsShape, Zenon
<1>3. pc'[c] = "call" /\ call'[c] = k /\ got'[c] = Nil /\ job'[c] = j
  BY <1>1, StartsRow, Zenon
<1>4. JobOK(c)'
  <2>1. pc'[c] # "idle" /\ pc'[c] # "done"
    BY <1>3
  <2> QED
    BY <1>1, <1>3, <2>1, Zenon DEF JobOK
<1>5. MountOK(c)'
  BY Zenon DEF MountOK
<1>6. ASSUME Plain PROVE PlainOK(c)'
  <2>1. refs' = refs /\ pc'[c] \in {"call", "deref"} /\ pc'[c] \notin {"set", "done"}
    BY <1>3 DEF Serves
  <2> QED
    BY <1>1, <1>3, <1>6, <2>1, Zenon DEF PlainOK, FindsOK
<1>7. booting = {} /\ booting' = {} /\ job'[c] # "restore"
  BY <1>1, <1>3, Zenon DEF Serves
<1> QED
  BY <1>1, <1>2, <1>4, <1>5, <1>6, <1>7, ServedInv, Zenon

LEMMA CreateFailsLateInv ==
  ASSUME VolInv, NEW c \in Containers, CreateFailsLate(c)
  PROVE  VolInv' /\ vols' = vols
<1> DEFINE k == [op |-> "deref", name |-> made[c].name, driver |-> got[c]]
<1>1. /\ Creating(c) /\ got[c] # Nil /\ made' = [made EXCEPT ![c] = Given(c)]
      /\ UNCHANGED <<lock, names, refs, vols, up, load, mount, booting, missed>> /\ Starts(c, "rm -v", k)
  BY Zenon DEF CreateFailsLate, Same, Starts, Begin, Call, Goto, Gives
<1>2. Given(c) \in Mounts /\ Given(c) # Nil /\ made[c].name \in Names /\ got[c] \in Drivers
  BY <1>1, GivenMount, Zenon
<1>3. k \in Calls /\ k.op = "deref" /\ k.name = made[c].name /\ "rm -v" \in Removing
  BY <1>2 DEF Calls, Ops, Removing
<1> HIDE DEF k
<1>4. c \in Procs /\ pc[c] = "done" /\ job[c] # "restore" /\ job[c] \notin Removing
      /\ job[c] \in {"create", "create anonymous"}
  BY <1>1, Zenon DEF Creating, Procs, Removing
<1>5. booting = {}
  BY <1>4, NotBooting, Zenon
<1>6. Serves(c)
  BY <1>1, <1>2, <1>4, <1>5, Zenon DEF Serves
<1>7. JobOK(c) /\ (Plain => PlainOK(c)) /\ made \in [Containers -> Mounts \cup {Nil}]
  BY Zenon DEF VolInv, VolTypeOK
<1>8. mount'[c] = Nil /\ made[c].name = call[c].name
  BY <1>1, <1>4, <1>7, Zenon DEF JobOK
<1>9. made'[c] # Nil
  BY <1>1, <1>2, <1>7, Zenon
<1>10. Plain => c \notin missed' /\ \A n \in Names : c \in refs[n] => call[c].name = n
  BY <1>1, <1>4, <1>7, <1>8, Zenon DEF PlainOK
<1> QED
  BY <1>1, <1>3, <1>6, <1>8, <1>9, <1>10, RemovalStarts, Zenon

LEMMA ContainerRmInv ==
  ASSUME VolInv, NEW c \in Containers, NEW v \in {"rm", "rm -v"}, ContainerRm(c, v)
  PROVE  VolInv' /\ vols' = vols
<1> DEFINE k == [op |-> "deref", name |-> mount[c].name, driver |-> mount[c].volume]
<1>1. /\ pc[c] = "idle" /\ booting = {} /\ mount[c] # Nil /\ mount' = [mount EXCEPT ![c] = Nil]
      /\ UNCHANGED <<lock, names, refs, vols, up, load, booting>> /\ c \in Procs
      /\ missed' = missed \ {c}
  BY Zenon DEF ContainerRm, RmWith, Ready, Same, Procs
<1>2. mount \in [Containers -> Mounts \cup {Nil}] /\ made \in [Containers -> Mounts \cup {Nil}]
  BY Zenon DEF VolInv, VolTypeOK
<1>3. mount'[c] = Nil /\ mount[c] \in Mounts
  BY <1>1, <1>2, Zenon
<1>4. JobOK(c) /\ (Plain => PlainOK(c)) /\ job[c] = "none"
  BY <1>1, Zenon DEF VolInv, JobOK
<1>5. CASE mount[c].volume = Nil
  <2>1. UNCHANGED <<pc, call, got, job, made>>
    BY <1>5, Zenon DEF ContainerRm, RmWith
  <2>2. ASSUME Plain PROVE PlainOK(c)'
    <3>1. job'[c] \notin {"start", "restore", "start config"} /\ job'[c] \notin Getting
      BY <1>4, <2>1, Zenon DEF Getting
    <3>2. \A n \in Names : c \notin refs'[n]
      BY <1>1, <1>4, <1>5, <2>2, Zenon DEF PlainOK, Getting, Removing
    <3> QED
      BY <1>1, <1>3, <3>1, <3>2, Zenon DEF PlainOK, FindsOK
  <2>3. RequestShape(c)
    <3>1. pc'[c] \in {"idle", "call"} /\ pc'[c] # "call" /\ {} \in SUBSET Containers
      BY <1>1, <2>1, Zenon
    <3>2. \A d : d # c => (d \in missed' <=> d \in missed)
      BY <1>1, Zenon
    <3> QED
      BY <1>1, <2>1, <3>1, <3>2, Zenon DEF RequestShape
  <2>4. JobOK(c)' /\ job'[c] # "restore"
    BY <1>1, <1>4, <2>1, Zenon DEF JobOK, Getting, Removing
  <2> QED
    BY <1>1, <1>3, <2>2, <2>3, <2>4, ServedInv, Zenon DEF MountOK
<1>6. CASE mount[c].volume # Nil
  <2>1. made' = [made EXCEPT ![c] = mount[c]] /\ Starts(c, v, k)
    BY <1>6, Zenon DEF ContainerRm, RmWith, Starts, Begin, Call, Goto, Gives
  <2>2. k \in Calls /\ k.op = "deref" /\ k.name = mount[c].name /\ v \in Removing
    BY <1>3, Zenon DEF Calls, Ops, Mounts, Removing
  <2> HIDE DEF k
  <2>3. made'[c] # Nil
    BY <1>1, <1>2, <2>1, Zenon
  <2>4. Serves(c) /\ c \notin missed'
    <3>1. c \notin missed' /\ \A d : d # c => (d \in missed' <=> d \in missed)
      BY <1>1, Zenon
    <3> QED
      BY <1>1, <1>3, <2>1, <3>1, Zenon DEF Serves
  <2>5. Plain => \A n \in Names : c \in refs[n] => mount[c].name = n
    BY <1>1, <1>4, Zenon DEF PlainOK
  <2> QED
    BY <1>3, <2>1, <2>2, <2>3, <2>4, <2>5, RemovalStarts, Zenon
<1> QED
  BY <1>5, <1>6, Zenon

LEMMA RmVolumeInv ==
  ASSUME VolInv, NEW c \in Containers, RmVolume(c)
  PROVE  VolInv' /\ vols' = vols
<1> DEFINE k == [op |-> "remove", name |-> made[c].name, driver |-> made[c].volume]
<1>1. /\ pc[c] = "done" /\ job[c] = "rm -v" /\ c \in Procs
      /\ UNCHANGED <<lock, names, refs, vols, up, load, job, mount, made, booting, missed>>
  BY Zenon DEF RmVolume, Back, Same, cvars, Procs
<1>2. /\ job \in [Procs -> Jobs] /\ JobOK(c) /\ (Plain => PlainOK(c)) /\ made[c] \in Mounts \cup {Nil}
  BY Zenon DEF VolInv, VolTypeOK
<1>3. job = [job EXCEPT ![c] = "rm -v"] /\ "rm -v" \in Removing
  BY <1>1, <1>2, Zenon DEF Removing
<1>4. Starts(c, "rm -v", k)
  BY <1>1, <1>3, Zenon DEF RmVolume, Call, Goto, Gives, Starts
<1>5. mount[c] = Nil /\ made[c] # Nil
  BY <1>1, <1>2, <1>3, Zenon DEF JobOK
<1>6. k \in Calls /\ k.op = "remove"
  BY <1>2, <1>5 DEF Calls, Ops, Mounts
<1> HIDE DEF k
<1>7. booting = {}
  BY <1>1, NotBooting, Zenon
<1>8. Serves(c)
  BY <1>1, <1>7, Zenon DEF Serves
<1>9. Plain => c \notin missed' /\ \A n \in Names : c \notin refs[n]
  BY <1>1, <1>2, <1>5, Zenon DEF PlainOK, Getting
<1> QED
  BY <1>1, <1>3, <1>4, <1>5, <1>6, <1>8, <1>9, RemovalStarts, ZenonT(30)

\* The end of a request that has dropped what it referred to, or whose container keeps
\* its mount point as it was.
LEMMA RemovedInv ==
  ASSUME VolInv, NEW c \in Containers, Removed(c) \/ StartedWithConfig(c)
  PROVE  VolInv' /\ vols' = vols
<1>1. /\ pc[c] = "done" /\ job[c] \in Removing \cup {"start config"} /\ c \in Procs /\ Ends(c)
      /\ UNCHANGED <<lock, names, refs, vols, up, load, mount, booting, missed>>
      /\ made' = made \/ made' = [made EXCEPT ![c] = Nil]
  <2>1. "start config" \in Removing \cup {"start config"} /\ {"rm", "rm -v"} \subseteq Removing \cup {"start config"}
    BY DEF Removing
  <2> QED
    BY <2>1, Zenon DEF Removed, StartedWithConfig, Back, Same, Quit, Ends, Goto, Begin, Gives, Procs
<1>2. JobOK(c) /\ MountOK(c) /\ (Plain => PlainOK(c))
  BY Zenon DEF VolInv
<1>3. job[c] # "restore" /\ job[c] \notin Getting
  BY <1>1, Zenon DEF Removing, Getting
<1>4. booting = {}
  BY <1>1, <1>3, NotBooting, Zenon
<1>5. Serves(c)
  BY <1>1, <1>4, Zenon DEF Serves
<1>6. RequestShape(c)
  BY <1>1, <1>5, EndsShape, Zenon
<1>7. pc'[c] = "idle" /\ got'[c] = Nil /\ job'[c] = "none"
  BY <1>1, EndsRow, Zenon
<1>8. JobOK(c)' /\ job'[c] # "restore"
  BY <1>7 DEF JobOK, Getting, Removing
<1>9. MountOK(c)'
  BY <1>1, <1>2, Zenon DEF MountOK
<1>10. ASSUME Plain PROVE PlainOK(c)'
  <2>1. job[c] \in Removing /\ mount[c] = Nil
    BY <1>1, <1>2, <1>10, Zenon DEF PlainOK, JobOK
  <2>2. \A n \in Names : c \notin refs[n]
    BY <1>1, <1>2, <1>3, <1>10, Zenon DEF PlainOK
  <2>3. job'[c] \notin {"start", "start config", "restore"} /\ job'[c] \notin Getting
    BY <1>7 DEF Getting
  <2>4. c \notin missed'
    BY <1>1, <1>2, <1>10, <2>1, Zenon DEF PlainOK
  <2> QED
    BY <1>1, <2>1, <2>2, <2>3, <2>4, Zenon DEF PlainOK, FindsOK
<1> QED
  BY <1>1, <1>4, <1>6, <1>8, <1>9, <1>10, ServedInv, Zenon

\* The start of a container that is not plain.
LEMMA StartWithConfigInv ==
  ASSUME VolInv, NEW c \in Containers, StartWithConfig(c)
  PROVE  VolInv' /\ vols' = vols
<1> DEFINE k == [op |-> "deref", name |-> mount[c].name, driver |-> mount[c].volume]
<1>1. /\ pc[c] = "idle" /\ booting = {} /\ mount[c] # Nil /\ c \in Procs
      /\ UNCHANGED <<lock, names, refs, vols, up, load, mount, made, booting, missed>>
      /\ Starts(c, "start config", k)
  BY Zenon DEF StartWithConfig, Ready, Same, Starts, Begin, Call, Goto, Gives, Procs
<1>2. mount[c] \in Mounts /\ MountOK(c)
  BY <1>1, Zenon DEF VolInv, VolTypeOK
<1>3. k \in Calls /\ k.op = "deref" /\ "start config" \in Jobs
  BY <1>2 DEF Calls, Ops, Mounts, Jobs
<1> HIDE DEF k
<1>4. Serves(c) /\ ~Plain
  BY <1>1, Zenon DEF Serves, Plain, StartWithConfig
<1>5. RequestShape(c) /\ pc'[c] = "call" /\ call'[c] = k /\ job'[c] = "start config"
  BY <1>1, <1>3, <1>4, StartsShape, StartsRow, Zenon
<1>6. JobOK(c)' /\ job'[c] # "restore"
  BY <1>3, <1>5, Zenon DEF JobOK, Getting, Removing
<1>7. MountOK(c)'
  BY <1>1, <1>2, Zenon DEF MountOK
<1> QED
  BY <1>1, <1>4, <1>5, <1>6, <1>7, ServedInv, Zenon

\* A container whose mount point has no volume asks for it: when the container starts ...
LEMMA ContainerStartInv ==
  ASSUME VolInv, NEW c \in Containers, ContainerStart(c)
  PROVE  VolInv' /\ vols' = vols
<1> DEFINE k == [op |-> "getref", name |-> mount[c].name, driver |-> mount[c].driver]
<1>1. /\ pc[c] = "idle" /\ booting = {} /\ mount[c] # Nil /\ mount[c].volume = Nil /\ c \in Procs
      /\ UNCHANGED <<lock, names, refs, vols, up, load, mount, made, booting, missed>>
      /\ Starts(c, "start", k)
  BY Zenon DEF ContainerStart, Ready, Same, Starts, Begin, Call, Goto, Gives, Procs
<1>2. mount[c] \in Mounts
  BY <1>1, Zenon DEF VolInv, VolTypeOK
<1>3. /\ k \in Calls /\ k.op = "getref" /\ k.name = mount[c].name /\ k.driver = mount[c].driver
      /\ "start" \in Jobs
  BY <1>2 DEF Calls, Ops, Mounts, Jobs, Getting
<1> HIDE DEF k
<1>4. Serves(c)
  BY <1>1, Zenon DEF Serves
<1>5. RequestShape(c) /\ pc'[c] = "call" /\ call'[c] = k /\ job'[c] = "start"
  BY <1>1, <1>3, <1>4, StartsShape, StartsRow, ZenonT(30)
<1>6. JobOK(c)' /\ job'[c] # "restore"
  BY <1>1, <1>3, <1>5 DEF JobOK, Removing
<1>7. MountOK(c)'
  BY <1>1, Zenon DEF MountOK
<1>8. ASSUME Plain PROVE PlainOK(c)'
  <2>1. PlainOK(c)
    BY <1>8, Zenon DEF VolInv
  <2>2. c \in missed /\ \A n \in Names : c \notin refs[n]
    <3>1. job[c] \notin Getting /\ job[c] \notin Removing /\ c \notin booting
      BY <1>1, Zenon DEF VolInv, JobOK, Getting, Removing
    <3> QED
      BY <1>1, <2>1, <3>1, Zenon DEF PlainOK
  <2>3. job'[c] # "start config" /\ pc'[c] \notin {"set", "done"}
    BY <1>5
  <2> QED
    BY <1>1, <2>2, <2>3, Zenon DEF PlainOK, FindsOK
<1> QED
  BY <1>1, <1>4, <1>5, <1>6, <1>7, <1>8, ServedInv, Zenon

\* ... and when the daemon does.
LEMMA RestoreInv ==
  ASSUME VolInv, NEW c \in Containers, Restore(c)
  PROVE  VolInv' /\ vols' = vols
<1> DEFINE k == [op |-> "getref", name |-> mount[c].name, driver |-> mount[c].driver]
<1>1. /\ pc[c] = "idle" /\ c \in booting /\ c \in Procs
      /\ UNCHANGED <<lock, names, refs, vols, up, load, mount, made, booting, missed>>
      /\ Starts(c, "restore", k)
  BY Zenon DEF Restore, Same, Starts, Begin, Call, Goto, Gives, Procs
<1>2. mount[c] # Nil /\ mount[c].volume = Nil /\ booting \in SUBSET Containers /\ BootOK
  BY <1>1, ZenonT(30) DEF VolInv, BootOK, VolTypeOK
<1>3. mount[c] \in Mounts
  BY <1>2 DEF VolInv, VolTypeOK
<1>4. /\ k \in Calls /\ k.op = "getref" /\ k.name = mount[c].name /\ k.driver = mount[c].driver
      /\ "restore" \in Jobs /\ k \in Calls \cup {NoCall}
  BY <1>3 DEF Calls, Ops, Mounts, Jobs, Getting
<1> HIDE DEF k
<1>5. pc'[c] = "call" /\ call'[c] = k /\ job'[c] = "restore"
  BY <1>1, <1>4, StartsRow, Zenon
<1>6. RequestShape(c)
  BY <1>1, <1>2, <1>4, <1>5, Zenon DEF RequestShape, Starts
<1>7. BootOK'
  <2>1. \A q \in Procs : q # c => pc'[q] = pc[q] /\ job'[q] = job[q]
    BY <1>1, <1>6, RequestRows, Zenon DEF RequestFrame
  <2>2. \A d \in Containers : d # c => job'[d] = job[d]
    BY <2>1 DEF Procs
  <2> QED
    BY <1>1, <1>2, <1>5, <2>1, <2>2, Zenon DEF BootOK
<1>8. JobOK(c)'
  BY <1>1, <1>2, <1>4, <1>5 DEF JobOK, Removing
<1>9. MountOK(c)'
  BY <1>1, <1>2, Zenon DEF MountOK
<1>10. ASSUME Plain PROVE PlainOK(c)'
  <2>1. PlainOK(c)
    BY <1>10, Zenon DEF VolInv
  <2>2. \A n \in Names : c \notin refs[n]
    BY <1>1, <1>2, <2>1, Zenon DEF PlainOK
  <2>3. job'[c] \notin {"start", "start config"} /\ pc'[c] \notin {"set", "done"}
    BY <1>5
  <2> QED
    BY <1>1, <1>2, <2>1, <2>2, <2>3, Zenon DEF PlainOK, FindsOK
<1> QED
  BY <1>1, <1>6, <1>7, <1>8, <1>9, <1>10, RequestInv, Zenon

\* The automatic restart of a container fails before it asks for the volume.
LEMMA RestartFailsInv ==
  ASSUME VolInv, NEW c \in Containers, RestartFails(c)
  PROVE  VolInv' /\ vols' = vols
<1>1. /\ pc[c] = "idle" /\ c \in booting /\ c \in Procs
      /\ booting' = booting \ {c} /\ missed' = missed \cup {c}
      /\ UNCHANGED <<lock, names, refs, vols, up, load, pc, call, got, job, mount, made>>
  BY Zenon DEF RestartFails, Same, Procs
<1>2. /\ mount[c] # Nil /\ mount[c].volume = Nil /\ booting \in SUBSET Containers /\ BootOK
      /\ JobOK(c) /\ MountOK(c) /\ job[c] = "none"
  BY <1>1, ZenonT(30) DEF VolInv, BootOK, VolTypeOK, JobOK
<1>3. /\ booting' \in SUBSET Containers /\ \A d : d # c => (d \in booting' <=> d \in booting)
      /\ c \notin booting' /\ c \in missed' /\ \A d : d # c => (d \in missed' <=> d \in missed)
      /\ booting' # {} => booting # {}
  BY <1>1, <1>2
<1>4. RequestShape(c)
  <2>1. pc'[c] \in {"idle", "call"} /\ pc'[c] # "call"
    BY <1>1
  <2> QED
    BY <1>1, <1>3, <2>1, Zenon DEF RequestShape
<1>5. BootOK'
  <2>1. \A d \in booting' : mount'[d] # Nil /\ mount'[d].volume = Nil
    BY <1>1, <1>2, <1>3, Zenon DEF BootOK
  <2>2. booting' # {} => \A p \in Procs : pc'[p] = "idle" \/ (p \in booting' /\ job'[p] = "restore")
    BY <1>1, <1>2, <1>3, Zenon DEF BootOK
  <2>3. \A d \in Containers : job'[d] = "restore" => d \in booting'
    BY <1>1, <1>2, <1>3 DEF BootOK
  <2> QED
    BY <2>1, <2>2, <2>3, Zenon DEF BootOK
<1>6. JobOK(c)' /\ MountOK(c)'
  <2>1. JobOK(c)'
    BY <1>1, <1>2, Zenon DEF JobOK
  <2> QED
    BY <1>1, <1>2, <2>1, Zenon DEF MountOK
<1>7. ASSUME Plain PROVE PlainOK(c)'
  <2>1. PlainOK(c)
    BY <1>7, Zenon DEF VolInv
  <2>2. \A n \in Names : c \notin refs[n]
    BY <1>1, <1>2, <2>1 DEF PlainOK, Getting, Removing
  <2>3. job'[c] \notin {"start", "start config", "restore"} /\ job'[c] \notin Getting
    BY <1>1, <1>2 DEF Getting
  <2> QED
    BY <1>1, <1>2, <1>3, <2>2, <2>3, Zenon DEF PlainOK, FindsOK
<1> QED
  BY <1>1, <1>4, <1>5, <1>6, <1>7, RequestInv, Zenon

\* The volume of a mount point is set, if there is one.
LEMMA InitializedInv ==
  ASSUME VolInv, NEW c \in Containers, Initialized(c)
  PROVE  VolInv' /\ vols' = vols
<1> DEFINE m == [mount[c] EXCEPT !.volume = got[c]]
<1>1. /\ pc[c] = "done" /\ job[c] \in {"start", "restore"} /\ c \in Procs
      /\ booting' = booting \ {c} /\ UNCHANGED <<lock, names, refs, vols, up, load, made>>
      /\ Ends(c) /\ missed' = IF got[c] = Nil THEN missed ELSE missed \ {c}
  BY Zenon DEF Initialized, Same, Ends, Quit, Begin, Goto, Gives, Procs
<1>2. /\ JobOK(c) /\ (Plain => PlainOK(c)) /\ BootOK /\ booting \in SUBSET Containers
      /\ mount \in [Containers -> Mounts \cup {Nil}] /\ got[c] \in Drivers \cup {Nil}
  BY <1>1, Zenon DEF VolInv, VolTypeOK
<1>3. mount[c] # Nil /\ mount[c].name = call[c].name /\ job[c] \in Getting
  BY <1>1, <1>2, Zenon DEF JobOK, Getting
<1>4. /\ m \in Mounts /\ m.name = call[c].name /\ m.driver = mount[c].driver /\ m.volume = got[c]
      /\ mount' = [mount EXCEPT ![c] = m]
  BY <1>2, <1>3 DEF Mounts, Initialized
<1>5. m # Nil
  BY <1>4, MountAssumption, Zenon
<1> HIDE DEF m
<1>6. mount'[c] = m /\ \A d \in Containers : d # c => mount'[d] = mount[d]
  BY <1>2, <1>4
<1>7. pc'[c] = "idle" /\ got'[c] = Nil /\ job'[c] = "none" /\ call'[c] = NoCall
  BY <1>1, EndsRow, Zenon
<1>8. RequestShape(c)
  <2>1. /\ booting' \in SUBSET Containers /\ \A d : d # c => (d \in booting' <=> d \in booting)
        /\ pc'[c] # "call" /\ "none" \in Jobs /\ NoCall \in Calls \cup {NoCall} /\ m \in Mounts \cup {Nil}
    BY <1>1, <1>2, <1>4, <1>7, Zenon DEF Jobs
  <2>2. \A d : d # c => (d \in missed' <=> d \in missed)
    BY <1>1
  <2> QED
    BY <1>1, <1>4, <1>7, <2>1, <2>2, Zenon DEF RequestShape, Ends
<1>9. BootOK'
  <2>1. \A q \in Procs : q # c => pc'[q] = pc[q] /\ job'[q] = job[q]
    BY <1>1, <1>8, RequestRows, ZenonT(30) DEF RequestFrame
  <2>2. \A d \in Containers : d # c => job'[d] = job[d]
    BY <2>1 DEF Procs
  <2>3. /\ \A d : d \in booting' <=> d \in booting /\ d # c
        /\ booting' # {} => booting # {}
    BY <1>1
  <2>4. \A d \in booting' : mount'[d] # Nil /\ mount'[d].volume = Nil
    BY <1>2, <1>6, <2>3 DEF BootOK
  <2>5. booting' # {} => \A p \in Procs : pc'[p] = "idle" \/ (p \in booting' /\ job'[p] = "restore")
    BY <1>2, <1>7, <2>1, <2>3, Zenon DEF BootOK
  <2>6. \A d \in Containers : job'[d] = "restore" => d \in booting'
    BY <1>2, <1>7, <2>2, <2>3 DEF BootOK
  <2> QED
    BY <2>4, <2>5, <2>6, Zenon DEF BootOK
<1>10. JobOK(c)'
  BY <1>7 DEF JobOK, Getting, Removing
<1>11. got[c] # Nil /\ c \in refs[call[c].name] => <<got[c], call[c].name>> \in vols
  BY <1>1, <1>2, <1>3, Zenon DEF JobOK
<1>12. MountOK(c)'
  <2>1. m.volume # Nil /\ c \in refs[m.name] => <<m.volume, m.name>> \in vols
    BY <1>4, <1>11
  <2>2. refs' = refs /\ vols' = vols
    BY <1>1
  <2> QED
    BY <1>6, <2>1, <2>2, Zenon DEF MountOK
<1>13. ASSUME Plain PROVE PlainOK(c)'
  <2>1. /\ PlainOK(c) /\ (got[c] # Nil => c \in refs[call[c].name])
        /\ \A n \in Names : c \in refs[n] => got[c] # Nil /\ call[c].name = n
        /\ got[c] = mount[c].driver \/ (got[c] = Nil /\ c \in missed)
    BY <1>1, <1>2, <1>3, <1>13, Zenon DEF PlainOK, FindsOK
  <2>2. job'[c] \notin {"start", "start config", "restore"} /\ job'[c] \notin Getting
    BY <1>7 DEF Getting
  <2>3. refs' = refs /\ vols' = vols
    BY <1>1
  <2>4. CASE got[c] = Nil
    <3>1. /\ c \in missed' /\ m.volume = Nil /\ \A n \in Names : c \notin refs[n]
      <4>1. mount[c].driver # Nil
        <5>1. mount[c] \in Mounts
          BY <1>2, <1>3, Zenon
        <5>2. mount[c].driver \in Drivers
          BY <5>1 DEF Mounts
        <5> QED
          BY <5>2, VolumeAssumption, Zenon
      <4> QED
        BY <1>1, <1>4, <2>1, <2>4, <4>1
    <3> QED
      BY <1>5, <1>6, <2>2, <2>3, <3>1, Zenon DEF PlainOK, FindsOK
  <2>5. CASE got[c] # Nil
    <3>1. /\ c \notin missed' /\ <<m.driver, m.name>> \in vols /\ m.volume # Nil /\ c \in refs[m.name]
          /\ \A n \in Names : c \in refs[n] => m.name = n
      BY <1>1, <1>4, <1>11, <2>1, <2>5
    <3> QED
      BY <1>5, <1>6, <1>7, <2>2, <2>3, <3>1, Zenon DEF PlainOK, FindsOK
  <2> QED
    BY <2>4, <2>5
<1> QED
  BY <1>1, <1>8, <1>9, <1>10, <1>12, <1>13, RequestInv, Zenon

\* A request for a container.
LEMMA ContainerStepInv ==
  ASSUME VolInv, NEW c \in Containers, ContainerStep(c)
  PROVE  VolInv' /\ vols' = vols
BY BindInv, VolumesFromInv, VolumesFromSourceInv, CreatedInv, CreateFailsLateInv, ContainerStartInv,
   RestoreInv, RestartFailsInv, InitializedInv, StartWithConfigInv, ContainerRmInv, RmVolumeInv, RemovedInv, ZenonT(30)
   DEF ContainerStep
-----------------------------------------------------------------------------
\* Every step keeps the invariant, and only a step of the store changes the volumes.
LEMMA NextVolInv ==
  ASSUME VolInv, [Next]_vars
  PROVE  VolInv' /\ (vols' = vols \/ \E p \in Procs : StoreFrame(p))
<1>1. CASE \E r \in Clients \cap load.procs : ClientStep(r)
  BY <1>1, ClientInv
<1>2. CASE \E c \in Containers \cap load.procs : ContainerStep(c)
  BY <1>2, ContainerStepInv
<1>3. CASE \E p \in Procs : StoreStep(p) /\ UNCHANGED cvars
  BY <1>3, StoreStepInv, ShapeFrame, Zenon
<1>4. CASE \E d \in load.fallible : Flip(d) /\ UNCHANGED cvars
  BY <1>4, FlipInv, Zenon
<1>5. CASE Crash
  BY <1>5, CrashInv, Zenon
<1>6. CASE UNCHANGED vars
  <2>1. UNCHANGED <<lock, names, refs, vols, up, pc, call, got, load, job, mount, made, booting, missed>>
    BY <1>6, Zenon DEF vars, svars, cvars
  <2>2. VolTypeOK' /\ BootOK'
    BY <2>1, Zenon DEF VolInv, VolTypeOK, BootOK
  <2>3. \A p \in Procs : CallOK(p)'
    BY <2>1, Zenon DEF VolInv, CallOK
  <2>4. \A n \in Names : NamedOK(n)'
    BY <2>1, Zenon DEF VolInv, NamedOK
  <2>5. ASSUME NEW c \in Containers PROVE JobOK(c)' /\ MountOK(c)'
    <3>1. JobOK(c) /\ MountOK(c)
      BY <2>5, Zenon DEF VolInv
    <3>2. JobOK(c)'
      BY <2>1, <3>1, Zenon DEF JobOK
    <3> QED
      BY <2>1, <3>1, <3>2, Zenon DEF MountOK
  <2>6. Plain' => up' = Drivers /\ \A c \in Containers : PlainOK(c)'
    <3>1. Plain' => Plain
      BY <2>1 DEF Plain
    <3>2. Plain => up = Drivers /\ \A c \in Containers : PlainOK(c)
      BY Zenon DEF VolInv
    <3>3. ASSUME NEW c \in Containers, PlainOK(c) PROVE PlainOK(c)'
      <4>1. FindsOK(c)'
        BY <2>1, <3>3, Zenon DEF PlainOK, FindsOK
      <4> QED
        BY <2>1, <3>3, <4>1, Zenon DEF PlainOK
    <3> QED
      BY <2>1, <3>1, <3>2, <3>3, Zenon
  <2> QED
    BY <2>1, <2>2, <2>3, <2>4, <2>5, <2>6, Zenon DEF VolInv
<1> QED
  BY <1>1, <1>2, <1>3, <1>4, <1>5, <1>6, ZenonT(30) DEF Next

\* The invariant of the volume store holds in every behaviour of it and the daemon.
THEOREM SpecVolInv == Spec => []VolInv
<1>1. Init => VolInv
  BY InitVolInv
<1>2. VolInv /\ [Next]_vars => VolInv'
  BY NextVolInv
<1> QED
  BY <1>1, <1>2, PTL DEF Spec

\* The volume of a mount point whose container the store refers to exists (store.go's
\* CreateWithRef and GetWithRef against Remove).
THEOREM HeldVolumesExist == Spec => []HeldVolumeExists
<1>1. VolInv => HeldVolumeExists
  BY Zenon DEF VolInv, MountOK, HeldVolumeExists
<1> QED
  BY <1>1, SpecVolInv, PTL

\* No reference outlives its container and the request that makes or drops it (mounts.go's
\* removeMountPoints, volumes.go's registerMountPoints), in behaviours that are Plain.
THEOREM ReferencesAreReal == Spec => []RefsAreReal
<1>1. ASSUME VolInv, Plain, NEW n \in Names, NEW c \in refs[n]
      PROVE  \/ mount[c] # Nil /\ mount[c].name = n
             \/ pc[c] # "idle" /\ call[c].name = n
  <2>1. c \in Containers
    BY <1>1 DEF VolInv, VolTypeOK
  <2>2. PlainOK(c)
    BY <1>1, <2>1, Zenon DEF VolInv
  <2> QED
    BY <1>1, <2>2, Zenon DEF PlainOK
<1>2. VolInv => RefsAreReal
  BY <1>1, Zenon DEF RefsAreReal
<1> QED
  BY <1>2, SpecVolInv, PTL

\* The volume in the configuration of a container is not removed (delete.go's VolumeRm and
\* the removal of containers), over any number of restarts, in the same behaviours, unless
\* restore could not start the container again (daemon.go:251-296) and it has no reference.
THEOREM ReferencedVolumesStay == Spec => ReferencedNotRemoved
<1>1. ASSUME VolInv, [Next]_vars, Plain, NEW c \in Containers \ missed PROVE Keeps(c)
  <2>1. vols' = vols \/ \E p \in Procs : StoreFrame(p)
    BY <1>1, NextVolInv, Zenon
  <2>2. CASE vols' = vols
    BY <2>2, Zenon DEF Keeps
  <2>3. ASSUME NEW p \in Procs, StoreFrame(p), mount[c] # Nil,
               <<mount[c].driver, mount[c].name>> \in vols
        PROVE  <<mount[c].driver, mount[c].name>> \in vols'
    <3>1. pc[p] = "unlink" => mount[c].name # call[p].name
      <4>1. PlainOK(c)
        BY <1>1, Zenon DEF VolInv
      <4>2. pc[p] = "unlink" => booting = {} /\ refs[call[p].name] = {}
        BY <1>1, ServesRequests, Zenon
      <4>3. booting = {} => c \in refs[mount[c].name]
        BY <1>1, <2>3, <4>1, Zenon DEF PlainOK
      <4> QED
        BY <4>2, <4>3
    <3> QED
      BY <2>3, <3>1, ZenonT(30) DEF StoreFrame
  <2> QED
    BY <2>1, <2>2, <2>3, Zenon DEF Keeps
<1>2. VolInv /\ [Next]_vars => [Plain => \A c \in Containers \ missed : Keeps(c)]_vars
  BY <1>1
<1> QED
  BY <1>2, SpecVolInv, PTL DEF Spec, ReferencedNotRemoved
=============================================================================
