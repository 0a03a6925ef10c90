----------------------------- MODULE LiveRestore ------------------------------
(***************************************************************************)
(* How the daemon and containerd agree again after either has crashed:     *)
(* libcontainerd/remote_linux.go (the stream of containerd's events and    *)
(* the timestamp of the last one handled), Restore and Create of           *)
(* libcontainerd/client_linux.go, handleEvent of container_linux.go, and   *)
(* the part of the daemon's restore that calls them.                       *)
(*                                                                         *)
(* One container, run several times.  containerd and its shim are external:*)
(* the shim keeps the process while containerd is down, and containerd     *)
(* keeps its log of events, whose positions stand for the timestamps.  The *)
(* run an event or an exit code belongs to is recorded, and no guard reads *)
(* it.                                                                     *)
(***************************************************************************)
EXTENDS Integers, Sequences, SequencesExt

CONSTANTS LrLoads    \* scenarios: [reqs, exits, crashes, live, always, prompt, slow, fresh]

VARIABLES lrLoad,    \* the scenario; never changes
          shim,      \* the container's process: none, running, paused, exited
          cd,        \* containerd is up
          cdLog,     \* its events: [type, run]
          run,       \* runs so far
          dm,        \* daemon: [at, alive, ev], ev a position in cdLog or 0
          cmem,      \* Container.State: [st, code]
          file,      \* as ToDisk left it
          inMap,     \* client.containers has the container
          ts,        \* the timestamp file, or Missing
          restoreTs, \* remote.restoreFromTimestamp
          stream,    \* events received on the current stream, or Off
          handling,  \* the event between handleEvent and updateEventTimestamp, or 0
          q,         \* StateChanged calls in client.q
          lop,       \* the start in progress: idle, create, started
          lspent,
          lost       \* history, read by no guard: see NotLost

lrVars == <<lrLoad, shim, cd, cdLog, run, dm, cmem, file, inMap, ts, restoreTs, stream,
            handling, q, lop, lspent, lost>>
world == <<shim, cd, cdLog, run>>
volatile == <<cmem, inMap, stream, handling, q, lop>>

\* The run whose start was not in the timestamp file when the daemon or containerd
\* died; the run the daemon has lost sight of; a restart failed and left the container
\* in client.containers.
NotLost == [unsaved |-> 0, run |-> 0, restart |-> FALSE]

Off == -1
Missing == -1
SpendL(k) == lspent[k] < lrLoad[k] /\ lspent' = [lspent EXCEPT ![k] = @ + 1]

Emit(type) == cdLog' = Append(cdLog, [type |-> type, run |-> run])
Known == shim # "none"
Caught == stream = Len(cdLog) /\ handling = 0 /\ q = <<>>

\* The timestamp on disk is not older than the container's last start.
StartSaved == \A i \in 1..Len(cdLog) : cdLog[i].type = "start" => i <= ts

\* getLastEventTimestamp: now, when there is no file.
getLastEventTimestamp == IF ts = Missing THEN Len(cdLog) ELSE ts

-----------------------------------------------------------------------------
(* The container's process and containerd.                                 *)

ProcessExits ==
    /\ shim \in {"running", "paused"} /\ SpendL("exits")
    /\ IF cd THEN shim' = "none" /\ Emit("exit") ELSE shim' = "exited" /\ UNCHANGED cdLog
    /\ UNCHANGED <<lrLoad, lost, cd, run, dm, cmem, file, inMap, ts, restoreTs, stream, handling, q, lop>>

\* Containerd starts: it reports the exits it has missed.
CdStarts ==
    /\ cd' = TRUE
    /\ IF shim = "exited" THEN shim' = "none" /\ Emit("exit") ELSE UNCHANGED <<shim, cdLog>>
    /\ UNCHANGED run

RestartFailed(l) == [l EXCEPT !.restart = @ \/ cmem.st = "restarting"]

\* CreateContainer returns an error.  containerStart sets the exit code if none is set;
\* a restart that fails is an exit, and leaves the container in client.containers.
StartFails ==
    /\ lop' = "idle"
    /\ inMap' = (cmem.st = "restarting")
    /\ IF cmem.st = "restarting"
       THEN q' = Append(q, [type |-> "exit", run |-> cmem.code]) /\ UNCHANGED <<cmem, file>>
       ELSE /\ cmem' = [cmem EXCEPT !.code = IF @ = 0 THEN 128 ELSE @] /\ file' = cmem'
            /\ UNCHANGED q

\* containerd has a new process.
Created ==
    /\ shim' = "running" /\ run' = run + 1
    /\ cdLog' = Append(cdLog, [type |-> "start", run |-> run + 1])

\* A CreateContainer under way has not been sent yet and waits, or fails, whether
\* containerd had come to create the process or not.
ContainerdDies ==
    /\ cd /\ dm.at = "up" /\ SpendL("crashes")
    /\ cd' = FALSE /\ stream' = Off
    /\ LET l == [lost EXCEPT !.unsaved = IF lop = "create" THEN run + 1 ELSE IF StartSaved THEN @ ELSE run]
       IN \/ UNCHANGED <<shim, cdLog, run, cmem, file, inMap, q, lop>> /\ lost' = l
          \/ lop = "create" /\ StartFails /\ UNCHANGED <<shim, cdLog, run>> /\ lost' = RestartFailed(l)
          \/ /\ lop = "create" /\ ~Known /\ StartFails /\ Created
             /\ lost' = RestartFailed([l EXCEPT !.run = run + 1])
    /\ UNCHANGED <<lrLoad, dm, ts, restoreTs, handling>>

\* handleConnectionChange has seen enough failures: it starts containerd anew.
handleConnectionChange ==
    /\ dm.at = "up" /\ ~cd /\ CdStarts
    /\ UNCHANGED <<lrLoad, lost, dm, file, ts, restoreTs, volatile, lspent>>

-----------------------------------------------------------------------------
(* startEventsMonitor and handleEventStream.                               *)

startEventsMonitor ==
    /\ dm.at # "down" /\ cd /\ stream = Off /\ handling = 0
    /\ stream' = getLastEventTimestamp
    /\ UNCHANGED <<lrLoad, lost, world, dm, cmem, file, inMap, ts, restoreTs, handling, q, lop, lspent>>

\* handleEvent: it needs the container's lock of libcontainerd, and hands the
\* change of state to the queue.  The object Restore makes for a kill has no
\* restart manager.
handleEvent(e) ==
    /\ lop = "idle"
    /\ CASE e.type = "exit" ->
              /\ inMap' = FALSE
              /\ q' = Append(q, [e EXCEPT !.type = IF lrLoad.always /\ dm.at # "kill" THEN "restart" ELSE "exit"])
         [] e.type \in {"pause", "resume"} -> q' = Append(q, e) /\ UNCHANGED inMap
         [] e.type = "start" -> UNCHANGED <<q, inMap>>

\* An event of an unknown container leaves the timestamp alone.  Restore holds
\* the remote's lock, except while it waits for a kill.
Receive ==
    /\ stream # Off /\ stream < Len(cdLog) /\ handling = 0 /\ dm.at \in {"kill", "auto", "wait", "up"}
    /\ stream' = stream + 1
    /\ IF inMap
       THEN /\ handleEvent(cdLog[stream']) /\ handling' = stream'
            /\ lost' = IF cdLog[stream'].run # run /\ (lost.unsaved = run \/ lost.run = cdLog[stream'].run)
                       THEN [lost EXCEPT !.run = run] ELSE lost
       ELSE UNCHANGED <<inMap, q, handling, lost>>
    /\ UNCHANGED <<lrLoad, world, dm, cmem, file, ts, restoreTs, lop, lspent>>

updateEventTimestamp ==
    /\ handling # 0
    /\ handling' = 0 /\ ts' = handling
    /\ UNCHANGED <<lrLoad, lost, world, dm, cmem, file, inMap, restoreTs, stream, q, lop, lspent>>

Stopped(code) == [st |-> "stopped", code |-> code]

\* StateChanged for the head of the queue.  A pause is not written to disk.
StateChanged ==
    /\ q # <<>> /\ lop = "idle"
    /\ q' = Tail(q)
    /\ CASE Head(q).type = "exit" -> cmem' = Stopped(Head(q).run) /\ file' = cmem'
         [] Head(q).type = "restart" ->
              cmem' = [cmem EXCEPT !.st = "restarting", !.code = Head(q).run] /\ file' = cmem'
         [] Head(q).type = "pause" -> cmem' = [cmem EXCEPT !.st = "paused"] /\ UNCHANGED file
         [] Head(q).type = "resume" -> cmem' = [cmem EXCEPT !.st = "running"] /\ UNCHANGED file
    /\ UNCHANGED <<lrLoad, lost, world, dm, inMap, ts, restoreTs, stream, handling, lop, lspent>>

-----------------------------------------------------------------------------
(* Requests of the daemon to containerd.                                   *)

\* containerStart, the restart goroutine of handleEvent, or the restart of a
\* container by its policy when the daemon starts.
Start ==
    /\ lop = "idle" /\ ~inMap
    /\ \/ dm.at = "up" /\ cmem.st \in {"stopped", "restarting"} /\ UNCHANGED dm
       \/ dm.at = "auto" /\ lrLoad.always /\ cmem.st = "stopped" /\ dm' = [dm EXCEPT !.at = "wait"]
    /\ SpendL("reqs")
    /\ lrLoad.prompt => Caught
    /\ lop' = "create" /\ inMap' = TRUE
    /\ UNCHANGED <<lrLoad, lost, world, cmem, file, ts, restoreTs, stream, handling, q>>

\* CreateContainer: containerd refuses when it has the container already.
Create ==
    /\ lop = "create" /\ cd
    /\ \/ Known /\ StartFails /\ lost' = RestartFailed(lost) /\ UNCHANGED <<shim, run, cdLog>>
       \/ ~Known /\ Created /\ lop' = "started" /\ UNCHANGED <<cmem, file, inMap, q, lost>>
    /\ UNCHANGED <<lrLoad, cd, dm, ts, restoreTs, stream, handling, lspent>>

\* StateStart: running, and saved.
StartDone ==
    /\ lop = "started" /\ lop' = "idle"
    /\ cmem' = [cmem EXCEPT !.st = "running"] /\ file' = cmem'
    /\ UNCHANGED <<lrLoad, lost, world, dm, inMap, ts, restoreTs, stream, handling, q, lspent>>

\* setState: containerd pauses or resumes the container; the daemon's state
\* follows with the event.
SetState(from, to, type) ==
    /\ dm.at = "up" /\ cd /\ lop = "idle" /\ q = <<>> /\ inMap /\ cmem.st = from /\ shim = from
    /\ SpendL("reqs")
    /\ shim' = to /\ Emit(type)
    /\ UNCHANGED <<lrLoad, lost, cd, run, dm, file, ts, restoreTs, volatile>>

-----------------------------------------------------------------------------
(* The daemon stops at any point and starts again.  containerd, its child, *)
(* goes with it.                                                           *)

DaemonCrash ==
    /\ dm.at # "down" /\ SpendL("crashes")
    /\ lost' = [unsaved |-> IF StartSaved THEN lost.unsaved ELSE run,
                run |-> IF lop = "started" THEN run ELSE lost.run, restart |-> FALSE]
    /\ dm' = [dm EXCEPT !.at = "down"] /\ cd' = FALSE
    /\ stream' = Off /\ handling' = 0 /\ q' = <<>> /\ lop' = "idle" /\ inMap' = FALSE
    /\ UNCHANGED <<lrLoad, shim, cdLog, run, cmem, file, ts, restoreTs>>

\* New, and the daemon loads the container: one that was running is restored.
DaemonBoot ==
    /\ dm.at = "down" /\ CdStarts
    /\ restoreTs' = IF ts = Missing THEN Len(cdLog') ELSE ts
    /\ stream' = restoreTs'
    /\ cmem' = file
    /\ dm' = [dm EXCEPT !.at = IF file.st = "stopped" THEN "auto" ELSE "look"]
    /\ UNCHANGED <<lrLoad, lost, file, inMap, ts, handling, q, lop, lspent>>

\* getContainerdContainer.
RestoreLook ==
    /\ dm.at = "look"
    /\ dm' = [dm EXCEPT !.at = "event", !.alive = Known]
    /\ UNCHANGED <<lrLoad, lost, world, file, ts, restoreTs, volatile, lspent>>

LastSince(from) ==
    LET past == {i \in (from + 1)..Len(cdLog) : cdLog[i].type \in {"exit", "pause", "resume"}}
    IN  IF past = {} THEN 0 ELSE CHOOSE i \in past : \A j \in past : j <= i

\* Fault: only the events since the last one handled are asked for.
getContainerLastEvent_Since == LastSince(restoreTs)

getContainerLastEvent ==
    IF LastSince(restoreTs) # 0 THEN LastSince(restoreTs) ELSE LastSince(0)

RestoreEvent ==
    /\ dm.at = "event"
    /\ dm' = [dm EXCEPT !.at = "apply", !.ev = getContainerLastEvent]
    /\ UNCHANGED <<lrLoad, lost, world, file, ts, restoreTs, volatile, lspent>>

\* containerd has no process: setExited, with the status of the exit event.
RestoreExited ==
    /\ dm.at = "apply" /\ ~dm.alive
    /\ cmem' = Stopped(IF dm.ev # 0 /\ cdLog[dm.ev].type = "exit" THEN cdLog[dm.ev].run ELSE 0)
    /\ file' = cmem' /\ dm' = [dm EXCEPT !.at = "auto"]
    /\ UNCHANGED <<lrLoad, lost, world, inMap, ts, restoreTs, stream, handling, q, lop, lspent>>

\* restore: StateRestore, then the pause or resume that came last.
RestoreLive ==
    /\ dm.at = "apply" /\ dm.alive /\ lrLoad.live
    /\ inMap' = TRUE
    /\ file' = [file EXCEPT !.st = "running"]
    /\ cmem' = IF dm.ev # 0 /\ cdLog[dm.ev].type = "pause" THEN [file EXCEPT !.st = "paused"] ELSE file'
    /\ dm' = [dm EXCEPT !.at = "auto"]
    /\ UNCHANGED <<lrLoad, lost, world, ts, restoreTs, stream, handling, q, lop, lspent>>

\* Without live restore the container is killed, and the main loop handles
\* the exit event.
RestoreKill ==
    /\ dm.at = "apply" /\ dm.alive /\ ~lrLoad.live
    /\ inMap' = TRUE /\ dm' = [dm EXCEPT !.at = "kill"]
    /\ IF shim = "none" THEN UNCHANGED <<shim, cdLog>> ELSE shim' = "none" /\ Emit("exit")
    /\ UNCHANGED <<lrLoad, lost, cd, run, cmem, file, ts, restoreTs, stream, handling, q, lop, lspent>>

\* The exit notifier is closed, or, when the event is slow to come, the
\* timeout comes first and the exit is recorded with a code of its own.
RestoreKilled ==
    /\ dm.at = "kill" /\ dm' = [dm EXCEPT !.at = "auto"]
    /\ \/ cmem.st = "stopped" /\ UNCHANGED <<cmem, file, inMap>>
       \/ lrLoad.slow /\ q = <<>> /\ cmem' = Stopped(255) /\ file' = cmem' /\ inMap' = FALSE
    /\ UNCHANGED <<lrLoad, lost, world, ts, restoreTs, stream, handling, q, lop, lspent>>

\* restore ends; it has tried to start a container with a restart policy.
BootDone ==
    /\ dm.at \in {"auto", "wait"} /\ lop = "idle"
    /\ dm.at = "auto" /\ lrLoad.always => cmem.st # "stopped" \/ lspent.reqs = lrLoad.reqs
    /\ dm' = [dm EXCEPT !.at = "up"]
    /\ UNCHANGED <<lrLoad, lost, world, file, ts, restoreTs, volatile, lspent>>

-----------------------------------------------------------------------------
LrInit ==
    /\ lrLoad \in LrLoads
    /\ shim = "none" /\ cd = TRUE /\ cdLog = <<>> /\ run = 0
    /\ dm = [at |-> "up", alive |-> FALSE, ev |-> 0]
    /\ cmem = Stopped(0) /\ file = cmem /\ inMap = FALSE
    /\ ts = (IF lrLoad.fresh THEN Missing ELSE 0) /\ restoreTs = 0 /\ stream = 0 /\ handling = 0 /\ q = <<>> /\ lop = "idle"
    /\ lspent = [reqs |-> 0, exits |-> 0, crashes |-> 0] /\ lost = NotLost

Streaming == startEventsMonitor \/ Receive \/ updateEventTimestamp \/ StateChanged
Restoring == DaemonBoot \/ RestoreLook \/ RestoreEvent \/ RestoreExited \/ RestoreLive
             \/ RestoreKill \/ RestoreKilled \/ BootDone

LrNext ==
    \/ ProcessExits \/ ContainerdDies \/ handleConnectionChange \/ DaemonCrash
    \/ Streaming \/ Restoring
    \/ Start \/ Create \/ StartDone
    \/ SetState("running", "paused", "pause") \/ SetState("paused", "running", "resume")

LrSpec == LrInit /\ [][LrNext]_lrVars

-----------------------------------------------------------------------------
\* When every event has been handled, the daemon's state of the container is
\* the state of its process, and the exit code it shows is the one of the last
\* run, whatever crashed in between: the pause that is not on disk is found in
\* containerd's log, an exit the daemon did not see is not lost, and an event
\* that Restore and the main loop both process changes nothing.  Where the code
\* loses sight of a run it is excepted: the daemon died between CreateContainer and
\* StateStart, or containerd before it answered; or either died before the
\* timestamp of the start was saved, and the stream then brings an event of an
\* earlier run, whose timestamp was never saved because the container was unknown
\* (remote_linux.go:310-313).  A restart that failed leaves the container in
\* client.containers.
StatesAgree ==
    dm.at = "up" /\ cd /\ lop = "idle" /\ Caught /\ cmem.st # "restarting" /\ (run = 0 \/ lost.run # run) =>
        /\ cmem.st = IF shim = "none" THEN "stopped" ELSE shim
        /\ shim = "none" => cmem.code \in {run, 255} \cup IF run = 0 THEN {128} ELSE {}
        /\ (shim # "none" <=> inMap) \/ lost.restart
=============================================================================
