---------------------------- MODULE ContainerLife ----------------------------
(***************************************************************************)
(* The life of one container: the requests of the daemon that start, stop, *)
(* kill, restart, pause, exec in and remove it (daemon/start.go, stop.go,  *)
(* kill.go, restart.go, pause.go, unpause.go, exec.go, delete.go), its     *)
(* state (container/state.go, daemon/monitor.go), its restart manager      *)
(* (restartmanager/restartmanager.go), and libcontainerd, which turns the  *)
(* events of containerd into state changes (libcontainerd/                 *)
(* container_linux.go, client_linux.go, queue_linux.go).                   *)
(*                                                                         *)
(* A request runs in a process of Callers.  A libcontainerd container      *)
(* object and the restart manager it was given are the same number, that   *)
(* of the daemon's call of Create.  containerd and the processes in the    *)
(* container are external.                                                 *)
(***************************************************************************)
EXTENDS Naturals, Sequences, FiniteSets

CONSTANTS Callers,
          NoOne,
          MaxCreates,   \* bound on the starts by request
          LifeLoads     \* what the daemon may be put through: the requests of the clients
                        \* (jobs), the restart policy, what may fail (refusals: "create" by
                        \* containerd, "attach" of the streams), and the bounds on exits of
                        \* the process by itself (exits) and on execs (execs)

Jobs == {"start", "stop", "kill", "restart", "pause", "unpause", "rm", "rm -f", "exec"}

ASSUME LifeAssumption ==
  /\ MaxCreates \in Nat
  /\ LifeLoads \subseteq [jobs : SUBSET Jobs, policy : {"no", "always", "on-failure"},
                          refusals : SUBSET {"create", "attach"}, exits : Nat, execs : Nat]
  /\ NoOne \notin Callers

VARIABLES
  cL, clL,      \* holders of the container's lock, and of libcontainerd's for its ID
  st,           \* Running, Paused, Restarting
  registered, removing, dead,
  stopWaiters,  \* the processes that wait on the current waitChan
  mgr,          \* the container's restart manager
  canceled, active,   \* restart managers
  backoff,      \* of a restart manager: the channel of ShouldRestart
  loop,         \* of an object: the goroutine that waits to restart it
  object,       \* the object in libcontainerd's map
  q,            \* the queued state changes
  found,        \* the event stream: the event in hand and the object found for it
  monitor,      \* pauseMonitor: the processes that wait for a change
  init, execs, killed, stream,   \* containerd: the process, its execs, its events
  rpc, rjob,
  creates, exits, execsMade,
  lifeLoad      \* the member of LifeLoads this behaviour is about

cLocks == <<cL, clL>>
life == <<st, stopWaiters>>
rm == <<registered, removing, dead>>
restarts == <<mgr, canceled, active, backoff, loop>>
lib == <<object, q, found, monitor>>
containerd == <<init, execs, killed, stream>>
requests == <<rpc, rjob>>
bounds == <<creates, exits, execsMade, lifeLoad>>
lifeVars == <<cLocks, life, rm, restarts, lib, containerd, requests, bounds>>

Objs == 1 .. MaxCreates
Loop == "loop"        \* libcontainerd's restart goroutine, as a holder of clL
Stopped == [running |-> FALSE, paused |-> FALSE, restarting |-> FALSE]

LifeInit ==
  /\ cL = NoOne /\ clL = NoOne
  /\ st = Stopped /\ stopWaiters = {}
  /\ registered = TRUE /\ removing = FALSE /\ dead = FALSE
  /\ mgr = 0 /\ canceled = {} /\ active = {}
  /\ backoff = [o \in Objs |-> "none"] /\ loop = [o \in Objs |-> "none"]
  /\ object = 0 /\ q = <<>> /\ found = NoOne /\ monitor = {}
  /\ init = "none" /\ execs = 0 /\ killed = FALSE /\ stream = <<>>
  /\ rpc = [p \in Callers |-> "idle"] /\ rjob = [p \in Callers |-> "none"]
  /\ creates = 0 /\ exits = 0 /\ execsMade = 0
  /\ lifeLoad \in LifeLoads

Proceed(p, where) == rpc' = [rpc EXCEPT ![p] = where]
At(p, where) == rpc[p] = where
ReturnC(p) == Proceed(p, "idle") /\ rjob' = [rjob EXCEPT ![p] = "none"]
Enqueue(s) == q' = Append(q, s)

\* Fault: the waiters are not woken.
SetStopped_Silent == st' = Stopped /\ UNCHANGED stopWaiters

\* State.SetRunning, SetStopped and SetRestarting; the last two wake the waiters
SetRunning == st' = [Stopped EXCEPT !.running = TRUE] /\ UNCHANGED stopWaiters
SetStopped == st' = Stopped /\ stopWaiters' = {}
SetRestarting == st' = [st EXCEPT !.running = TRUE, !.restarting = TRUE] /\ stopWaiters' = {}

\* restartManager.Cancel, through Container.ExitOnNext
ExitOnNext == canceled' = IF mgr = 0 THEN canceled ELSE canceled \cup {mgr}

Request(p, j, where) ==
  /\ At(p, "idle") /\ registered /\ j \in lifeLoad.jobs
  /\ Proceed(p, where) /\ rjob' = [rjob EXCEPT ![p] = j]
  /\ UNCHANGED <<cLocks, life, rm, restarts, lib, containerd, bounds>>
-----------------------------------------------------------------------------
\* containerStart: the checks
StartLockIf(p, removed) ==
  /\ At(p, "start") /\ cL = NoOne
  /\ \/ /\ st.running
        /\ Proceed(p, "started")
        /\ UNCHANGED <<cL, mgr, rjob, creates>>
     \/ /\ ~st.running /\ (removed \/ creates = MaxCreates)
        /\ ReturnC(p)
        /\ UNCHANGED <<cL, mgr, creates>>
     \/ /\ ~st.running /\ ~removed /\ creates < MaxCreates
        /\ creates' = creates + 1 /\ mgr' = creates'
        /\ cL' = p /\ Proceed(p, "create")
        /\ UNCHANGED rjob
  /\ UNCHANGED <<clL, life, rm, canceled, active, backoff, loop, lib, containerd,
                 exits, execsMade, lifeLoad>>

\* Fault: a container that has been removed is started.
StartLock_Dead(p) == StartLockIf(p, removing)

StartLock(p) == StartLockIf(p, removing \/ dead)

\* client.Create refuses, or containerd does: containerStart fails
CreateFails(p) ==
  /\ At(p, "create") /\ clL = NoOne
  /\ object # 0 \/ init # "none" \/ "create" \in lifeLoad.refusals
  /\ cL' = NoOne /\ ReturnC(p)
  /\ UNCHANGED <<clL, life, rm, restarts, lib, containerd, bounds>>

\* client.Create, container.start: the object is in the map before its process runs
Create(p) ==
  /\ At(p, "create") /\ clL = NoOne
  /\ object = 0 /\ init = "none"
  /\ object' = mgr
  /\ init' = "running" /\ killed' = FALSE
  /\ clL' = p /\ Proceed(p, "attach")
  /\ UNCHANGED <<cL, life, rm, restarts, q, found, monitor, execs, stream, rjob, bounds>>

\* container.start: AttachStreams, and StateChanged of a start
StateStart(p) ==
  /\ At(p, "attach")
  /\ SetRunning
  /\ cL' = NoOne /\ clL' = NoOne /\ Proceed(p, "started")
  /\ UNCHANGED <<rm, restarts, lib, containerd, rjob, bounds>>

\* AttachStreams fails: Create drops the object and containerStart fails
AttachFails(p) ==
  /\ At(p, "attach") /\ "attach" \in lifeLoad.refusals
  /\ object' = 0
  /\ cL' = NoOne /\ clL' = NoOne /\ ReturnC(p)
  /\ UNCHANGED <<life, rm, restarts, q, found, monitor, containerd, bounds>>

StartReturns(p) ==
  /\ At(p, "started")
  /\ ReturnC(p)
  /\ UNCHANGED <<cLocks, life, rm, restarts, lib, containerd, bounds>>
-----------------------------------------------------------------------------
\* Where containerStop goes on success, and Kill.
AfterStop(p) == CASE rjob[p] = "restart" -> "start"
                  [] rjob[p] \in {"rm", "rm -f"} -> "dead"
                  [] OTHER -> "stopped"
AfterKill(p) == IF rjob[p] = "rm -f" THEN "stop" ELSE AfterStop(p)

\* containerStop: IsRunning
StopCheck(p) ==
  /\ At(p, "stop") /\ cL = NoOne
  /\ Proceed(p, IF st.running THEN "signal" ELSE AfterStop(p))
  /\ rjob' = [rjob EXCEPT ![p] = IF @ = "rm -f" THEN "rm" ELSE @]
  /\ UNCHANGED <<cLocks, life, rm, restarts, lib, containerd, bounds>>

\* killWithSignal: a paused or stopped container is refused; a restarting one is only
\* told not to start again
KillWithSignal(p, from, held, done, refused) ==
  /\ At(p, from) /\ cL = NoOne
  /\ \/ (st.paused \/ ~st.running) /\ Proceed(p, refused) /\ UNCHANGED <<cL, canceled>>
     \/ /\ ~st.paused /\ st.running /\ st.restarting
        /\ ExitOnNext /\ Proceed(p, done) /\ UNCHANGED cL
     \/ /\ ~st.paused /\ st.running /\ ~st.restarting
        /\ ExitOnNext /\ Proceed(p, held) /\ cL' = p
  /\ UNCHANGED <<clL, life, rm, mgr, active, backoff, loop, lib, containerd, rjob, bounds>>

\* client.Signal; that containerd does not know the process is no error
Signal(p, from, done, kill) ==
  /\ At(p, from) /\ clL = NoOne
  /\ killed' = (killed \/ (kill /\ init # "none"))
  /\ cL' = NoOne /\ Proceed(p, done)
  /\ UNCHANGED <<clL, life, rm, restarts, lib, init, execs, stream, rjob, bounds>>

\* containerStop: the stop signal, and SIGKILL when it cannot be sent
StopSignal(p) ==
  \/ KillWithSignal(p, "signal", "signalling", "wait", "signal9")
  \/ Signal(p, "signalling", "wait", FALSE)
  \/ KillWithSignal(p, "signal9", "signalling9", "wait", "failed")
  \/ Signal(p, "signalling9", "wait", TRUE)

\* State.WaitStop: the state is read, then the channel is waited for
WaitStop(p, from, waiting, done) ==
  /\ At(p, from) /\ cL = NoOne
  /\ IF st.running THEN Proceed(p, waiting) /\ stopWaiters' = stopWaiters \cup {p}
                   ELSE Proceed(p, done) /\ UNCHANGED stopWaiters
  /\ UNCHANGED <<cLocks, st, rm, restarts, lib, containerd, rjob, bounds>>

Woken(p, waiting, done) ==
  /\ At(p, waiting) /\ p \notin stopWaiters
  /\ Proceed(p, done)
  /\ UNCHANGED <<cLocks, life, rm, restarts, lib, containerd, rjob, bounds>>

\* The waits of 2 to 10 seconds are longer than the library takes to report what has
\* happened, and than a killed process takes to exit.
Settled ==
  /\ stream = <<>> /\ found = NoOne /\ q = <<>>
  /\ killed => init = "paused"
  /\ \A o \in Objs : loop[o] # "none" => backoff[o] = "pending" /\ o \notin canceled

TimesOut(p, waiting, late) ==
  /\ At(p, waiting) /\ p \in stopWaiters
  /\ Settled
  /\ stopWaiters' = stopWaiters \ {p} /\ Proceed(p, late)
  /\ UNCHANGED <<cLocks, st, rm, restarts, lib, containerd, rjob, bounds>>

\* containerStop: wait, then Kill; when Kill fails, wait for ever
StopWait(p) ==
  \/ WaitStop(p, "wait", "waiting", AfterStop(p))
  \/ Woken(p, "waiting", AfterStop(p))
  \/ WaitStop(p, "wait more", "waiting more", AfterStop(p))
  \/ Woken(p, "waiting more", AfterStop(p))

StopTimesOut(p) == TimesOut(p, "waiting", "kill")

\* Kill inside containerStop falls back to waiting; elsewhere its error is returned.
KillError(p) == IF rjob[p] \in {"kill", "rm -f"} THEN "failed" ELSE "wait more"

\* Kill: IsRunning, SIGKILL, and the second look after a refusal
KillCheck(p) ==
  /\ At(p, "kill") /\ cL = NoOne
  /\ Proceed(p, IF st.running THEN "kill9" ELSE KillError(p))
  /\ UNCHANGED <<cLocks, life, rm, restarts, lib, containerd, rjob, bounds>>

Kill(p) ==
  \/ KillCheck(p)
  \/ KillWithSignal(p, "kill9", "killing9", "direct", "refused")
  \/ Signal(p, "killing9", "direct", TRUE)
  \/ WaitStop(p, "refused", "refused waiting", "direct")
  \/ Woken(p, "refused waiting", "refused again")
  \/ WaitStop(p, "direct", "direct waiting", "last")
  \/ Woken(p, "direct waiting", "last")
  \/ WaitStop(p, "last", "last waiting", AfterKill(p))
  \/ Woken(p, "last waiting", AfterKill(p))

RefusedAgain(p) ==
  /\ At(p, "refused again") /\ cL = NoOne
  /\ Proceed(p, IF st.running THEN KillError(p) ELSE "direct")
  /\ UNCHANGED <<cLocks, life, rm, restarts, lib, containerd, rjob, bounds>>

\* killProcessDirectly: a signal to the process itself; Pid is set while the container
\* is running and not restarting.  Without such a process Kill is done.
KillDirectly(p) ==
  LET pid == st.running /\ ~st.restarting
  IN
  /\ At(p, "direct late") /\ cL = NoOne
  /\ killed' = (killed \/ (pid /\ init # "none"))
  /\ Proceed(p, IF pid /\ init = "none" THEN AfterKill(p) ELSE "last")
  /\ UNCHANGED <<cLocks, life, rm, restarts, lib, init, execs, stream, rjob, bounds>>

KillTimeout(p) == \/ TimesOut(p, "refused waiting", "refused again")
                  \/ TimesOut(p, "direct waiting", "direct late")

StopReturns(p) ==
  /\ rpc[p] \in {"stopped", "failed"} /\ rjob[p] \notin {"rm", "rm -f"}
  /\ ReturnC(p)
  /\ UNCHANGED <<cLocks, life, rm, restarts, lib, containerd, bounds>>
-----------------------------------------------------------------------------
\* containerPause and containerUnpause: the lock is held until the change is reported
PauseCheck(p, kind) ==
  /\ At(p, kind) /\ cL = NoOne
  /\ IF st.running /\ st.paused = (kind = "resume") /\ (kind = "pause" => ~st.restarting)
     THEN cL' = p /\ Proceed(p, kind \o " set") /\ UNCHANGED rjob
     ELSE ReturnC(p) /\ UNCHANGED cL
  /\ UNCHANGED <<clL, life, rm, restarts, lib, containerd, bounds>>

\* client.setState
SetState(p, kind) ==
  LET now == IF kind = "pause" THEN "running" ELSE "paused"
      next == IF kind = "pause" THEN "paused" ELSE "running"
  IN /\ At(p, kind \o " set") /\ clL = NoOne
     /\ IF object # 0 /\ init = now
        THEN /\ init' = next /\ stream' = Append(stream, kind)
             /\ monitor' = monitor \cup {<<kind, p>>}
             /\ Proceed(p, "changing") /\ UNCHANGED <<cL, rjob>>
        ELSE cL' = NoOne /\ ReturnC(p) /\ UNCHANGED <<init, stream, monitor>>
     /\ UNCHANGED <<clL, life, rm, restarts, object, q, found, execs, killed, bounds>>

\* <-chstate
Changed(p) ==
  /\ At(p, "changing") /\ \A w \in monitor : w[2] # p
  /\ cL' = NoOne /\ ReturnC(p)
  /\ UNCHANGED <<clL, life, rm, restarts, lib, containerd, bounds>>

\* getExecConfig: the container runs, is not paused and does not restart
Exec(p) ==
  /\ At(p, "exec") /\ cL = NoOne
  /\ IF st.running /\ ~st.paused /\ ~st.restarting
     THEN Proceed(p, "add process") /\ UNCHANGED rjob
     ELSE ReturnC(p)
  /\ UNCHANGED <<cLocks, life, rm, restarts, lib, containerd, bounds>>

\* client.AddProcess, up to the unlock
AddProcess(p) ==
  /\ At(p, "add process") /\ clL = NoOne
  /\ IF object # 0 /\ init = "running" /\ execsMade < lifeLoad.execs
     THEN /\ execs' = execs + 1 /\ execsMade' = execsMade + 1
          /\ Proceed(p, "attach exec") /\ UNCHANGED rjob
     ELSE ReturnC(p) /\ UNCHANGED <<execs, execsMade>>
  /\ UNCHANGED <<cLocks, life, rm, restarts, lib, init, killed, stream, creates, exits, lifeLoad>>

\* AddProcess: AttachStreams looks the exec up again; when that fails the deferred
\* unlock frees a lock that AddProcess has freed before
AttachExec(p) ==
  /\ At(p, "attach exec") /\ cL = NoOne
  /\ IF st.running /\ ~st.paused /\ ~st.restarting
     THEN Proceed(p, "relock") /\ UNCHANGED <<clL, rjob>>
     ELSE clL' = NoOne /\ ReturnC(p)
  /\ UNCHANGED <<cL, life, rm, restarts, lib, containerd, bounds>>

Relock(p) ==
  /\ At(p, "relock") /\ clL = NoOne
  /\ ReturnC(p)
  /\ UNCHANGED <<cLocks, life, rm, restarts, lib, containerd, bounds>>
-----------------------------------------------------------------------------
\* ContainerRm: SetRemovalInProgress
Rm(p) ==
  /\ At(p, "rm") /\ cL = NoOne
  /\ \/ removing /\ ReturnC(p) /\ UNCHANGED removing
     \/ ~removing /\ registered /\ removing' = TRUE /\ Proceed(p, "clean") /\ UNCHANGED rjob
     \/ ~removing /\ ~registered /\ ReturnC(p) /\ UNCHANGED removing
  /\ UNCHANGED <<cLocks, life, registered, dead, restarts, lib, containerd, bounds>>

\* cleanupContainer: a running container is refused, or killed
RmRunning(p) ==
  /\ At(p, "clean") /\ cL = NoOne
  /\ Proceed(p, CASE ~st.running -> "stop"
               [] st.running /\ rjob[p] = "rm -f" -> "kill"
               [] OTHER -> "failed")
  /\ UNCHANGED <<cLocks, life, rm, restarts, lib, containerd, rjob, bounds>>

\* SetDead
RmDead(p) ==
  /\ At(p, "dead") /\ cL = NoOne
  /\ dead' = TRUE /\ Proceed(p, "unregister")
  /\ UNCHANGED <<cLocks, life, registered, removing, restarts, lib, containerd, rjob, bounds>>

\* The container leaves the indexes
RmUnregister(p) ==
  /\ At(p, "unregister")
  /\ registered' = FALSE /\ Proceed(p, "reset")
  /\ UNCHANGED <<cLocks, life, removing, dead, restarts, lib, containerd, rjob, bounds>>

\* ResetRemovalInProgress, after success or failure
RmReset(p) ==
  /\ At(p, "reset") \/ (At(p, "failed") /\ rjob[p] \in {"rm", "rm -f"})
  /\ cL = NoOne
  /\ removing' = FALSE /\ ReturnC(p)
  /\ UNCHANGED <<cLocks, life, registered, dead, restarts, lib, containerd, bounds>>
-----------------------------------------------------------------------------
\* handleEventStream: the object is looked up before its lock is taken
Recv ==
  /\ found = NoOne /\ stream # <<>>
  /\ found' = IF object = 0 THEN NoOne ELSE <<Head(stream), object>>
  /\ stream' = Tail(stream)
  /\ UNCHANGED <<cLocks, life, rm, restarts, object, q, monitor, init, execs, killed,
                 requests, bounds>>

\* restartManager.ShouldRestart: the answers the policy allows
ShouldRestart(m) ==
  IF m \in canceled \cup active THEN {FALSE}
  ELSE CASE lifeLoad.policy = "no" -> {FALSE}
         [] lifeLoad.policy = "always" -> {TRUE}
         [] OTHER -> BOOLEAN

HandleExit(answers) ==
  LET o == found[2]
  IN /\ \E again \in answers :
          IF again
          THEN /\ active' = active \cup {o}
               /\ backoff' = [backoff EXCEPT ![o] = "pending"]
               /\ Enqueue(<<"restart", o>>)
          ELSE Enqueue(<<"exit", o>>) /\ UNCHANGED <<active, backoff>>
     /\ object' = 0

\* handleEvent: the object leaves the map when its process has exited, and the state
\* change is queued
HandleEvent ==
  /\ found # NoOne /\ clL = NoOne
  /\ IF found[1] = "exit"
     THEN HandleExit(ShouldRestart(found[2]))
     ELSE Enqueue(found) /\ UNCHANGED <<active, backoff, object>>
  /\ found' = NoOne
  /\ UNCHANGED <<cLocks, life, rm, mgr, canceled, loop, monitor, containerd, requests, bounds>>

\* The queued call of StateChanged for an exit or a restart: under the container's lock,
\* and without effect when the container is gone; a restart leaves a goroutine behind
QueueExit ==
  /\ q # <<>> /\ Head(q)[1] \in {"exit", "restart"}
  /\ cL = NoOne
  /\ CASE ~registered -> UNCHANGED life
       [] registered /\ Head(q)[1] = "exit" -> SetStopped
       [] OTHER -> SetRestarting
  /\ loop' = IF Head(q)[1] = "restart" THEN [loop EXCEPT ![Head(q)[2]] = "waiting"] ELSE loop
  /\ q' = Tail(q)
  /\ UNCHANGED <<cLocks, rm, mgr, canceled, active, backoff, object, found, monitor,
                 containerd, requests, bounds>>

\* ... for the exit of an exec
QueueExec ==
  /\ q # <<>> /\ Head(q)[1] = "exec"
  /\ cL = NoOne
  /\ q' = Tail(q)
  /\ UNCHANGED <<cLocks, life, rm, restarts, object, found, monitor, containerd, requests,
                 bounds>>

\* ... for a pause or a resume: the request that waits for it holds the lock
QueueChange ==
  /\ q # <<>> /\ Head(q)[1] \in {"pause", "resume"}
  /\ st' = IF registered THEN [st EXCEPT !.paused = (Head(q)[1] = "pause")] ELSE st
  /\ monitor' = {w \in monitor : w[1] # Head(q)[1]} /\ q' = Tail(q)
  /\ UNCHANGED <<cLocks, stopWaiters, rm, restarts, object, found, containerd, requests, bounds>>

\* ShouldRestart's goroutine: the back-off passes ...
BackoffOver(m) ==
  /\ backoff[m] = "pending"
  /\ backoff' = [backoff EXCEPT ![m] = "over"] /\ active' = active \ {m}
  /\ UNCHANGED <<cLocks, life, rm, mgr, canceled, loop, lib, containerd, requests, bounds>>

\* ... or the manager is canceled
BackoffCanceled(m) ==
  /\ backoff[m] = "pending" /\ m \in canceled
  /\ backoff' = [backoff EXCEPT ![m] = "canceled"]
  /\ UNCHANGED <<cLocks, life, rm, mgr, canceled, active, loop, lib, containerd, requests,
                 bounds>>

LoopQuitWith(o, exit) ==
  /\ loop[o] = "waiting" /\ clL = NoOne
  /\ \/ backoff[o] = "canceled" /\ UNCHANGED object
     \/ /\ backoff[o] = "over" /\ (init # "none" \/ "create" \in lifeLoad.refusals)
        /\ object' = o
  /\ q' = q \o exit
  /\ loop' = [loop EXCEPT ![o] = "none"] /\ backoff' = [backoff EXCEPT ![o] = "none"]
  /\ UNCHANGED <<cLocks, life, rm, mgr, canceled, active, found, monitor, containerd,
                 requests, bounds>>

\* Fault: a canceled restart is not reported.
LoopQuit_Silent(o) == LoopQuitWith(o, <<>>)

\* The restart goroutine: canceled, or refused by containerd, it queues an exit.  A refused
\* object is in the map.
LoopQuit(o) == LoopQuitWith(o, <<<<"exit", o>>>>)

LoopStart(o) ==
  /\ loop[o] = "waiting" /\ clL = NoOne
  /\ backoff[o] = "over" /\ init = "none"
  /\ object' = o /\ init' = "running" /\ killed' = FALSE
  /\ clL' = Loop
  /\ loop' = [loop EXCEPT ![o] = "started"] /\ backoff' = [backoff EXCEPT ![o] = "none"]
  /\ UNCHANGED <<cL, life, rm, mgr, canceled, active, q, found, monitor, execs, stream,
                 requests, bounds>>

\* container.start in the restart goroutine: nobody holds the container's lock for it
LoopState(o) ==
  /\ loop[o] = "started"
  /\ IF registered THEN SetRunning ELSE UNCHANGED life
  /\ clL' = NoOne /\ loop' = [loop EXCEPT ![o] = "none"]
  /\ UNCHANGED <<cL, rm, mgr, canceled, active, backoff, lib, containerd, requests, bounds>>

\* ... or AttachStreams fails, and an exit is queued
LoopAttachFails(o) ==
  /\ loop[o] = "started" /\ "attach" \in lifeLoad.refusals
  /\ Enqueue(<<"exit", o>>)
  /\ clL' = NoOne /\ loop' = [loop EXCEPT ![o] = "none"]
  /\ UNCHANGED <<cL, life, rm, mgr, canceled, active, backoff, object, found, monitor,
                 containerd, requests, bounds>>
-----------------------------------------------------------------------------
\* containerd: the process exits, and its execs with it; a frozen one does not
Exit ==
  /\ init = "running"
  /\ \/ killed /\ UNCHANGED exits
     \/ ~killed /\ exits < lifeLoad.exits /\ exits' = exits + 1
  /\ init' = "none" /\ killed' = FALSE /\ execs' = 0
  /\ stream' = stream \o [i \in 1 .. execs |-> "exec"] \o <<"exit">>
  /\ UNCHANGED <<cLocks, life, rm, restarts, lib, requests, creates, execsMade, lifeLoad>>

ExitExec ==
  /\ init = "running" /\ execs > 0
  /\ execs' = execs - 1 /\ stream' = Append(stream, "exec")
  /\ UNCHANGED <<cLocks, life, rm, restarts, lib, init, killed, requests, bounds>>

BeginRequest(p) ==
  \/ Request(p, "start", "start") /\ creates < MaxCreates
  \/ Request(p, "restart", "stop") /\ creates < MaxCreates
  \/ Request(p, "stop", "stop") \/ Request(p, "kill", "kill")
  \/ Request(p, "pause", "pause") \/ Request(p, "unpause", "resume")
  \/ Request(p, "exec", "exec") /\ execsMade < lifeLoad.execs
  \/ Request(p, "rm", "rm") \/ Request(p, "rm -f", "rm")

Work(p) ==
  \/ StartLock(p) \/ CreateFails(p) \/ Create(p) \/ StateStart(p) \/ AttachFails(p)
  \/ StartReturns(p)
  \/ StopCheck(p) \/ StopSignal(p) \/ StopWait(p) \/ StopReturns(p)
  \/ Kill(p) \/ RefusedAgain(p) \/ KillDirectly(p)
  \/ \E kind \in {"pause", "resume"} : PauseCheck(p, kind) \/ SetState(p, kind)
  \/ Changed(p)
  \/ Exec(p) \/ AddProcess(p) \/ AttachExec(p) \/ Relock(p)
  \/ Rm(p) \/ RmRunning(p) \/ RmDead(p) \/ RmUnregister(p) \/ RmReset(p)

Timeout(p) == StopTimesOut(p) \/ KillTimeout(p)

Lib ==
  \/ Recv \/ HandleEvent \/ QueueExit \/ QueueExec \/ QueueChange
  \/ \E o \in Objs : BackoffCanceled(o) \/ LoopQuit(o) \/ LoopStart(o) \/ LoopState(o)
                   \/ LoopAttachFails(o)

LifeNext ==
  \/ \E p \in Callers : BeginRequest(p) \/ Work(p) \/ Timeout(p)
  \/ Lib \/ \E o \in Objs : BackoffOver(o)
  \/ Exit \/ ExitExec

LifeSpec == LifeInit /\ [][LifeNext]_lifeVars

\* Every request is worked on and what is queued is run; a back-off and a wait end, and a
\* process that was sent SIGKILL exits.  A mutex may pass a waiter over for as long as
\* others come, so the clients stop asking at some point.
LifeFairness ==
  /\ \A p \in Callers : WF_lifeVars(Work(p)) /\ WF_lifeVars(Timeout(p))
  /\ WF_lifeVars(Lib) /\ \A o \in Objs : WF_lifeVars(BackoffOver(o))
  /\ WF_lifeVars(killed /\ Exit)
  /\ <>[][\A p \in Callers : ~BeginRequest(p)]_lifeVars

LifeFairSpec == LifeSpec /\ LifeFairness
-----------------------------------------------------------------------------
\* The daemon and containerd agree once nothing is under way: the state says running
\* exactly when there is a process, paused exactly when it is frozen, and libcontainerd
\* has an object exactly for a process.  Not after a refusal: a start that fails late
\* leaves its object or its process behind.
Quiet == /\ stream = <<>> /\ q = <<>> /\ found = NoOne
         /\ cL = NoOne /\ clL = NoOne
         /\ \A o \in Objs : loop[o] = "none"

Agreement ==
  (Quiet /\ registered /\ lifeLoad.refusals = {}) =>
    /\ ~st.restarting
    /\ st.running <=> init # "none"
    /\ st.paused <=> init = "paused"
    /\ object # 0 <=> init # "none"

\* "Mark container dead. We don't want anybody to be restarting it" (delete.go:99): a
\* container that was removed has no process, whatever was starting or restarting it,
\* unless the streams of a start could not be attached.
RemovedHasNoProcess == (~registered /\ lifeLoad.refusals = {}) => init = "none"

\* "ContainerRestart stops and starts a container" (restart.go:9): a container that is
\* always restarted runs after it.
RestartRuns == \A p \in Callers :
  (At(p, "started") /\ rjob[p] = "restart") ~> (st.running /\ init = "running")

\* Every request ends (of a container that is started once: an automatic restart may leave
\* Kill waiting), if the process in the container is not paused for ever: Kill waits for a
\* paused one.
RequestsEnd == \A p \in Callers : []<>(At(p, "idle") \/ init = "paused")

\* containerPause ends: "The execution can be resumed by calling containerUnpause"
\* (pause.go:24).
PauseEnds == \A p \in Callers : (rpc[p] \in {"pause set", "changing"}) ~> At(p, "idle")
=============================================================================
