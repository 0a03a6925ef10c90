------------------------------- MODULE Health --------------------------------
(***************************************************************************)
(* The health-check monitor of one container: daemon/health.go,            *)
(* container/health.go, their callers in daemon/monitor.go and             *)
(* daemon/stop.go, and the probes of daemon/exec.go they run.              *)
(*                                                                         *)
(* Three threads start and stop the monitor: the queue of libcontainerd's  *)
(* events ("queue"), a start or automatic restart ("start") and docker     *)
(* stop ("stop").  They hold the container's lock or not as the code does. *)
(* A monitor and its stop channel have the same number.                    *)
(***************************************************************************)
EXTENDS Integers, FiniteSets

CONSTANTS HlMax,     \* monitors ever started
          HlLoads    \* scenarios: [turns, ticks, stops, what, retries]

Monitors == 1..HlMax
Threads == {"queue", "start", "stop"}
Nobody == "nobody"

VARIABLES hlLoad,    \* the scenario; never changes
          cstate,    \* of the container: created, running, paused, restarting, exited
          owner,     \* the thread that holds the container's lock across a step, or Nobody
          stopCh,    \* Health.stop: a monitor's number, or 0 for nil
          thread,    \* thread -> [at, ch, next]: inside CloseMonitorChannel and after
          mon,       \* monitor -> new, idle, probing, result, late, wait, end
          probe,     \* monitor -> none, running, good, bad: its probe goroutine
          health,    \* [made, status, streak]: Container.State.Health
          hspent

hlVars == <<hlLoad, cstate, owner, stopCh, thread, mon, probe, health, hspent>>

Quiescent == [at |-> "idle", ch |-> 0, next |-> "none"]
GotoT(t, l) == thread' = [thread EXCEPT ![t].at = l]
Spend(k) == hspent[k] < hlLoad[k] /\ hspent' = [hspent EXCEPT ![k] = @ + 1]

\* The thread is done: it returns and gives up the container's lock.
Done(t) ==
    /\ thread' = [thread EXCEPT ![t] = Quiescent]
    /\ owner' = IF owner = t THEN Nobody ELSE owner

-----------------------------------------------------------------------------
(* OpenMonitorChannel and CloseMonitorChannel.  The field is read twice,   *)
(* and it is not protected by a lock of its own.                           *)

CloseCheck(t) ==
    /\ thread[t].at = "close"
    /\ IF stopCh # 0 THEN GotoT(t, "eval") /\ UNCHANGED owner
       ELSE IF thread[t].next = "open" THEN GotoT(t, "open") /\ UNCHANGED owner
       ELSE Done(t)
    /\ UNCHANGED <<hlLoad, cstate, stopCh, mon, probe, health, hspent>>

CloseEval(t) ==
    /\ thread[t].at = "eval"
    /\ thread' = [thread EXCEPT ![t].at = "send", ![t].ch = stopCh]
    /\ UNCHANGED <<hlLoad, cstate, owner, stopCh, mon, probe, health, hspent>>

\* Fault: the channel is closed; its monitor sees that later.
CloseSend_Async(t) ==
    /\ thread[t].at = "send" /\ thread[t].ch # 0
    /\ GotoT(t, "nil")
    /\ UNCHANGED <<hlLoad, cstate, owner, stopCh, mon, probe, health, hspent>>

\* The channel does not buffer: the monitor must be at one of its selects.
CloseSend(t) ==
    /\ thread[t].at = "send" /\ thread[t].ch # 0
    /\ mon[thread[t].ch] \in {"idle", "probing"}
    /\ mon' = [mon EXCEPT ![thread[t].ch] = "end"]
    /\ GotoT(t, "nil")
    /\ UNCHANGED <<hlLoad, cstate, owner, stopCh, probe, health, hspent>>

CloseNil(t) ==
    /\ thread[t].at = "nil"
    /\ stopCh' = 0
    /\ IF thread[t].next = "open" THEN GotoT(t, "open") /\ UNCHANGED owner ELSE Done(t)
    /\ UNCHANGED <<hlLoad, cstate, mon, probe, health, hspent>>

\* The rest of initHealthMonitor and updateHealthMonitor when a monitor is
\* wanted.  initHealthMonitor makes the health state when there is none.
OpenMonitorChannel(t) ==
    /\ thread[t].at = "open"
    /\ health' = [health EXCEPT !.made = TRUE]
    /\ IF stopCh # 0 THEN UNCHANGED <<stopCh, mon>>
       ELSE \E m \in Monitors :
                /\ mon[m] = "new" /\ \A k \in 1..(m-1) : mon[k] # "new"
                /\ stopCh' = m /\ mon' = [mon EXCEPT ![m] = "idle"]
    /\ Done(t)
    /\ UNCHANGED <<hlLoad, cstate, probe, hspent>>

-----------------------------------------------------------------------------
(* The handlers of StateChanged.                                           *)

wantRunning(s) == s \in {"running", "restarting"}

\* updateHealthMonitor, on its way to Open or to CloseMonitorChannel; it
\* returns at once when the container never had a health state.
Update(t, locked, s) ==
    /\ cstate' = s
    /\ IF ~health.made THEN UNCHANGED <<thread, owner>>
       ELSE /\ thread' = [thread EXCEPT ![t].at = IF wantRunning(s) THEN "open" ELSE "close"]
            /\ owner' = IF locked THEN t ELSE owner

\* StateStart with the lock of ContainerStart, or, in an automatic restart,
\* without it: initHealthMonitor stops the old monitor and opens a new one.
StateStart ==
    /\ thread["start"].at = "idle" /\ cstate \in {"created", "exited", "restarting"}
    /\ Spend("turns")
    /\ IF cstate = "restarting" THEN thread["queue"].at = "idle" ELSE owner = Nobody
    /\ owner' = IF cstate = "restarting" THEN owner ELSE "start"
    /\ cstate' = "running"
    /\ thread' = [thread EXCEPT !["start"] =
                      [@ EXCEPT !.at = IF health.made THEN "close" ELSE "open", !.next = "open"]]
    /\ UNCHANGED <<hlLoad, stopCh, mon, probe, health>>

\* StateExit and StateRestart take the lock; StatePause and StateResume come
\* while the API request holds it; StateOOM takes none.
Event(what) ==
    /\ thread["queue"].at = "idle" /\ what \in hlLoad.what /\ Spend("turns")
    /\ what # "oom" => owner = Nobody
    /\ \/ what = "exit" /\ cstate \in {"running", "paused", "restarting"}
          /\ Update("queue", TRUE, "exited")
       \/ what = "restart" /\ cstate = "running" /\ Update("queue", TRUE, "restarting")
       \/ what = "pause" /\ cstate = "running" /\ Update("queue", TRUE, "paused")
       \/ what = "resume" /\ cstate = "paused" /\ Update("queue", TRUE, "running")
       \/ what = "oom" /\ cstate = "running" /\ Update("queue", FALSE, "running")
    /\ UNCHANGED <<hlLoad, stopCh, mon, probe, health>>

\* containerStop: stopHealthchecks without the lock.
Stop ==
    /\ thread["stop"].at = "idle" /\ cstate \notin {"created", "exited"} /\ health.made
    /\ owner = Nobody
    /\ Spend("stops") /\ GotoT("stop", "close")
    /\ UNCHANGED <<hlLoad, cstate, owner, stopCh, mon, probe, health>>

-----------------------------------------------------------------------------
(* The monitor and its probes.                                             *)

Tick(m) ==
    /\ mon[m] = "idle" /\ Spend("ticks")
    /\ mon' = [mon EXCEPT ![m] = "probing"]
    /\ probe' = [probe EXCEPT ![m] = "running"]
    /\ UNCHANGED <<hlLoad, cstate, owner, stopCh, thread, health>>

\* ContainerExecStart returns when the exit event of the exec has been
\* handled, under the lock and in the events' queue; when it has been
\* cancelled, after termProcessTimeout at the latest; and when the exec cannot
\* be started.
ProbeReturns(m, r) ==
    /\ probe[m] = "running"
    /\ r = "good" => cstate = "running"
    /\ \/ owner = Nobody /\ thread["queue"].at = "idle"
       \/ mon[m] \in {"wait", "end"} /\ r = "bad"
       \/ cstate # "running" /\ r = "bad"
    /\ probe' = [probe EXCEPT ![m] = r]
    /\ UNCHANGED <<hlLoad, cstate, owner, stopCh, thread, mon, health, hspent>>

Result(m) ==
    /\ mon[m] = "probing" /\ probe[m] \in {"good", "bad"}
    /\ mon' = [mon EXCEPT ![m] = "result"]
    /\ UNCHANGED <<hlLoad, cstate, owner, stopCh, thread, probe, health, hspent>>

Timeout(m) ==
    /\ mon[m] = "probing"
    /\ mon' = [mon EXCEPT ![m] = "late"]
    /\ UNCHANGED <<hlLoad, cstate, owner, stopCh, thread, probe, health, hspent>>

handleProbeResult(good) ==
    health' = IF good THEN [health EXCEPT !.streak = 0, !.status = "healthy"]
              ELSE [health EXCEPT
                       !.streak = @ + 1,
                       !.status = IF health.streak + 1 >= hlLoad.retries THEN "unhealthy" ELSE @]

Handle(m) ==
    /\ mon[m] \in {"result", "late"} /\ owner = Nobody
    /\ handleProbeResult(mon[m] = "result" /\ probe[m] = "good")
    /\ mon' = [mon EXCEPT ![m] = IF mon[m] = "result" THEN "idle" ELSE "wait"]
    /\ UNCHANGED <<hlLoad, cstate, owner, stopCh, thread, probe, hspent>>

\* After a timeout: wait for the probe to exit.
Waited(m) ==
    /\ mon[m] = "wait" /\ probe[m] \in {"good", "bad"}
    /\ mon' = [mon EXCEPT ![m] = "idle"]
    /\ UNCHANGED <<hlLoad, cstate, owner, stopCh, thread, probe, health, hspent>>

-----------------------------------------------------------------------------
HlInit ==
    /\ hlLoad \in HlLoads
    /\ cstate = "created" /\ owner = Nobody /\ stopCh = 0
    /\ thread = [t \in Threads |-> Quiescent]
    /\ mon = [m \in Monitors |-> "new"] /\ probe = [m \in Monitors |-> "none"]
    /\ health = [made |-> FALSE, status |-> "starting", streak |-> 0]
    /\ hspent = [turns |-> 0, ticks |-> 0, stops |-> 0]

Closes(t) == CloseCheck(t) \/ CloseEval(t) \/ CloseSend(t) \/ CloseNil(t) \/ OpenMonitorChannel(t)
Probing(m) == (\E r \in {"good", "bad"} : ProbeReturns(m, r)) \/ Result(m) \/ Handle(m) \/ Waited(m)

HlNext ==
    \/ \E t \in Threads : Closes(t)
    \/ \E m \in Monitors : Tick(m) \/ Timeout(m) \/ Probing(m)
    \/ \E what \in {"exit", "restart", "pause", "resume", "oom"} : Event(what)
    \/ StateStart \/ Stop

\* A goroutine that can go on does, and so does a probe: it ends or the
\* timeout of the monitor ends it.
HlFairness ==
    /\ \A t \in Threads : WF_hlVars(Closes(t))
    /\ \A m \in Monitors : WF_hlVars(Probing(m)) /\ WF_hlVars(Timeout(m))

HlSpec == HlInit /\ [][HlNext]_hlVars /\ HlFairness

-----------------------------------------------------------------------------
\* At most one monitor is alive, and it is the one the channel of the health
\* state stops: a monitor that is not can never be stopped and would go on
\* updating the health of later runs of the container.  CloseMonitorChannel
\* waits for the monitor, OpenMonitorChannel starts one only when the field is
\* nil, and neither is serialised by a lock of its own.
OneMonitor ==
    \A m \in Monitors : mon[m] \notin {"new", "end"} => stopCh = m

\* updateHealthMonitor returns: a handler of the container's events that stops
\* the monitor is not kept waiting for it forever.
HandlerReturns == \A t \in {"queue", "start"} : (thread[t].at # "idle") ~> (thread[t].at = "idle")
=============================================================================
