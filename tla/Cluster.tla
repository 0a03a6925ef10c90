------------------------------- MODULE Cluster -------------------------------
(***************************************************************************)
(* The swarm node of a daemon: daemon/cluster/cluster.go.                  *)
(*                                                                         *)
(* Init, Join, Leave and the daemon's Cleanup start and stop a swarmkit    *)
(* node under the cluster's lock, which stopNode gives up while the node   *)
(* shuts down.  Each node has a goroutine that waits for its end, and a    *)
(* node that was started successfully has a supervisor (reconnectOnFailure)*)
(* that starts a new one after a delay.  The swarmkit node is external: it *)
(* gets ready, fails, or ends after Stop.                                  *)
(***************************************************************************)
EXTENDS Integers, FiniteSets

CONSTANTS ClReqs,    \* API requests in progress
          ClMax,     \* node instances, in the order they are started
          ClLoads,
          NoNode

ClNodes == 1..ClMax

VARIABLES clLoad,    \* the scenario; never changes
          cnode,     \* Cluster.node, or NoNode
          cstop,     \* Cluster.stop
          cdelay,    \* the supervisor cancelDelay would cancel, or NoNode
          remote,    \* Cluster.remoteAddr is known
          disk,      \* [state, remote, cert] of the swarm directory
          nstat,     \* node instance -> new, running, exited, done
          nready,    \* instances whose Ready channel is closed
          sup,       \* supervisor, named after its first node -> [at, n]
          clpc, creq,
          readers,   \* requests that hold the lock for reading (Info)
          pend,      \* a writer waits for them
          cpanic,    \* close(n.done) of a node that could not be started
          wish,      \* of the last request to succeed: a node, left, or none
          leavers,   \* Leaves in progress since which nobody asked for a node
          doubled,   \* a forced Init started a node beside another
          cspent

clVars == <<clLoad, cnode, cstop, cdelay, remote, disk, nstat, nready, sup,
            clpc, creq, readers, pend, cpanic, wish, leavers, doubled, cspent>>
history == <<leavers, doubled>>
nodeVars == <<cnode, cstop, cdelay, remote, disk, nstat, nready>>

Unused == {n \in ClNodes : nstat[n] = "new"}
Live(n) == nstat[n] = "running"
Ended(n) == nstat[n] = "done"

GotoC(p, l) == clpc' = [clpc EXCEPT ![p] = l]
Fault(k) == cspent.faults < clLoad.faults /\ k \in clLoad.kinds
            /\ cspent' = [cspent EXCEPT !.faults = @ + 1]

\* Lock: nobody reads.
Writing == readers = {} /\ ~cpanic

-----------------------------------------------------------------------------
(* startNewNode.  joinRemote: the remote address it is given is not empty. *)

Started(n, joinRemote) ==
    /\ n \in Unused /\ \A m \in Unused : n <= m
    /\ cnode' = n /\ cstop' = FALSE /\ cdelay' = NoNode
    /\ remote' = joinRemote
    /\ disk' = [disk EXCEPT !.state = TRUE, !.remote = joinRemote]
    /\ nstat' = [nstat EXCEPT ![n] = "running"]
    /\ UNCHANGED nready

\* NewNode or Start fails, when the fields have been reset already.
NotStarted ==
    /\ cnode' = NoNode /\ cstop' = FALSE /\ cdelay' = NoNode
    /\ UNCHANGED <<remote, disk, nstat, nready>>

clearState == [state |-> FALSE, remote |-> FALSE, cert |-> FALSE]

-----------------------------------------------------------------------------
(* Requests.                                                               *)

AskC(p, what) ==
    /\ clpc[p] = "idle" /\ what \in clLoad.what /\ cspent.reqs < clLoad.reqs /\ Writing
    /\ clpc["boot"] = "up"
    /\ clLoad.calm /\ what \in {"init", "join"} => \A s \in ClNodes : sup[s].at = "end"
    /\ cspent' = [cspent EXCEPT !.reqs = @ + 1]

\* stopNode up to the point where it gives up the lock.
Stopping(p, what) ==
    /\ cstop' = TRUE /\ cdelay' = NoNode
    /\ sup' = [s \in ClNodes |-> IF s = cdelay THEN [sup[s] EXCEPT !.at = "end"] ELSE sup[s]]
    /\ creq' = [creq EXCEPT ![p] = [what |-> what, n |-> cnode]]
    /\ GotoC(p, "stop")
    /\ wish' = IF what = "cleanup" THEN wish ELSE "none"
    /\ leavers' = IF what = "leave" THEN leavers \cup {p} ELSE leavers
    /\ UNCHANGED <<cnode, remote, disk, nstat, nready, doubled>>

\* Init: of a new cluster, or of one that takes over the node (force).
ClInit(p) ==
    /\ AskC(p, "init")
    /\ \E force \in BOOLEAN :
         IF cnode # NoNode
         THEN IF force THEN Stopping(p, "force")
              ELSE UNCHANGED <<nodeVars, sup, clpc, creq, wish, history>>
         ELSE \E n \in Unused :
                /\ Started(n, FALSE)
                /\ creq' = [creq EXCEPT ![p] = [what |-> IF force THEN "force" ELSE "init", n |-> n]]
                /\ GotoC(p, "wait") /\ wish' = "none" /\ leavers' = {} /\ UNCHANGED <<sup, doubled>>
    /\ UNCHANGED <<clLoad, readers, pend, cpanic>>

Join(p) ==
    /\ AskC(p, "join")
    /\ IF cnode # NoNode
       THEN UNCHANGED <<nodeVars, clpc, creq, wish, leavers>>
       ELSE \E n \in Unused :
              /\ Started(n, TRUE) /\ wish' = "none" /\ leavers' = {}
              /\ creq' = [creq EXCEPT ![p] = [what |-> "join", n |-> n]]
              /\ GotoC(p, "wait")
    /\ UNCHANGED <<clLoad, sup, readers, pend, cpanic, doubled>>

\* Leave, forced or on a worker.
Leave(p) ==
    /\ AskC(p, "leave")
    /\ IF cnode = NoNode
       THEN UNCHANGED <<nodeVars, sup, clpc, creq, wish, history>>
       ELSE Stopping(p, "leave")
    /\ UNCHANGED <<clLoad, readers, pend, cpanic>>

\* node.Stop gives up after 15 seconds: the request fails, stop stays set;
\* Cleanup does not look at the error.
StopTimeout(p) ==
    /\ clpc[p] = "stop" /\ ~Ended(creq[p].n) /\ Fault("stop")
    /\ GotoC(p, IF creq[p].what = "cleanup" THEN "gone" ELSE "idle")
    /\ leavers' = leavers \ {p}
    /\ UNCHANGED <<clLoad, nodeVars, sup, creq, readers, pend, cpanic, wish, doubled>>

\* The node is done: Leave drops the lock once more before it removes the state; a forced
\* Init starts its node, and does not look whether somebody started one meanwhile ...
StopDone(p) ==
    /\ clpc[p] = "stop" /\ Ended(creq[p].n) /\ Writing
    /\ IF creq[p].what = "leave"
       THEN GotoC(p, "clear") /\ UNCHANGED <<nodeVars, creq, wish, history>>
       ELSE IF creq[p].what = "cleanup"
       THEN GotoC(p, "gone") /\ UNCHANGED <<nodeVars, creq, wish, history>>
       ELSE \E n \in Unused :
              /\ Started(n, FALSE) /\ wish' = "none" /\ leavers' = {}
              /\ doubled' = (doubled \/ \E m \in ClNodes : Live(m))
              /\ creq' = [creq EXCEPT ![p] = [what |-> "force", n |-> n]]
              /\ GotoC(p, "wait")
    /\ UNCHANGED <<clLoad, sup, readers, pend, cpanic, cspent>>

\* ... without it.
LeaveClear(p) ==
    /\ clpc[p] = "clear" /\ ~cpanic
    /\ disk' = clearState /\ wish' = IF p \in leavers THEN "left" ELSE wish
    /\ leavers' = leavers \ {p}
    /\ GotoC(p, "idle")
    /\ UNCHANGED <<clLoad, cnode, cstop, cdelay, remote, nstat, nready, sup, creq,
                   readers, pend, cpanic, doubled, cspent>>

\* Fault: the node is left without a supervisor.
WaitStarted_Unsupervised(p) ==
    /\ clpc[p] = "wait" /\ ~cpanic
    /\ LET n == creq[p].n
       IN  n \in nready \/ (creq[p].what \in {"join", "boot"} /\ ~Ended(n))
    /\ wish' = "node"
    /\ GotoC(p, IF p = "boot" THEN "up" ELSE "idle")
    /\ UNCHANGED <<clLoad, history, nodeVars, sup, creq, readers, pend, cpanic, cspent>>

\* Init, Join and New wait: for Ready (a channel that stays closed), or, not
\* Init, for 20 seconds; then the supervisor is started.  (wish: not for a node that
\* another request has stopped or replaced meanwhile.)
WaitStarted(p) ==
    /\ clpc[p] = "wait" /\ ~cpanic
    /\ LET n == creq[p].n
       IN  /\ n \in nready \/ (creq[p].what \in {"join", "boot"} /\ ~Ended(n))
           /\ sup' = [sup EXCEPT ![n] = [at |-> "watch", n |-> n]]
    /\ wish' = IF ~cstop /\ creq[p].n + 1 \notin ClNodes \ Unused THEN "node" ELSE wish
    /\ GotoC(p, IF p = "boot" THEN "up" ELSE "idle")
    /\ UNCHANGED <<clLoad, history, nodeVars, creq, readers, pend, cpanic, cspent>>

\* Or the node ended: Init forgets the state of a cluster that never was, and
\* the daemon does not start.
WaitEnded(p) ==
    /\ clpc[p] = "wait" /\ ~cpanic /\ Ended(creq[p].n)
    /\ disk' = IF creq[p].what = "init" THEN clearState ELSE disk
    /\ GotoC(p, IF p = "boot" THEN "down" ELSE "idle")
    /\ UNCHANGED <<clLoad, history, cnode, cstop, cdelay, remote, nstat, nready, sup, creq,
                   readers, pend, cpanic, wish, cspent>>

-----------------------------------------------------------------------------
(* The node (external) and the goroutines of startNewNode.                 *)

NodeReady(n) ==
    /\ Live(n) /\ n \notin nready /\ Writing
    /\ nready' = nready \cup {n}
    /\ disk' = [disk EXCEPT !.cert = TRUE]
    /\ UNCHANGED <<clLoad, history, cnode, cstop, cdelay, remote, nstat, sup, clpc, creq,
                   readers, pend, cpanic, wish, cspent>>

\* n.Err returns: the node failed, or was stopped.  The goroutine clears
\* Cluster.node, whichever node it is by now ...
NodeExit(n) ==
    /\ Live(n) /\ Writing
    /\ IF cstop \/ \E p \in ClReqs : clpc[p] = "stop" /\ creq[p].n = n THEN UNCHANGED cspent
       ELSE Fault("node")
    /\ nstat' = [nstat EXCEPT ![n] = "exited"]
    /\ cnode' = NoNode
    /\ UNCHANGED <<clLoad, history, cstop, cdelay, remote, disk, nready, sup, clpc, creq,
                   readers, pend, cpanic, wish>>

\* ... and closes done.
NodeDone(n) ==
    /\ nstat[n] = "exited" /\ ~cpanic
    /\ nstat' = [nstat EXCEPT ![n] = "done"]
    /\ UNCHANGED <<clLoad, history, cnode, cstop, cdelay, remote, disk, nready, sup, clpc, creq,
                   readers, pend, cpanic, wish, cspent>>

-----------------------------------------------------------------------------
(* reconnectOnFailure.                                                     *)

SupWake(s) ==
    /\ sup[s].at = "watch" /\ Ended(sup[s].n) /\ Writing
    /\ IF cstop \/ cnode # NoNode
       THEN sup' = [sup EXCEPT ![s].at = "end"] /\ UNCHANGED cdelay
       ELSE sup' = [sup EXCEPT ![s].at = "delay"] /\ cdelay' = s
    /\ UNCHANGED <<clLoad, history, cnode, cstop, remote, disk, nstat, nready, clpc, creq,
                   readers, pend, cpanic, wish, cspent>>

\* Fault: another node may be there after the delay.
SupRestart_Blind(s) ==
    /\ sup[s].at = "delay" /\ Writing
    /\ \E n \in Unused : Started(n, FALSE) /\ sup' = [sup EXCEPT ![s] = [at |-> "watch", n |-> n]]
    /\ UNCHANGED <<clLoad, history, clpc, creq, readers, pend, cpanic, wish, cspent>>

\* getRemoteAddress is empty: Cluster.node is nil here.  When the node cannot
\* be started, n is nil and close(n.done) panics.
SupRestart(s) ==
    /\ sup[s].at = "delay" /\ Writing
    /\ \/ /\ cnode # NoNode
          /\ sup' = [sup EXCEPT ![s].at = "end"] /\ UNCHANGED <<nodeVars, cpanic, cspent>>
       \/ /\ cnode = NoNode
          /\ \E n \in Unused : /\ Started(n, FALSE)
                               /\ sup' = [sup EXCEPT ![s] = [at |-> "watch", n |-> n]]
          /\ UNCHANGED <<cpanic, cspent>>
       \/ /\ cnode = NoNode /\ Fault("start")
          /\ NotStarted /\ cpanic' = TRUE /\ UNCHANGED sup
    /\ UNCHANGED <<clLoad, history, clpc, creq, readers, pend, wish>>

-----------------------------------------------------------------------------
(* The daemon goes down and comes up again.                                *)

\* Cleanup, on SIGTERM; there is nothing to stop while a supervisor waits.
Cleanup(p) ==
    /\ AskC(p, "cleanup")
    /\ IF cnode = NoNode
       THEN GotoC(p, "gone") /\ UNCHANGED <<nodeVars, sup, creq, wish, history>>
       ELSE Stopping(p, "cleanup")
    /\ UNCHANGED <<clLoad, readers, pend, cpanic>>

Dying == cpanic \/ \E p \in ClReqs : clpc[p] = "gone"

\* The process ends: after Cleanup, by the panic, or killed.
Down ==
    /\ clpc["boot"] # "down"
    /\ \/ Dying /\ UNCHANGED cspent
       \/ Fault("kill")
    /\ clpc' = [p \in ClReqs \cup {"boot"} |-> IF p = "boot" THEN "down" ELSE "idle"]
    /\ cnode' = NoNode /\ cstop' = FALSE /\ cdelay' = NoNode /\ remote' = FALSE
    /\ nstat' = [n \in ClNodes |-> IF n \in Unused THEN "new" ELSE "done"]
    /\ sup' = [s \in ClNodes |-> [sup[s] EXCEPT !.at = "end"]]
    /\ readers' = {} /\ pend' = FALSE /\ cpanic' = FALSE
    /\ leavers' = {} /\ doubled' = FALSE
    /\ UNCHANGED <<clLoad, disk, nready, creq, wish>>

\* New: without a certificate there is no state to restore from.
Boot ==
    /\ clpc["boot"] = "down"
    /\ IF disk.state /\ disk.cert
       THEN \E n \in Unused :
              /\ Started(n, disk.remote)
              /\ creq' = [creq EXCEPT !["boot"] = [what |-> "boot", n |-> n]]
              /\ GotoC("boot", "wait") /\ UNCHANGED wish
       ELSE /\ disk' = clearState /\ wish' = IF wish = "left" THEN wish ELSE "none"
            /\ GotoC("boot", "up")
            /\ UNCHANGED <<cnode, cstop, cdelay, remote, nstat, nready, creq>>
    /\ UNCHANGED <<clLoad, history, sup, readers, pend, cpanic, cspent>>

-----------------------------------------------------------------------------
(* Info reads under the lock and, on a manager, calls Inspect, which takes *)
(* it again: a writer that came in between has to wait for the one and     *)
(* holds up the other.                                                     *)

InfoLock(p) ==
    /\ clpc[p] = "idle" /\ "info" \in clLoad.what /\ ~pend /\ clpc["boot"] = "up" /\ ~cpanic
    /\ cspent.reqs < clLoad.reqs /\ cspent' = [cspent EXCEPT !.reqs = @ + 1]
    /\ readers' = readers \cup {p}
    /\ GotoC(p, IF cnode \in nready THEN "inspect" ELSE "unlock")
    /\ UNCHANGED <<clLoad, history, nodeVars, sup, creq, pend, cpanic, wish>>

WriterWaits ==
    /\ readers # {} /\ ~pend /\ \E n \in ClNodes : Live(n)
    /\ pend' = TRUE
    /\ UNCHANGED <<clLoad, history, nodeVars, sup, clpc, creq, readers, cpanic, wish, cspent>>

InfoInspect(p) ==
    /\ clpc[p] = "inspect" /\ ~pend
    /\ GotoC(p, "unlock")
    /\ UNCHANGED <<clLoad, history, nodeVars, sup, creq, readers, pend, cpanic, wish, cspent>>

InfoUnlock(p) ==
    /\ clpc[p] = "unlock"
    /\ readers' = readers \ {p}
    /\ pend' = (pend /\ readers # {p})
    /\ GotoC(p, "idle")
    /\ UNCHANGED <<clLoad, history, nodeVars, sup, creq, cpanic, wish, cspent>>

-----------------------------------------------------------------------------
(* The specification.                                                      *)

ClInitial ==
    /\ clLoad \in ClLoads
    /\ cnode = NoNode /\ cstop = FALSE /\ cdelay = NoNode /\ remote = FALSE
    /\ disk = clearState
    /\ nstat = [n \in ClNodes |-> "new"] /\ nready = {}
    /\ sup = [s \in ClNodes |-> [at |-> "end", n |-> s]]
    /\ clpc = [p \in ClReqs \cup {"boot"} |-> IF p = "boot" THEN "up" ELSE "idle"]
    /\ creq = [p \in ClReqs \cup {"boot"} |-> [what |-> "none", n |-> NoNode]]
    /\ readers = {} /\ pend = FALSE /\ cpanic = FALSE /\ wish = "none"
    /\ leavers = {} /\ doubled = FALSE
    /\ cspent = [reqs |-> 0, faults |-> 0]

Waiter(p) == StopDone(p) \/ LeaveClear(p) \/ WaitStarted(p) \/ WaitEnded(p)
             \/ InfoInspect(p) \/ InfoUnlock(p)
Supervisor(s) == SupWake(s) \/ SupRestart(s)

ClNext ==
    \/ \E p \in clLoad.procs : ClInit(p) \/ Join(p) \/ Leave(p) \/ Cleanup(p) \/ InfoLock(p)
                               \/ StopTimeout(p)
    \/ \E p \in clLoad.procs \cup {"boot"} : Waiter(p)
    \/ \E n \in ClNodes : NodeReady(n) \/ NodeExit(n) \/ NodeDone(n) \/ Supervisor(n)
    \/ Down \/ Boot \/ WriterWaits

\* Goroutines run, a node that was told to stop ends, timers fire; nothing is
\* assumed of requests, failures or of a node getting ready.
ClFairness ==
    /\ \A p \in ClReqs \cup {"boot"} : WF_clVars(p \in clLoad.procs \cup {"boot"} /\ Waiter(p))
    /\ WF_clVars(cstop /\ \E n \in ClNodes : NodeExit(n))
    /\ WF_clVars(\E n \in ClNodes : NodeDone(n))
    /\ WF_clVars(\E n \in ClNodes : Supervisor(n))
    /\ WF_clVars(Dying /\ Down)
    /\ WF_clVars(Boot)

ClSpec == ClInitial /\ [][ClNext]_clVars /\ ClFairness

-----------------------------------------------------------------------------
(* Properties.                                                             *)

\* At most one swarm node runs, for it owns the state directory, the sockets and the
\* ports: whatever failing nodes, supervisors and two requests at a time do, unless a
\* forced Init, which gives up the lock in stopNode, gets it back after another request
\* has started a node (cluster.go:503-504; the code does not look again).  In a calm
\* scenario nobody asks for a node while a supervisor is there; the code needs it where
\* nodes fail and Init takes over or Leave stops a node.  And "Leave shuts down Cluster
\* and removes current state": when a Leave has succeeded and nobody has asked for a
\* node since it began, or asks still, none runs, after a restart of the daemon neither.
OneNode == ~doubled => Cardinality({n \in ClNodes : Live(n)}) <= (IF wish = "left" THEN 0 ELSE 1)

\* A node that was started for a request that succeeded, and that nobody asked
\* to stop, does not stay away: after a failure the supervisor starts another,
\* after a restart of the daemon New does.
Reconnects == (wish = "node" /\ cnode = NoNode) ~> (cnode # NoNode \/ wish # "node")
==============================================================================
