----------------------------- MODULE MCServices -----------------------------
(* Instances of Locker, Broadcast, Cluster and ContainerLife for liveness.  *)
(* A behaviour exercises one of the four.                                   *)
EXTENDS Locker, Broadcast, Cluster, ContainerLife

VARIABLE service   \* the one this behaviour is about

ClusterLoadOf(calm, ps, w, n, k, f) ==
  [calm |-> calm, procs |-> ps, what |-> w, reqs |-> n, kinds |-> k, faults |-> f]

\* Nodes that fail and daemons that are killed, without and with requests for a new node
\* meanwhile; nodes that fail or cannot be stopped; a swarm that is initialized again;
\* two requests at a time, of any kind and beside a node that fails.
MCClLoads ==
  {ClusterLoadOf(TRUE, {"r1"}, {"join", "leave", "cleanup"}, 3, {"node", "kill", "start"}, 2),
   ClusterLoadOf(FALSE, {"r1"}, {"join"}, 3, {"node", "kill", "start"}, 2),
   ClusterLoadOf(TRUE, {"r1"}, {"init", "leave"}, 4, {"node", "stop"}, 2),
   ClusterLoadOf(FALSE, {"r1"}, {"init", "leave", "cleanup"}, 4, {"stop", "kill"}, 2),
   ClusterLoadOf(FALSE, {"r1"}, {"init", "join", "leave"}, 4, {"stop"}, 1),
   ClusterLoadOf(FALSE, {"r1", "r2"}, {"init", "join", "leave"}, 3, {"stop"}, 1),
   ClusterLoadOf(FALSE, {"r1", "r2"}, {"join", "info"}, 3, {"node"}, 1)}

LifeLoadOf(jobs) == [jobs |-> jobs, policy |-> "no", refusals |-> {}, exits |-> 2, execs |-> 0]

\* A container that is stopped in every way; pauses and kills of one without execs.
MCLifeLoads == {LifeLoadOf({"start", "stop", "restart", "kill", "rm", "rm -f"}),
                LifeLoadOf({"start", "kill", "pause", "unpause", "rm -f"})}

TheCl == CHOOSE l \in ClLoads : TRUE
TheLife == CHOOSE l \in LifeLoads : TRUE

ServicesInit == /\ service \in {"locker", "broadcast", "cluster", "life"}
                /\ Init /\ BcInit /\ ClInitial /\ LifeInit
                /\ service # "cluster" => clLoad = TheCl
                /\ service # "life" => lifeLoad = TheLife

ServicesNext ==
  /\ \/ service = "locker" /\ Next /\ UNCHANGED <<bcVars, clVars, lifeVars>>
     \/ service = "broadcast" /\ BcNext /\ UNCHANGED <<vars, clVars, lifeVars>>
     \/ service = "cluster" /\ ClNext /\ UNCHANGED <<vars, bcVars, lifeVars>>
     \/ service = "life" /\ LifeNext /\ UNCHANGED <<vars, bcVars, clVars>>
  /\ UNCHANGED service

\* None of the three that rest has a step that fairness would ask for.
ServicesSpec == /\ ServicesInit /\ [][ServicesNext]_<<service, vars, bcVars, clVars, lifeVars>>
                /\ Fairness /\ BcFairness /\ ClFairness /\ LifeFairness
=============================================================================
