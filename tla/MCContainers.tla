---------------------------- MODULE MCContainers ----------------------------
(* Instances of ContainerLife and of ContainerVolumes.  A behaviour         *)
(* exercises one of the two.                                                *)
EXTENDS ContainerLife, ContainerVolumes, TLC

CONSTANT plugin

LifeLoadOf(jobs, policy, refusals, n, k) ==
  [jobs |-> jobs, policy |-> policy, refusals |-> refusals, exits |-> n, execs |-> k]

NoLife == LifeLoadOf({}, "no", {}, 0, 0)
OnlyVolumes == {NoLife}

Stopping == {"start", "stop", "restart", "kill", "rm", "rm -f"}

\* Every request, without a restart policy; those that race with automatic restarts;
\* refusals, in requests and in automatic restarts.
MCLifeLoads ==
  {NoLife,
   LifeLoadOf(Jobs, "no", {}, 1, 1),
   LifeLoadOf(Stopping, "always", {}, 2, 0),
   LifeLoadOf({"start", "stop", "restart", "rm -f"}, "on-failure", {"create", "attach"}, 1, 0)}

VolumeLoadOf(procs, fallible, uses, n, k) ==
  [procs |-> procs, fallible |-> fallible, uses |-> uses, faults |-> n, crashes |-> k]

NoVolumes == VolumeLoadOf({}, {}, {}, 0, 0)

\* Two containers, or a container and a client.
Pairs == {Containers} \cup {{c} \cup Clients : c \in Containers}

\* Everyone at once; two of them with failures and restarts; two of them with a driver
\* that comes and goes and all that the clients can do.
MCVolumeLoads ==
  {NoVolumes, VolumeLoadOf(Procs, {}, {}, 0, 0)} \cup
  {VolumeLoadOf(ps, {}, {}, 2, 2) : ps \in Pairs} \cup
  {VolumeLoadOf(ps, {plugin}, {"bind sharing", "start config", "links"}, 1, 1) : ps \in Pairs}

\* --volumes-from of a container with a bind of a volume name.
BindSharing == {VolumeLoadOf(Procs, {}, {"bind sharing"}, 0, 0)}

ContainersInit == /\ LifeInit /\ Init
                  /\ (lifeLoad = NoLife) # (load = NoVolumes)

\* The requests of ContainerLife come to an end; the volume store must always go on.
Ended == lifeLoad # NoLife /\ UNCHANGED <<lifeVars, vars>>

ContainersNext == \/ lifeLoad # NoLife /\ LifeNext /\ UNCHANGED vars
                  \/ lifeLoad = NoLife /\ Next /\ UNCHANGED lifeVars
                  \/ Ended

ContainersSpec == ContainersInit /\ [][ContainersNext]_<<lifeVars, vars>>

\* Callers and Containers are the same two model values.
Perms == Permutations(Containers)
=============================================================================
