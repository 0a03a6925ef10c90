--------------------------- MODULE MCContainerLife ---------------------------
(* Small instances of ContainerLife, for what does not hold of it. *)
EXTENDS ContainerLife

LifeLoadOf(jobs, policy, n, k) ==
  [jobs |-> jobs, policy |-> policy, refusals |-> {}, exits |-> n, execs |-> k]

\* A pause while an exec ends.
PauseExec == {LifeLoadOf({"start", "pause", "unpause", "exec"}, "no", 0, 1)}

\* A restart while the container is about to be restarted.
RestartAlways == {LifeLoadOf({"start", "restart"}, "always", 2, 0)}
=============================================================================
