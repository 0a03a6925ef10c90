\* The locker with three goroutines and two names; two watchers of an item; a daemon in
\* a swarm; two clients of a container that is started once.
SPECIFICATION ServicesSpec
CONSTANTS
  Procs = {p1, p2, p3}
  Names = {n1, n2}
  Ctrs = {c1, c2, c3, c4}
  Nil = Nil
  Watchers = {w1, w2}
  MaxItems = 1
  ClReqs = {"r1", "r2"}
  ClMax = 8
  ClLoads <- MCClLoads
  NoNode = NoNode
  Callers = {p1, p2}
  NoOne = NoOne
  MaxCreates = 1
  LifeLoads <- MCLifeLoads
INVARIANTS
  NoLeakedEntry
  NothingMissed
  OneNode
PROPERTIES
  ImplementsNamedMutex
  SomeWaiterProceeds
  WatchersEnd
  Reconnects
  RequestsEnd
CHECK_DEADLOCK FALSE
