\* Two clients of one container with two starts, or two containers and a client on one
\* volume name and two drivers.
SPECIFICATION ContainersSpec
CONSTANTS
  NoOne = NoOne
  Callers = {c1, c2}
  MaxCreates = 2
  LifeLoads <- MCLifeLoads
  Nil = Nil
  Local = local
  plugin = plugin
  Containers = {c1, c2}
  Clients = {r1}
  Names = {n}
  Drivers = {local, plugin}
  Loads <- MCVolumeLoads
SYMMETRY Perms
INVARIANTS
  Agreement
  RemovedHasNoProcess
  HeldVolumeExists
  RefsAreReal
PROPERTIES
  ReferencedNotRemoved
