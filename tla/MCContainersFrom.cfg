\* --volumes-from of a container with a bind of a volume name.
SPECIFICATION ContainersSpec
CONSTANTS
  NoOne = NoOne
  Callers = {c1, c2}
  MaxCreates = 2
  LifeLoads <- OnlyVolumes
  Nil = Nil
  Local = local
  plugin = plugin
  Containers = {c1, c2}
  Clients = {r1}
  Names = {n}
  Drivers = {local, plugin}
  Loads <- BindSharing
SYMMETRY Perms
PROPERTIES
  NeverRemoved
