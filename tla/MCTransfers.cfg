\* Callers, pulls or pushes, with failures and a limit that changes.
SPECIFICATION TSpec
CONSTANTS
  c1 = c1
  c2 = c2
  Nil = Nil
  Xfers = {x1, x2, x3}
  Users = {"callers", "pulls", "pushes"}
  Clients = {c1, c2}
  Limits = {0, 1}
  Keys = {1, 2}
  Depth = 2
  Top <- AllTop
  SameAs <- AllDistinct
  Layers <- BothOrders
  MayCancel = {c1}
  MayGiveUp = {c1}
  Images = {img}
  MaxAttempts = 2
  MaxUploadAttempts = 2
  MaxFailures = 1
  MaxUploadFailures = 2
INVARIANTS
  QueueNotStranded
  NoDuplicateTransfer
  WatchedNotCancelled
  ReleasedExactly
  ResultRetained
  PushedIsThere
CHECK_DEADLOCK FALSE
