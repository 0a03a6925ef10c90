\* Two pulls of the same layers, one of which is cancelled; nothing fails.
SPECIFICATION TSpec
CONSTANTS
  c1 = c1
  c2 = c2
  Nil = Nil
  Xfers = {x1, x2, x3, x4}
  Users = {"pulls"}
  Clients = {c1, c2}
  Limits = {1}
  Keys = {1, 2}
  Depth = 2
  Top <- AllTop
  SameAs <- AllDistinct
  Layers <- BothOrders
  MayCancel = {c1}
  MayGiveUp = {c1}
  Images = {}
  MaxAttempts = 2
  MaxUploadAttempts = 2
  MaxFailures = 0
  MaxUploadFailures = 0
INVARIANTS
  OthersCancelHarmless
CHECK_DEADLOCK FALSE
