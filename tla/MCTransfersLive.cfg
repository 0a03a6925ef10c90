\* Pulls, of which one repeats a layer, or pushes: they end.
SPECIFICATION TFairSpec
CONSTANTS
  c1 = c1
  c2 = c2
  Nil = Nil
  Xfers = {x1, x2, x3, x4}
  Users = {"pulls", "pushes"}
  Clients = {c1, c2}
  Limits = {1}
  Keys = {1, 2, 3}
  Depth = 3
  Top <- OneTop
  SameAs <- LastRepeats
  Layers <- BothOrders
  MayCancel = {c1}
  MayGiveUp = {c1}
  Images = {img}
  MaxAttempts = 2
  MaxUploadAttempts = 2
  MaxFailures = 0
  MaxUploadFailures = 0
PROPERTIES
  TransfersEnd
  LayersLetGo
CHECK_DEADLOCK FALSE
