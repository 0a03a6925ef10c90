\* Layers, images and the names of containers, with failures and crashes.
SPECIFICATION Spec
CONSTANTS
    NoLayer = NoLayer
    ch1 = ch1
    ch2 = ch2
    ch3 = ch3
    mnt1 = mnt1
    LayerUsers = {u1, u2}
    Chains = {ch1, ch2, ch3}
    ParentOf <- Line
    MountNames = {mnt1}
    IDs = {d1, d2, d3, d4}
    MaxDepth = 2
    LayerLoads <- MCLayerLoads
    Nil = Nil
    i1 = i1
    i2 = i2
    i3 = i3
    p1 = p1
    p2 = p2
    c1 = c1
    l1 = l1
    l2 = l2
    ImProcs = {p1, p2}
    ImIds = {i1, i2, i3}
    ImConts = {c1}
    LayerOf <- MCLayerOf
    Below <- MCBelow
    ImRefs <- MCRefs
    ImLoads <- MCImLoads
    NoName = NoName
    NmProcs = {p1, p2}
    NmIds = {c1, c2, c3}
    c2 = c2
    c3 = c3
    NmNames = {n1, n2}
    n1 = n1
    n2 = n2
    NmLoads <- MCNmLoads
SYMMETRY Perms
INVARIANTS CountExact HeldIntact NothingLeft LayersHeld RestartLoads ImagesAgree NamesAgree
PROPERTIES CrashKeepsLayers
