------------------------------ MODULE MCImages ------------------------------
(* Instances of LayerStore, of Images (a base image i1, an image i2 built   *)
(* on it and an image i3 with the layer of i1 and another configuration)    *)
(* and of ContainerNames.  A behaviour exercises one of the three: the      *)
(* others have the scenario without requests.                               *)
EXTENDS LayerStore, Images, ContainerNames, TLC

CONSTANTS ch1, ch2, ch3, mnt1, \* chain IDs, of which the last is too deep; a mount
          i1, i2, i3, l1, l2, p1, p2, c1, c2, c3, n1, n2

Line == (ch1 :> NoLayer) @@ (ch2 :> ch1) @@ (ch3 :> ch2)

LayerLoadOf(chains, mounted, f, k) ==
  [chains |-> chains, names |-> mounted, faults |-> f, crashes |-> k]
NoLayers == LayerLoadOf({}, {}, 0, 0)

\* The whole chain with a failing operation, half of it with a crash, a mount on its
\* root with either, and the root and a mount, each by itself, with both.
MCLayerLoads == {NoLayers, LayerLoadOf({ch1, ch2, ch3}, {}, 1, 0), LayerLoadOf({ch1, ch2}, {}, 0, 1),
                 LayerLoadOf({ch1}, {mnt1}, 1, 0), LayerLoadOf({ch1}, {mnt1}, 0, 1),
                 LayerLoadOf({ch1}, {}, 1, 1), LayerLoadOf({}, {mnt1}, 1, 1)}

MCLayerOf == (i1 :> l1) @@ (i2 :> l2) @@ (i3 :> l1)
MCBelow == (l1 :> Nil) @@ (l2 :> l1)

Ref(h, n, c) == [host |-> h, name |-> n, canonical |-> c]
MCRefs == {Ref("", "a", FALSE), Ref("reg", "a", FALSE), Ref("reg", "b", TRUE)}

Imload(ps, w, n, t, f, e, c) ==
    [procs |-> ps, what |-> w, reqs |-> n, turns |-> t, flags |-> f, faults |-> e, crashes |-> c]

NoImages == Imload({}, {}, 0, 0, {}, 0, 0)

\* One request at a time with a crash; two processes that create and delete images, with
\* a failing operation, and with a crash as well; two with containers, with and without a
\* crash.  The loads of one request at a time name either process, as Perms asks.
MCImLoads ==
    {Imload({p}, {"make", "tag", "delete"}, 4, 0, BOOLEAN, 0, 1) : p \in ImProcs} \cup
    {NoImages,
     Imload({p1, p2}, {"make", "delete"}, 4, 0, {TRUE}, 1, 0),
     Imload({p1, p2}, {"make", "delete"}, 3, 0, {TRUE}, 1, 1),
     Imload({p1, p2}, {"make", "container", "rm", "delete"}, 4, 0, {FALSE}, 0, 0),
     Imload({p1, p2}, {"make", "container", "rm", "delete"}, 3, 1, {FALSE}, 0, 1)}

Nmload(ps, w, n, a, f, c) ==
    [procs |-> ps, what |-> w, reqs |-> n, apart |-> a, faults |-> f, crashes |-> c]
NoNames == Nmload({}, {}, 0, TRUE, 0, 0)

\* One request at a time and two, these never on the same container, each with two
\* failures and a crash; two without either, and one request more.
MCNmLoads ==
    {Nmload({p}, {"create", "rename", "rm"}, 6, TRUE, 2, 1) : p \in NmProcs} \cup
    {NoNames,
     Nmload({p1, p2}, {"create", "rename", "rm"}, 6, TRUE, 0, 0),
     Nmload({p1, p2}, {"create", "rename", "rm"}, 5, TRUE, 2, 1)}

OnlyLayers == imLoad = NoImages /\ nmLoad = NoNames
OnlyImages == layerLoad = NoLayers /\ nmLoad = NoNames
OnlyNames == layerLoad = NoLayers /\ imLoad = NoImages

allVars == <<layerVars, imVars, nmVars>>

Init == /\ LayerInit /\ ImInit /\ NmInit
        /\ \/ OnlyLayers /\ ~OnlyImages
           \/ OnlyImages /\ ~OnlyNames
           \/ OnlyNames /\ ~OnlyLayers

\* The requests to the other two come to an end; the layer store must always go on.
Ended == layerLoad = NoLayers /\ UNCHANGED allVars

Next == \/ layerLoad # NoLayers /\ LayerNext /\ UNCHANGED <<imVars, nmVars>>
        \/ ImNext /\ UNCHANGED <<layerVars, nmVars>>
        \/ NmNext /\ UNCHANGED <<layerVars, imVars>>
        \/ Ended

Spec == Init /\ [][Next]_allVars

Perms == Permutations(LayerUsers) \cup Permutations({p1, p2})
============================================================================
