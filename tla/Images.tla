------------------------------- MODULE Images -------------------------------
(***************************************************************************)
(* Images and the names that refer to them: image/store.go and image/fs.go *)
(* (the image store), reference/store.go (repository tags and digests),    *)
(* daemon/image_delete.go, daemon/image_tag.go, the image side of          *)
(* daemon/commit.go and image/tarexport/load.go, and the part of           *)
(* daemon/create.go and daemon/delete.go that ties containers to images.   *)
(*                                                                         *)
(* Each store has a lock of its own and nothing is held across two calls:  *)
(* a step below is one call, or several that only read, so what it found   *)
(* may be out of date at the next.  The layer store is its reference       *)
(* counts: a layer is on disk while something holds it or a layer above it *)
(* exists.                                                                 *)
(***************************************************************************)
EXTENDS Integers, FiniteSets, Sequences, FiniteSetsExt

CONSTANTS ImProcs,   \* requests in progress
          ImIds,     \* image ids
          LayerOf,   \* ImIds -> the top layer of the image
          Below,     \* layer -> the layer under it, or Nil
          ImRefs,    \* references: [host, name, canonical]
          ImConts,   \* containers
          ImLoads,   \* scenarios: the requests allowed, how many, failures, crashes
          Nil

VARIABLES imLoad,   \* the scenario; never changes
          images,   \* store.images: id -> [children], or Nil
          content,  \* ids whose content file exists
          parent,   \* metadata file "parent" of each id, or Nil
          refs,     \* Repositories, saved with every change: reference -> id, or Nil
          ldisk,    \* layers of the layer store
          lrefs,    \* holders of each layer: images, containers, requests
          conts,    \* daemon.containers: container -> [img, running, saved], or Nil
          isL,      \* holder of the image store's lock, or Nil
          ipc, req, \* where each request is, and its variables
          ispent,   \* requests, failures and crashes so far
          stuck     \* ids whose content file could not be removed; no guard reads it

imVars == <<imLoad, images, content, parent, refs, ldisk, lrefs, conts, isL, ipc, req, ispent, stuck>>
istore == <<images, content, parent>>
lstore == <<ldisk, lrefs>>

Layers == DOMAIN Below
NoReq == [id |-> Nil, ref |-> Nil, force |-> FALSE, prune |-> FALSE, quiet |-> FALSE,
          todo |-> {}, up |-> Nil, c |-> Nil]

GotoI(p, l) == ipc' = [ipc EXCEPT ![p] = l]
Finish(p) == GotoI(p, "idle") /\ req' = [req EXCEPT ![p] = NoReq]

-----------------------------------------------------------------------------
(* The layer store, as its users see it (modelled in LayerStore).          *)

Hold(l, who) == lrefs' = [lrefs EXCEPT ![l] = @ \cup {who}]

\* The layers that go when nothing holds l any more: l and, going down, every
\* layer that neither a holder nor another layer needs.
Gone(r, d, l) ==
    LET RECURSIVE gone(_, _)
        gone(D, k) == IF k = Nil \/ k \notin D \/ r[k] # {} \/ \E m \in D : Below[m] = k
                      THEN D ELSE gone(D \ {k}, Below[k])
    IN  gone(d, l)

LetGoOf(l, who) ==
    LET r == [lrefs EXCEPT ![l] = @ \ {who}]
    IN  lrefs' = r /\ ldisk' = Gone(r, ldisk, l)

-----------------------------------------------------------------------------
(* The reference store.                                                    *)

\* getMatchingReferenceList: the precise match, then, for a name without a
\* host, the name under a default registry.
Matching(r) == IF refs[r] # Nil THEN r
               ELSE LET q == [r EXCEPT !.host = "reg"]
                    IN  IF r.host = "" /\ q \in ImRefs /\ refs[q] # Nil THEN q ELSE Nil

References(i) == {r \in ImRefs : refs[r] = i}

SameRepo(r, s) == r.host = s.host /\ r.name = s.name

\* isSingleReference: at most one tag, and every digest from its repository.
isSingleReference(R) ==
    LET canon == {r \in R : r.canonical}
        tags  == R \ canon
        repos == {<<r.host, r.name>> : r \in canon}
    IN  \/ Cardinality(R) = 1
        \/ /\ Cardinality(R) > 1 /\ Cardinality(tags) <= 1 /\ Cardinality(repos) = 1
           /\ \A t \in tags : <<t.host, t.name>> \in repos

-----------------------------------------------------------------------------
(* Requests.                                                               *)

Ask(p, what) ==
    /\ ipc[p] = "idle" /\ what \in imLoad.what /\ ispent.reqs < imLoad.reqs
    /\ ispent' = [ispent EXCEPT !.reqs = @ + 1]

\* Load, pull or commit: the layer is registered and held by the request.
Make(p) ==
    /\ Ask(p, "make")
    /\ \E i \in ImIds, up \in ImIds \cup {Nil}, r \in {s \in ImRefs : ~s.canonical} \cup {Nil} :
         /\ up # Nil => /\ Below[LayerOf[i]] = LayerOf[up] /\ up \in content
         /\ Below[LayerOf[i]] \in ldisk \cup {Nil}
         /\ ldisk' = ldisk \cup {LayerOf[i]}
         /\ Hold(LayerOf[i], p)
         /\ req' = [req EXCEPT ![p] = [NoReq EXCEPT !.id = i, !.up = up, !.ref = r]]
    /\ GotoI(p, "set")
    /\ UNCHANGED <<imLoad, stuck, istore, refs, conts, isL>>

\* store.Create writes the content file before it takes the lock ...
CreateSet(p) ==
    /\ ipc[p] = "set"
    /\ content' = content \cup {req[p].id}
    /\ GotoI(p, "create")
    /\ UNCHANGED <<imLoad, stuck, images, parent, refs, lstore, conts, isL, req, ispent>>

\* Fault: the image does not take a reference to its layer.
CreateAdd_NoHold(p) ==
    /\ ipc[p] = "create" /\ isL = Nil
    /\ images' = [images EXCEPT ![req[p].id] = IF @ = Nil THEN [children |-> {}] ELSE @]
    /\ GotoI(p, IF req[p].up = Nil THEN "tag" ELSE "parent")
    /\ UNCHANGED <<imLoad, stuck, content, parent, refs, lstore, conts, isL, req, ispent>>

\* ... and adds the image to the map, with a reference to its layer.
CreateAdd(p) ==
    /\ ipc[p] = "create" /\ isL = Nil
    /\ LET i == req[p].id
       IN  IF images[i] = Nil
           THEN images' = [images EXCEPT ![i] = [children |-> {}]] /\ Hold(LayerOf[i], i)
           ELSE UNCHANGED <<images, lrefs>>
    /\ GotoI(p, IF req[p].up = Nil THEN "tag" ELSE "parent")
    /\ stuck' = stuck \ {req[p].id}
    /\ UNCHANGED <<imLoad, content, parent, refs, ldisk, conts, isL, req, ispent>>

\* SetParent: the parent must be known; the children are updated before the
\* metadata file, which needs the content file.
SetParent(p) ==
    /\ ipc[p] = "parent" /\ isL = Nil
    /\ LET i   == req[p].id
           up  == req[p].up
           old == IF i \in content THEN parent[i] ELSE Nil
           cut == IF old # Nil /\ images[old] # Nil
                  THEN [images EXCEPT ![old].children = @ \ {i}] ELSE images
       IN  IF images[up] = Nil
           THEN GotoI(p, "drop") /\ UNCHANGED <<images, parent>>
           ELSE /\ images' = [cut EXCEPT ![up].children = @ \cup {i}]
                /\ IF i \in content
                   THEN parent' = [parent EXCEPT ![i] = up] /\ GotoI(p, "tag")
                   ELSE GotoI(p, "drop") /\ UNCHANGED parent
    /\ UNCHANGED <<imLoad, stuck, content, refs, lstore, conts, isL, req, ispent>>

\* AddTag with force, which moves an existing tag; AddDigest moves nothing.
addReference(p) ==
    /\ ipc[p] = "tag"
    /\ LET r == req[p].ref
       IN  refs' = IF r = Nil THEN refs
                   ELSE IF r.canonical /\ refs[r] # Nil THEN refs
                   ELSE [refs EXCEPT ![r] = req[p].id]
    /\ GotoI(p, "drop")
    /\ UNCHANGED <<imLoad, stuck, istore, lstore, conts, isL, req, ispent>>

\* The deferred release of the layer, if the request holds one.
Drop(p) ==
    /\ ipc[p] = "drop"
    /\ LET l == LayerOf[req[p].id]
       IN  IF p \in lrefs[l] THEN LetGoOf(l, p) ELSE UNCHANGED lstore
    /\ Finish(p)
    /\ UNCHANGED <<imLoad, stuck, istore, refs, conts, isL, ispent>>

\* TagImage: the id is looked up, and the tag added later.  A pull by digest
\* adds the digest the same way.
TagImage(p) ==
    /\ Ask(p, "tag")
    /\ \E i \in content, r \in ImRefs :
         /\ req' = [req EXCEPT ![p] = [NoReq EXCEPT !.id = i, !.ref = r]]
    /\ GotoI(p, "tag")
    /\ UNCHANGED <<imLoad, stuck, istore, refs, lstore, conts, isL>>

-----------------------------------------------------------------------------
(* ImageDelete.                                                            *)

Using(i) == {c \in ImConts : conts[c] # Nil /\ conts[c].img = i}
Running(i) == {c \in Using(i) : conts[c].running}
Children(i) == IF images[i] = Nil THEN {} ELSE images[i].children

\* By reference: refused when it is the last one of an image in use, unless
\* forced.  By id: the references go first when there is a single one.
ImageDelete(p) ==
    /\ Ask(p, "delete")
    /\ \E force, prune \in imLoad.flags :
         \/ \E r \in ImRefs :
              /\ Matching(r) # Nil
              /\ LET i == refs[Matching(r)]
                 IN  /\ force \/ ~isSingleReference(References(i)) \/ Using(i) = {}
                     /\ req' = [req EXCEPT ![p] = [NoReq EXCEPT
                                    !.id = i, !.ref = r, !.force = force, !.prune = prune]]
              /\ GotoI(p, "untag")
         \/ \E i \in content :
              LET R == References(i)
                  q == [NoReq EXCEPT !.id = i, !.force = force, !.prune = prune]
              IN  IF isSingleReference(R)
                  THEN /\ Children(i) = {} /\ Running(i) = {}
                       /\ force \/ Using(i) = {}
                       /\ req' = [req EXCEPT ![p] = [q EXCEPT !.todo = R]]
                       /\ GotoI(p, "untagAll")
                  ELSE req' = [req EXCEPT ![p] = q] /\ GotoI(p, "check")
    /\ UNCHANGED <<imLoad, stuck, istore, refs, lstore, conts, isL>>

\* removeImageRef of the reference asked for.
Untag(p) ==
    /\ ipc[p] = "untag"
    /\ LET m == Matching(req[p].ref)
       IN  IF m = Nil THEN Finish(p) /\ UNCHANGED refs
           ELSE refs' = [refs EXCEPT ![m] = Nil] /\ GotoI(p, "digests") /\ UNCHANGED req
    /\ UNCHANGED <<imLoad, stuck, istore, lstore, conts, isL, ispent>>

\* When no tag of the repository is left its digests go too.  For a name
\* without a host, SubstituteReferenceName makes every digest match.
Digests(p) ==
    /\ ipc[p] = "digests"
    /\ LET r    == req[p].ref
           R    == References(req[p].id)
           drop == IF r.canonical \/ \E t \in R : ~t.canonical /\ SameRepo(t, r) THEN {}
                   ELSE {d \in R : d.canonical /\ (r.host = "" \/ SameRepo(d, r))}
       IN  /\ req' = [req EXCEPT ![p].todo = drop, ![p].quiet = (R = drop)]
           /\ GotoI(p, "untagSome")
    /\ UNCHANGED <<imLoad, stuck, istore, refs, lstore, conts, isL, ispent>>

\* One removal of a list read earlier; a reference gone meanwhile is an error
\* and ends the request.
UntagNext(p) ==
    /\ ipc[p] \in {"untagSome", "untagAll", "untagRest"}
    /\ IF req[p].todo # {}
       THEN \E r \in req[p].todo :
              IF Matching(r) = Nil
              THEN Finish(p) /\ UNCHANGED refs
              ELSE /\ refs' = [refs EXCEPT ![Matching(r)] = Nil]
                   /\ req' = [req EXCEPT ![p].todo = @ \ {r}]
                   /\ UNCHANGED ipc
       ELSE /\ IF ipc[p] = "untagSome" /\ ~req[p].quiet THEN Finish(p)
               ELSE GotoI(p, IF ipc[p] = "untagRest" THEN "delete" ELSE "check") /\ UNCHANGED req
            /\ UNCHANGED refs
    /\ UNCHANGED <<imLoad, stuck, istore, lstore, conts, isL, ispent>>

\* imageDeleteHelper: the conflicts, then the parent and the references.
DeleteCheck(p) ==
    /\ ipc[p] = "check" /\ isL = Nil
    /\ LET i == req[p].id
       IN  IF \/ Children(i) # {} \/ Running(i) # {}
              \/ ~req[p].force /\ (References(i) # {} \/ Using(i) # {})
           THEN Finish(p)
           ELSE /\ req' = [req EXCEPT ![p].up = parent[i], ![p].todo = References(i)]
                /\ GotoI(p, "untagRest")
    /\ UNCHANGED <<imLoad, stuck, istore, refs, lstore, conts, isL, ispent>>

\* Fault: the layer goes before the file.
StoreDelete_LayerFirst(p) ==
    /\ ipc[p] = "delete" /\ isL = Nil
    /\ LET i == req[p].id
       IN  IF images[i] = Nil
           THEN Finish(p) /\ UNCHANGED <<images, lstore, isL>>
           ELSE /\ images' = [images EXCEPT ![i] = Nil]
                /\ LetGoOf(LayerOf[i], i)
                /\ isL' = p /\ GotoI(p, "release") /\ UNCHANGED req
    /\ UNCHANGED <<imLoad, stuck, content, parent, refs, conts, ispent>>

\* Fault: the children keep their link to the parent.
StoreDelete_KeepLinks(p) ==
    /\ ipc[p] = "delete" /\ isL = Nil
    /\ LET i == req[p].id
       IN  IF images[i] = Nil
           THEN Finish(p) /\ UNCHANGED <<istore, isL>>
           ELSE /\ images' = [images EXCEPT ![i] = Nil]
                /\ parent' = [parent EXCEPT ![i] = Nil]
                /\ content' = content \ {i}
                /\ isL' = p /\ GotoI(p, "release") /\ UNCHANGED req
    /\ UNCHANGED <<imLoad, stuck, refs, lstore, conts, ispent>>

\* fs.Delete and fs.DeleteMetadata, whose errors store.Delete ignores: all the files go,
\* or the content file stays, with the metadata or without, or that of a child does.
DeleteFiles(i, kids) ==
    \/ /\ parent' = [j \in ImIds |-> IF j = i \/ j \in kids THEN Nil ELSE parent[j]]
       /\ content' = content \ {i}
       /\ UNCHANGED <<ispent, stuck>>
    \/ /\ ispent.faults < imLoad.faults
       /\ ispent' = [ispent EXCEPT !.faults = @ + 1]
       /\ \E kept \in {{i}, {}} \cup {{j} : j \in kids} :
            /\ parent' = [j \in ImIds |-> IF j \in ({i} \cup kids) \ kept THEN Nil ELSE parent[j]]
            /\ IF kept \subseteq {i}
               THEN stuck' = stuck \cup {i} /\ UNCHANGED content
               ELSE content' = content \ {i} /\ UNCHANGED stuck

\* store.Delete, under the lock: the links, the map entry, the files ...
StoreDelete(p) ==
    /\ ipc[p] = "delete" /\ isL = Nil
    /\ LET i   == req[p].id
           up  == parent[i]
           cut == IF up # Nil /\ images[up] # Nil
                  THEN [images EXCEPT ![up].children = @ \ {i}] ELSE images
       IN  IF images[i] = Nil
           THEN Finish(p) /\ UNCHANGED <<istore, isL, ispent, stuck>>
           ELSE /\ images' = [cut EXCEPT ![i] = Nil]
                /\ DeleteFiles(i, images[i].children)
                /\ isL' = p /\ GotoI(p, "release") /\ UNCHANGED req
    /\ UNCHANGED <<imLoad, refs, lstore, conts>>

\* ... and the layer; then the parent is pruned, quietly and without force.
StoreRelease(p) ==
    /\ ipc[p] = "release"
    /\ LetGoOf(LayerOf[req[p].id], req[p].id)
    /\ isL' = Nil
    /\ IF req[p].prune /\ req[p].up # Nil
       THEN /\ req' = [req EXCEPT ![p] = [NoReq EXCEPT !.id = req[p].up,
                                              !.prune = TRUE, !.quiet = TRUE]]
            /\ GotoI(p, "check")
       ELSE Finish(p)
    /\ UNCHANGED <<imLoad, stuck, istore, refs, conts, ispent>>

-----------------------------------------------------------------------------
(* Containers, as far as they hold images and layers.                      *)

\* daemon.create: the image is looked up ...
ContainerCreate(p) ==
    /\ Ask(p, "container")
    /\ \E i \in content, c \in {d \in ImConts : conts[d] = Nil /\ \A q \in ImProcs : req[q].c # d
                                                      /\ \A l \in Layers : d \notin lrefs[l]} :
         req' = [req EXCEPT ![p] = [NoReq EXCEPT !.id = i, !.c = c]]
    /\ GotoI(p, "rwlayer")
    /\ UNCHANGED <<imLoad, stuck, istore, refs, lstore, conts, isL>>

\* ... its layer held through the container's RW layer, if both still exist ...
setRWLayer(p) ==
    /\ ipc[p] = "rwlayer"
    /\ LET i == req[p].id
       IN  IF i \in content /\ LayerOf[i] \in ldisk
           THEN Hold(LayerOf[i], req[p].c) /\ GotoI(p, "register") /\ UNCHANGED req
           ELSE Finish(p) /\ UNCHANGED lrefs
    /\ UNCHANGED <<imLoad, stuck, istore, refs, ldisk, conts, isL, ispent>>

\* ... and only then the container is visible to ImageDelete.
Register(p) ==
    /\ ipc[p] = "register"
    /\ conts' = [conts EXCEPT ![req[p].c] = [img |-> req[p].id, running |-> FALSE, saved |-> TRUE]]
    /\ Finish(p)
    /\ UNCHANGED <<imLoad, stuck, istore, refs, lstore, isL, ispent>>

\* A container starts or stops.
StartStop(c) ==
    /\ conts[c] # Nil /\ ispent.turns < imLoad.turns /\ \A p \in ImProcs : req[p].c # c
    /\ ispent' = [ispent EXCEPT !.turns = @ + 1]
    /\ conts' = [conts EXCEPT ![c].running = ~@]
    /\ UNCHANGED <<imLoad, stuck, istore, refs, lstore, isL, ipc, req>>

\* cleanupContainer: the container's directory, its RW layer, and in the end
\* the entry in daemon.containers.
ContainerRm(p) ==
    /\ Ask(p, "rm")
    /\ \E c \in ImConts :
         /\ conts[c] # Nil /\ ~conts[c].running /\ \A q \in ImProcs : req[q].c # c
         /\ conts' = [conts EXCEPT ![c].saved = FALSE]
         /\ req' = [req EXCEPT ![p] = [NoReq EXCEPT !.c = c]]
    /\ GotoI(p, "rmlayer")
    /\ UNCHANGED <<imLoad, stuck, istore, refs, lstore, isL>>

RmRWLayer(p) ==
    /\ ipc[p] = "rmlayer"
    /\ LetGoOf(LayerOf[conts[req[p].c].img], req[p].c)
    /\ GotoI(p, "unregister")
    /\ UNCHANGED <<imLoad, stuck, istore, refs, conts, isL, req, ispent>>

Unregister(p) ==
    /\ ipc[p] = "unregister"
    /\ conts' = [conts EXCEPT ![req[p].c] = Nil]
    /\ Finish(p)
    /\ UNCHANGED <<imLoad, stuck, istore, refs, lstore, isL, ispent>>

-----------------------------------------------------------------------------
(* The daemon dies and starts again: store.restore.                        *)

\* Without the layer of an image file the daemon does not start.
Crash ==
    /\ ispent.crashes < imLoad.crashes
    /\ ispent' = [ispent EXCEPT !.crashes = @ + 1]
    /\ LET ok    == \A i \in content : LayerOf[i] \in ldisk
           known == IF ok THEN content ELSE {}
       IN  /\ isL' = IF ok THEN Nil ELSE "down"
           /\ images' = [i \in ImIds |-> IF i \in known
                         THEN [children |-> {j \in content : parent[j] = i}] ELSE Nil]
           /\ lrefs' = [l \in Layers |-> (lrefs[l] \cap ImConts)
                                         \cup {i \in known : LayerOf[i] = l}]
           /\ stuck' = stuck \ known
    /\ ipc' = [p \in ImProcs |-> "idle"]
    /\ req' = [p \in ImProcs |-> NoReq]
    /\ conts' = [c \in ImConts |-> IF conts[c] # Nil /\ conts[c].saved
                                   THEN [conts[c] EXCEPT !.running = FALSE] ELSE Nil]
    /\ UNCHANGED <<imLoad, content, parent, refs, ldisk>>

-----------------------------------------------------------------------------
(* The specification.                                                      *)

ImInit ==
    /\ imLoad \in ImLoads
    /\ images = [i \in ImIds |-> Nil] /\ content = {} /\ parent = [i \in ImIds |-> Nil]
    /\ refs = [r \in ImRefs |-> Nil]
    /\ ldisk = {} /\ lrefs = [l \in Layers |-> {}]
    /\ conts = [c \in ImConts |-> Nil]
    /\ isL = Nil
    /\ ipc = [p \in ImProcs |-> "idle"] /\ req = [p \in ImProcs |-> NoReq]
    /\ ispent = [reqs |-> 0, turns |-> 0, faults |-> 0, crashes |-> 0]
    /\ stuck = {}

ImStep(p) ==
    \/ Make(p) \/ CreateSet(p) \/ CreateAdd(p) \/ SetParent(p) \/ addReference(p) \/ Drop(p)
    \/ TagImage(p)
    \/ ImageDelete(p) \/ Untag(p) \/ Digests(p) \/ UntagNext(p) \/ DeleteCheck(p)
    \/ StoreDelete(p) \/ StoreRelease(p)
    \/ ContainerCreate(p) \/ setRWLayer(p) \/ Register(p)
    \/ ContainerRm(p) \/ RmRWLayer(p) \/ Unregister(p)

ImNext == /\ isL # "down"
          /\ (\E p \in imLoad.procs : ImStep(p)) \/ (\E c \in ImConts : StartStop(c)) \/ Crash

ImSpec == ImInit /\ [][ImNext]_imVars

-----------------------------------------------------------------------------
(* Properties.                                                             *)

\* l and everything under it is there.
Chain(l) == LET RECURSIVE below(_)
                below(k) == IF k = Nil THEN {} ELSE {k} \cup below(Below[k])
            IN  below(l)

Quiet == \A p \in ImProcs : ipc[p] = "idle"

\* The layers of the images that are known and of the containers that exist.
Needed ==
    LET known == {i \in ImIds : images[i] # Nil}
        used  == {c \in ImConts : /\ conts[c] # Nil
                                  /\ \A p \in ImProcs : ipc[p] = "unregister" => req[p].c # c}
    IN  UNION {Chain(LayerOf[i]) : i \in known \cup {conts[c].img : c \in used}}

\* Whatever is deleted at the same time, an image in the store and a container
\* that is registered keep every layer they are made of (the reference that
\* store.Create and CreateRWLayer take): the race between create and
\* ImageDelete can take the image away from a container, never its file system.
\* And unless the daemon crashes, no order of creating, tagging and deleting
\* loses a reference: when no request is in progress no other layer is left.
LayersHeld ==
    /\ Needed \subseteq ldisk
    /\ Quiet /\ ispent.crashes = 0 => ldisk \subseteq Needed

\* At any point where the daemon may die, every image file has its layers:
\* store.restore gives up at the first image whose layer is missing, and the
\* daemon with it.  That is false of a file which store.Delete could not remove
\* (image/store.go:222): the layer is released although the file stays.
RestartLoads == \A i \in content \ stuck : Chain(LayerOf[i]) \subseteq ldisk

\* With requests one after the other and no failing removal, crashes included: the map
\* and the files hold the same images, the children in memory are the parents on disk,
\* every parent and every tag or digest names an image.
ImagesAgree ==
    Quiet /\ Cardinality(imLoad.procs) = 1 /\ ispent.faults = 0 =>
        /\ \A i \in ImIds : images[i] # Nil <=> i \in content
        /\ \A i \in content : images[i].children = {j \in content : parent[j] = i}
        /\ \A r \in ImRefs : refs[r] # Nil => refs[r] \in content
=============================================================================
