------------------------------- MODULE Builder -------------------------------
(***************************************************************************)
(* Builds from a Dockerfile: builder/dockerfile, and what it asks of the   *)
(* daemon (daemon/create.go, daemon/commit.go, daemon/image.go).           *)
(*                                                                         *)
(* Builds run side by side over one image store, which is also their       *)
(* cache.  A build is cut where it calls the daemon.  Images are numbered  *)
(* in the order of their creation and 0 is no image.  An instruction is    *)
(* [op, v]; one variable, $x, stands for the environment and the           *)
(* build-time arguments.  The content of an image is the sequence of the   *)
(* effects of the instructions that wrote it.                              *)
(***************************************************************************)
EXTENDS Integers, Sequences, FiniteSets, SequencesExt

CONSTANTS Bases,     \* sequence of images that were not built here
          BaseOf,    \* name in a FROM -> their number; a build is the name of its image
          RelDirs,   \* the directories of WORKDIR that are relative
          BuLoads    \* scenarios: [req, bases, cancels, faults, rmis, rms, exits]: so many
                     \* of Bases are there; req is build ->
                     \* [file, arg, nocache, rm, forcerm, binds, copied, pull, after]

VARIABLES buLoad,    \* the scenario; never changes
          imgs,      \* sequence of [parent, cconf, conf, fs, author, start]: every image ever made
          live,      \* the images that are in the store
          conts,     \* the containers of builds: [id, by, step, image]
          bld,       \* build that has begun -> the Builder, see NewBuilder
          canc,      \* build -> off, armed, kill, done: run's goroutine for cancellation
          gone,      \* the builds whose client is gone: clientCtx is done
          buspent

buVars == <<buLoad, imgs, live, conts, bld, canc, gone, buspent>>

Unset == "unset"
NilCmd == <<>>           \* a nil slice
EmptyCmd == <<"[]">>     \* an empty slice that is not nil
NoHealth == [test |-> Unset, interval |-> 0]

NoConf == [cmd |-> NilCmd, entry |-> NilCmd, env |-> Unset, labels |-> Unset, ports |-> {},
           user |-> Unset, volumes |-> {}, work |-> <<>>, stop |-> Unset, shell |-> Unset,
           health |-> NoHealth, onbuild |-> <<>>]

\* History, read by no guard: what a stage began with, which every image it makes keeps.
NoStart == [image |-> 0, conf |-> NoConf, cmdSet |-> FALSE, author |-> Unset]

NoIns == [op |-> Unset, v |-> Unset]

NewBuilder(r) ==
    [at |-> "loop", step |-> 0, todo |-> <<>>, ins |-> NoIns, conf |-> NoConf, image |-> 0,
     noBase |-> FALSE, cmdSet |-> FALSE, busted |-> FALSE, allowed |-> FALSE, arg |-> r.arg,
     author |-> Unset, tmp |-> {}, cid |-> 0, auto |-> NilCmd, fx |-> <<>>, ok |-> FALSE,
     start |-> NoStart, stray |-> {}]

Req(p) == buLoad.req[p]
Pay(k) == buspent[k] < buLoad[k] /\ buspent' = [buspent EXCEPT ![k] = @ + 1]
PutB(p, s) == bld' = [bld EXCEPT ![p] = s]
Alive(c) == \E k \in conts : k.id = c

-----------------------------------------------------------------------------
(* Configurations.                                                         *)

\* A slice as Compare sees it: its length and its elements.
Elems(c) == IF c = EmptyCmd THEN NilCmd ELSE c

\* Compare leaves out the working directory, the stop signal, the shell, the
\* health check and the triggers.
Compare(a, b) ==
    /\ Elems(a.cmd) = Elems(b.cmd) /\ a.env = b.env /\ a.labels = b.labels /\ a.ports = b.ports
    /\ Elems(a.entry) = Elems(b.entry) /\ a.volumes = b.volumes /\ a.user = b.user

Or(a, b) == IF a = Unset THEN b ELSE a

\* The configuration of the container is the builder's own: what merge takes
\* from the image stays in it.
merge(u, i) ==
    [u EXCEPT !.user = Or(@, i.user), !.ports = @ \cup i.ports, !.env = Or(@, i.env),
              !.labels = Or(@, i.labels), !.volumes = @ \cup i.volumes, !.stop = Or(@, i.stop),
              !.work = IF @ = <<>> THEN i.work ELSE @,
              !.cmd = IF u.entry \in {NilCmd, EmptyCmd} /\ @ = NilCmd THEN i.cmd ELSE @,
              !.entry = IF @ = NilCmd THEN i.entry ELSE @,
              !.health = [test |-> Or(@.test, i.health.test),
                          interval |-> IF @.interval = 0 THEN i.health.interval ELSE @.interval]]

\* ProcessWord: the environment hides the build-time argument.
Word(s, v) ==
    IF v # "$x" THEN v ELSE IF s.conf.env # Unset THEN s.conf.env
    ELSE IF s.allowed THEN s.arg ELSE Unset

-----------------------------------------------------------------------------
(* The dispatchers: the builder after the instruction, up to the first call *)
(* to the daemon.                                                          *)

NoSource(s) == s.image = 0 /\ ~s.noBase
Errs(s) == [s EXCEPT !.at = "failed"]

\* commit with no container: the cache is tried with the instruction as a comment.
commit(s, word) ==
    IF NoSource(s) THEN Errs(s)
    ELSE [s EXCEPT !.auto = s.conf.cmd, !.at = "probe",
                   !.conf.cmd = <<"nop", s.ins.op, word, s.conf.shell>>]

env(s, v) == commit([s EXCEPT !.conf.env = Word(s, v)], Word(s, v))
maintainer(s, v) == commit([s EXCEPT !.author = v], v)
label(s, v) == commit([s EXCEPT !.conf.labels = Word(s, v)], Word(s, v))
expose(s, v) == commit([s EXCEPT !.conf.ports = @ \cup {Word(s, v)}], Word(s, v))
user(s, v) == commit([s EXCEPT !.conf.user = Word(s, v)], Word(s, v))
volume(s, v) == commit([s EXCEPT !.conf.volumes = @ \cup {Word(s, v)}], Word(s, v))
stopSignal(s, v) == commit([s EXCEPT !.conf.stop = Word(s, v)], Word(s, v))
shell(s, v) == commit([s EXCEPT !.conf.shell = v], v)
healthcheck(s, h) == commit([s EXCEPT !.conf.health = h], h)
arg(s, v) == commit([s EXCEPT !.allowed = TRUE, !.arg = Or(@, v)], v)

NoTrigger == {"onbuild", "maintainer", "from"}

onbuild(s, t) ==
    IF t.op \in NoTrigger THEN Errs(s)
    ELSE commit([s EXCEPT !.conf.onbuild = Append(@, t)], <<t.op, t.v>>)

\* normaliseWorkdir: a relative directory is below the current one.
JoinDir(w, v) == IF v \in RelDirs THEN Append(w, v) ELSE <<v>>
workdir(s, v) ==
    LET w == JoinDir(s.conf.work, Word(s, v)) IN commit([s EXCEPT !.conf.work = w], w)

\* The command is set in the shell form.
cmd(s, v) ==
    commit([s EXCEPT !.conf.cmd = <<"cmd", v, s.conf.shell>>, !.cmdSet = TRUE], v)

\* Without arguments the entrypoint is nil; the comment says [] all the same.
entrypoint(s, v) ==
    commit([s EXCEPT !.conf.entry = CASE v = "[]" -> EmptyCmd [] v = Unset -> NilCmd
                                      [] OTHER -> <<"entry", v, s.conf.shell>>,
                     !.conf.cmd = IF s.cmdSet THEN @ ELSE NilCmd],
           IF v = Unset THEN "[]" ELSE v)

\* dispatchRun: the build-time arguments its command sees, beside the environment.
BuildEnv(s) == IF s.allowed /\ s.conf.env = Unset THEN s.arg ELSE Unset

\* Fault: the cache is tried without the build-time arguments.
dispatchRun_Bare(s, v) ==
    IF NoSource(s) THEN Errs(s)
    ELSE [s EXCEPT !.auto = s.conf.cmd, !.at = "probe",
                   !.conf.cmd = <<"run", v, s.conf.shell, Unset>>]

dispatchRun(s, v) ==
    IF NoSource(s) THEN Errs(s)
    ELSE [s EXCEPT !.auto = s.conf.cmd, !.at = "probe",
                   !.conf.cmd = <<"run", v, s.conf.shell, BuildEnv(s)>>]

\* runContextCommand (COPY and ADD): the cache is tried with the hash of the sources.
runContextCommand(s, hash) ==
    IF hash = Unset THEN Errs(s)
    ELSE [s EXCEPT !.auto = s.conf.cmd, !.at = "probe",
                   !.conf.cmd = <<"nop", "copy", hash, s.conf.shell>>]

\* processImageFrom: the triggers are taken out of the configuration, and
\* dispatched before the next instruction.
processImageFrom(s, i) ==
    LET c == imgs[i].conf IN
    [s EXCEPT !.image = i, !.conf = [c EXCEPT !.onbuild = <<>>], !.todo = c.onbuild, !.at = "next"]

dispatch(p, s, i) ==
    LET t == [s EXCEPT !.ins = i] IN
    CASE i.op = "env" -> env(t, i.v)             [] i.op = "maintainer" -> maintainer(t, i.v)
      [] i.op = "label" -> label(t, i.v)         [] i.op = "workdir" -> workdir(t, i.v)
      [] i.op = "expose" -> expose(t, i.v)       [] i.op = "user" -> user(t, i.v)
      [] i.op = "volume" -> volume(t, i.v)       [] i.op = "stopsignal" -> stopSignal(t, i.v)
      [] i.op = "shell" -> shell(t, i.v)         [] i.op = "onbuild" -> onbuild(t, i.v)
      [] i.op = "healthcheck" -> healthcheck(t, i.v)
      [] i.op = "arg" -> arg(t, i.v)             [] i.op = "cmd" -> cmd(t, i.v)
      [] i.op = "entrypoint" -> entrypoint(t, i.v)
      [] i.op = "run" -> dispatchRun(t, i.v)
      [] i.op = "copy" -> runContextCommand(t, Req(p).copied)
      [] i.op = "from" -> [t EXCEPT !.at = "from"]

-----------------------------------------------------------------------------
(* build: the loop over the instructions.                                  *)

\* A client asks when it has seen the end of some other builds; an empty file
\* is refused.
StartBuild(p) ==
    /\ p \notin DOMAIN bld /\ Req(p).file # <<>>
    /\ \A q \in Req(p).after : q \in DOMAIN bld /\ bld[q].at = "end"
    /\ bld' = bld @@ (p :> NewBuilder(Req(p)))
    /\ UNCHANGED <<buLoad, imgs, live, conts, canc, gone, buspent>>

Ended(s, ok) == [s EXCEPT !.at = "end", !.ok = ok]

\* Cancellation is looked at before every instruction of the file.
Loop(p) ==
    LET s == bld[p]  f == Req(p).file IN
    /\ s.at = "loop"
    /\ PutB(p, IF s.step = Len(f) THEN [s EXCEPT !.at = "last"]
               ELSE IF p \in gone THEN Ended(s, FALSE)
               ELSE dispatch(p, [s EXCEPT !.step = @ + 1], f[s.step + 1]))
    /\ UNCHANGED <<buLoad, imgs, live, conts, canc, gone, buspent>>

\* After an instruction: the next trigger of the FROM it belongs to, if any, which
\* may be one that is not allowed.  Only then are the temporary containers removed.
Continue(p) ==
    LET s == bld[p] IN
    /\ s.at = "next"
    /\ PutB(p, IF s.todo # <<>> /\ Head(s.todo).op \in NoTrigger THEN Errs(s)
               ELSE IF s.todo # <<>> THEN dispatch(p, [s EXCEPT !.todo = Tail(@)], Head(s.todo))
               ELSE [s EXCEPT !.at = IF Req(p).rm THEN "clear" ELSE "loop"])
    /\ UNCHANGED <<buLoad, imgs, live, conts, canc, gone, buspent>>

\* Fault: the containers of a failed instruction stay.
Failed_Kept(p) ==
    LET s == bld[p] IN
    /\ s.at = "failed"
    /\ PutB(p, Ended(s, FALSE))
    /\ UNCHANGED <<buLoad, imgs, live, conts, canc, gone, buspent>>

Failed(p) ==
    LET s == bld[p] IN
    /\ s.at = "failed"
    /\ PutB(p, IF Req(p).forcerm THEN [s EXCEPT !.at = "clearfailed"] ELSE Ended(s, FALSE))
    /\ UNCHANGED <<buLoad, imgs, live, conts, canc, gone, buspent>>

\* clearTmp takes the containers in the order of the map, which is any, and
\* stops at the first that cannot be removed; one whose removal is under way counts
\* as removed.
clearTmp(p) ==
    LET s == bld[p]
        done == IF s.at = "clear" THEN [s EXCEPT !.at = "loop"] ELSE Ended(s, FALSE) IN
    /\ s.at \in {"clear", "clearfailed"}
    /\ \/ /\ s.tmp = {} /\ PutB(p, done) /\ UNCHANGED <<conts, buspent>>
       \/ \E c \in s.tmp :
             \/ /\ Alive(c) /\ conts' = {k \in conts : k.id # c}
                /\ PutB(p, [s EXCEPT !.tmp = @ \ {c}]) /\ UNCHANGED buspent
             \/ /\ canc[p] = "kill" /\ c = s.cid
                /\ PutB(p, [s EXCEPT !.tmp = @ \ {c}]) /\ UNCHANGED <<conts, buspent>>
             \/ /\ ~Alive(c)
                /\ PutB(p, done) /\ UNCHANGED <<conts, buspent>>
             \/ Alive(c) /\ Pay("faults") /\ PutB(p, done) /\ UNCHANGED conts
    /\ UNCHANGED <<buLoad, imgs, live, canc, gone>>

\* The arguments nobody declared and a file without instructions fail the
\* build; the tag is put on the image without looking for it.
BuildEnds(p) ==
    LET s == bld[p] IN
    /\ s.at = "last"
    /\ PutB(p, Ended(s, (Req(p).arg # Unset => s.allowed) /\ s.image # 0))
    /\ UNCHANGED <<buLoad, imgs, live, conts, canc, gone, buspent>>

-----------------------------------------------------------------------------
(* The calls to the daemon.                                                *)

\* What a FROM names: scratch, one of Bases, or the image a build has tagged.
Named(v) ==
    CASE v = "scratch" -> 0
      [] v \in DOMAIN BaseOf -> BaseOf[v]
      [] OTHER -> IF v \in DOMAIN bld /\ bld[v].ok THEN bld[v].image ELSE 0

Starts(s) ==
    [s EXCEPT !.start = [image |-> s.image, conf |-> s.conf, cmdSet |-> s.cmdSet, author |-> s.author]]

\* from: an image that is not in the store is pulled, and so it is with --pull; one
\* that was built here cannot be.  FROM scratch leaves the configuration as it is.
from(p) ==
    LET s == bld[p]
        i == Named(s.ins.v)
        pulled == Req(p).pull \/ i \notin live IN
    /\ s.at = "from"
    /\ \/ /\ s.ins.v = "scratch"
          /\ PutB(p, Starts([s EXCEPT !.image = 0, !.noBase = TRUE, !.at = "next"]))
          /\ UNCHANGED <<live, buspent>>
       \/ /\ i # 0 /\ (pulled => s.ins.v \in DOMAIN BaseOf)
          /\ PutB(p, Starts(processImageFrom(s, i)))
          /\ live' = live \cup {i} /\ UNCHANGED buspent
       \/ /\ s.ins.v # "scratch" /\ pulled /\ s.ins.v \notin DOMAIN BaseOf
          /\ PutB(p, Errs(s)) /\ UNCHANGED <<live, buspent>>
       \/ /\ i # 0 /\ pulled /\ Pay("faults")
          /\ PutB(p, Errs(s)) /\ UNCHANGED live
    /\ UNCHANGED <<buLoad, imgs, conts, canc, gone>>

\* GetCachedImage: the youngest child of the image whose container had the
\* configuration.
Siblings(s) == {i \in live : imgs[i].parent = s.image /\ Compare(imgs[i].cconf, s.conf)}
Youngest(I) == CHOOSE i \in I : \A j \in I : j <= i

\* History: in what the image of a hit may be another than the build would have made.
Astray(s, i) ==
    (IF imgs[i].start = s.start THEN {} ELSE {IF s.start.image = 0 THEN "scratch" ELSE "start"})
    \cup (IF imgs[i].cconf.entry = s.conf.entry THEN {} ELSE {"entry"})

Restored(s) == [s EXCEPT !.conf.cmd = s.auto]

\* probeCache: after a miss the cache is not tried again, nor with bind mounts.
probeCache(p) ==
    LET s == bld[p]
        hits == Siblings(s)
        miss == [s EXCEPT !.at = "create"] IN
    /\ s.at = "probe"
    /\ \/ /\ UNCHANGED buspent
          /\ PutB(p, IF Req(p).nocache \/ s.busted \/ Req(p).binds # Unset THEN miss
                     ELSE IF hits = {} THEN [miss EXCEPT !.busted = TRUE]
                     ELSE [Restored(s) EXCEPT !.image = Youngest(hits), !.at = "next",
                                              !.stray = @ \cup Astray(s, Youngest(hits))])
       \/ /\ ~Req(p).nocache /\ ~s.busted /\ Req(p).binds = Unset /\ Pay("faults")
          /\ PutB(p, Errs(s))
    /\ UNCHANGED <<buLoad, imgs, live, conts, canc, gone>>

\* What the instruction writes in its container.
Writes(p, s) ==
    CASE s.ins.op = "run" ->
            <<"run", s.ins.v, s.conf.shell, Or(s.conf.env, BuildEnv(s)), s.conf.work, s.conf.user,
              Req(p).binds>>
      [] s.ins.op = "copy" -> <<"copy", Req(p).copied, s.conf.work>>
      [] OTHER -> <<>>

\* create, and ContainerCreate in runContextCommand.
create(p) ==
    LET s == bld[p]
        c == buspent.made + 1
        conf == IF s.image = 0 THEN s.conf ELSE merge(s.conf, imgs[s.image].conf) IN
    /\ s.at = "create"
    /\ \/ /\ s.image = 0 \/ s.image \in live
          /\ conts' = conts \cup {[id |-> c, by |-> p, step |-> s.step, image |-> s.image]}
          /\ buspent' = [buspent EXCEPT !.made = c]
          /\ LET t == [s EXCEPT !.conf = conf, !.tmp = @ \cup {c}, !.cid = c, !.fx = <<>>] IN
             PutB(p, [t EXCEPT !.at = CASE s.ins.op = "run" -> "running" [] s.ins.op = "copy" -> "copying"
                                        [] OTHER -> "commit"])
          /\ canc' = [canc EXCEPT ![p] = IF s.ins.op = "run" THEN "armed" ELSE @]
       \/ /\ s.image # 0 /\ s.image \notin live
          /\ PutB(p, Errs(s)) /\ UNCHANGED <<conts, canc, buspent>>
       \/ Pay("faults") /\ PutB(p, Errs(s)) /\ UNCHANGED <<conts, canc>>
    /\ UNCHANGED <<buLoad, imgs, live, gone>>

CopyOnBuild(p) ==
    LET s == bld[p] IN
    /\ s.at = "copying"
    /\ \/ Alive(s.cid) /\ PutB(p, [s EXCEPT !.fx = Writes(p, s), !.at = "commit"]) /\ UNCHANGED buspent
       \/ ~Alive(s.cid) /\ PutB(p, Errs(s)) /\ UNCHANGED buspent
       \/ Pay("faults") /\ PutB(p, Errs(s))
    /\ UNCHANGED <<buLoad, imgs, live, conts, canc, gone>>

\* Builder.run, until the command has ended.  It waits for the goroutine that
\* cancels only when the command succeeded.
RunExits(p) ==
    LET s == bld[p] IN
    /\ s.at = "running"
    /\ \/ /\ Alive(s.cid) /\ UNCHANGED buspent
          /\ PutB(p, [s EXCEPT !.fx = Writes(p, s), !.at = "finish"])
       \/ ~Alive(s.cid) /\ PutB(p, Errs(s)) /\ UNCHANGED buspent
       \/ canc[p] = "kill" /\ PutB(p, Errs(s)) /\ UNCHANGED buspent
       \/ Pay("exits") /\ PutB(p, Errs(s))
    /\ UNCHANGED <<buLoad, imgs, live, conts, canc, gone>>

RunFinish(p) ==
    LET s == bld[p] IN
    /\ s.at = "finish" /\ canc[p] \in {"off", "done"}
    /\ PutB(p, IF canc[p] = "off" THEN [s EXCEPT !.at = "commit"] ELSE Errs(s))
    /\ UNCHANGED <<buLoad, imgs, live, conts, canc, gone, buspent>>

\* The goroutine: it kills and removes the container when the client is gone,
\* and ends when run has finished; when both are so, it does either.
CancelWakes(p) ==
    /\ canc[p] = "armed"
    /\ \/ p \in gone /\ canc' = [canc EXCEPT ![p] = "kill"]
       \/ bld[p].at # "running" /\ canc' = [canc EXCEPT ![p] = "off"]
    /\ UNCHANGED <<buLoad, imgs, live, conts, bld, gone, buspent>>

CancelRemoves(p) ==
    /\ canc[p] = "kill"
    /\ conts' = {k \in conts : k.id # bld[p].cid}
    /\ canc' = [canc EXCEPT ![p] = "done"]
    /\ UNCHANGED <<buLoad, imgs, live, bld, gone, buspent>>

\* commit with a container, and Daemon.Commit.  The configuration of the
\* container is the builder's at this time, and the image gets it with the
\* command of before the instruction.
Commit(p) ==
    LET s == bld[p]
        fs == IF s.image = 0 THEN <<>> ELSE imgs[s.image].fs
        img == [parent |-> s.image, cconf |-> s.conf, conf |-> Restored(s).conf, author |-> s.author,
                start |-> s.start,
                fs |-> IF s.fx = <<>> THEN fs ELSE Append(fs, s.fx)]
        fails == PutB(p, Errs(s)) /\ UNCHANGED <<imgs, live>> IN
    /\ s.at = "commit"
    /\ \/ /\ Alive(s.cid) /\ ~NoSource(s) /\ UNCHANGED buspent
          /\ imgs' = Append(imgs, img) /\ live' = live \cup {Len(imgs) + 1}
          /\ PutB(p, [Restored(s) EXCEPT !.image = Len(imgs) + 1, !.at = "next"])
       \/ (~Alive(s.cid) \/ NoSource(s)) /\ fails /\ UNCHANGED buspent
       \/ Pay("faults") /\ fails
    /\ UNCHANGED <<buLoad, conts, canc, gone>>

-----------------------------------------------------------------------------
(* Everybody else.                                                         *)

Cancel(p) ==
    /\ p \notin gone /\ bld[p].at # "end" /\ Pay("cancels")
    /\ gone' = gone \cup {p}
    /\ UNCHANGED <<buLoad, imgs, live, conts, bld, canc>>

\* docker rmi of an image with no child and no container; docker rm of a
\* container of a build.
Rmi(i) ==
    /\ i \in live /\ (\A j \in live : imgs[j].parent # i) /\ (\A c \in conts : c.image # i)
    /\ Pay("rmis") /\ live' = live \ {i}
    /\ UNCHANGED <<buLoad, imgs, conts, bld, canc, gone>>

Rm(c) ==
    /\ c \in conts /\ Pay("rms") /\ conts' = conts \ {c}
    /\ UNCHANGED <<buLoad, imgs, live, bld, canc, gone>>

-----------------------------------------------------------------------------
BuInit ==
    /\ buLoad \in BuLoads
    /\ imgs = SubSeq(Bases, 1, buLoad.bases) /\ live = DOMAIN imgs /\ conts = {}
    /\ bld = <<>>
    /\ canc = [p \in DOMAIN buLoad.req |-> "off"] /\ gone = {}
    /\ buspent = [cancels |-> 0, faults |-> 0, rmis |-> 0, rms |-> 0, exits |-> 0, made |-> 0]

BuStep(p) ==
    \/ Loop(p) \/ Continue(p) \/ Failed(p) \/ clearTmp(p) \/ BuildEnds(p)
    \/ from(p) \/ probeCache(p) \/ create(p) \/ CopyOnBuild(p) \/ RunExits(p) \/ RunFinish(p)
    \/ CancelWakes(p) \/ CancelRemoves(p) \/ Commit(p) \/ Cancel(p)

BuNext ==
    \/ \E p \in DOMAIN buLoad.req : StartBuild(p)
    \/ \E p \in DOMAIN bld : BuStep(p)
    \/ \E i \in live : Rmi(i)
    \/ \E c \in conts : Rm(c)

BuSpec == BuInit /\ [][BuNext]_buVars

-----------------------------------------------------------------------------
(* What a Dockerfile means, without a cache, containers or a store.        *)

RefField == [env |-> "env", label |-> "labels", user |-> "user", stopsignal |-> "stop"]
RefSet == [expose |-> "ports", volume |-> "volumes"]

\* One instruction other than FROM; r is the request.
RefPlain(r, s, i) ==
    LET c == s.conf IN
    CASE i.op \in DOMAIN RefField -> [s EXCEPT !.conf[RefField[i.op]] = Word(s, i.v)]
      [] i.op \in DOMAIN RefSet -> [s EXCEPT !.conf[RefSet[i.op]] = @ \cup {Word(s, i.v)}]
      [] i.op = "workdir" -> [s EXCEPT !.conf.work = JoinDir(@, Word(s, i.v))]
      [] i.op = "maintainer" -> [s EXCEPT !.by = i.v]
      [] i.op = "shell" -> [s EXCEPT !.conf.shell = i.v]
      [] i.op = "onbuild" -> [s EXCEPT !.conf.onbuild = Append(@, i.v)]
      [] i.op = "healthcheck" ->
            [s EXCEPT !.conf.health = [i.v EXCEPT !.interval = IF @ = 0 THEN c.health.interval ELSE @]]
      [] i.op = "arg" -> [s EXCEPT !.allowed = TRUE, !.arg = Or(@, i.v)]
      [] i.op = "cmd" -> [s EXCEPT !.conf.cmd = <<"cmd", i.v, c.shell>>, !.cmdSet = TRUE]
      [] i.op = "entrypoint" ->
            [s EXCEPT !.conf.entry = CASE i.v = "[]" -> EmptyCmd [] i.v = Unset -> @
                                       [] OTHER -> <<"entry", i.v, c.shell>>,
                      !.conf.cmd = IF s.cmdSet THEN @ ELSE NilCmd]
      [] i.op = "run" ->
            [s EXCEPT !.fs = Append(@, <<"run", i.v, c.shell, Word(s, "$x"), c.work, c.user, r.binds>>)]
      [] i.op = "copy" -> [s EXCEPT !.fs = Append(@, <<"copy", r.copied, c.work>>)]

\* The image of an instruction has the maintainer of the file, not the one of its FROM.
RefSigned(r, s, i) == LET t == RefPlain(r, s, i) IN [t EXCEPT !.author = t.by]

\* FROM starts again from an image: its triggers are the first instructions.
RefStep(r, s, i) ==
    IF i.op # "from" THEN RefSigned(r, s, i)
    ELSE IF i.v = "scratch" THEN [s EXCEPT !.fs = <<>>]
    ELSE LET b == imgs[Named(i.v)] IN
         FoldLeft(LAMBDA t, o : RefSigned(r, t, o),
                  [s EXCEPT !.conf = [b.conf EXCEPT !.onbuild = <<>>], !.fs = b.fs, !.author = b.author],
                  b.conf.onbuild)

Meaning(r) ==
    FoldLeft(LAMBDA s, i : RefStep(r, s, i),
             [conf |-> NoConf, fs |-> <<>>, author |-> Unset, by |-> Unset, cmdSet |-> FALSE,
              allowed |-> FALSE, arg |-> r.arg],
             r.file)

-----------------------------------------------------------------------------
\* All but the command and the triggers.
Seen(c) == [c EXCEPT !.cmd = NilCmd, !.onbuild = <<>>]

\* A build that succeeds returns the image its Dockerfile, arguments and
\* context describe, whatever the cache held: images of other builds, of
\* earlier versions of the file, of builds that failed half-way or run beside
\* it.  The cache compares only a part of the configuration and only with the
\* children of the current image; builds after a hit go on with a
\* configuration that is not the image's; ContainerCreate changes it.
\* Three hits give another image.  One is that of a stage that began elsewhere: it
\* came to the current image through instructions where this build has it in its
\* FROM, or the reverse.  cmdSet, the maintainer and the triggers are then not
\* what they were, and only these may differ in the result.  FROM scratch keeps the
\* configuration of the stage before it, of which Compare sees a part.  And
\* ENTRYPOINT without arguments hits the image of ENTRYPOINT [].
BuildsWhatIsWritten ==
    \A p \in DOMAIN bld : bld[p].ok =>
        LET i == imgs[bld[p].image]  m == Meaning(Req(p)) IN
        /\ bld[p].stray = {} => i.conf = m.conf /\ i.author = m.author
        /\ bld[p].stray \subseteq {"start"} => Seen(i.conf) = Seen(m.conf) /\ i.fs = m.fs

Settled(p) == bld[p].at = "end" /\ canc[p] \in {"off", "done"}

\* The cancellation removed one of several temporary containers: clearTmp may
\* have stopped at that one.
CutShort(p) == canc[p] = "done" /\ Cardinality(bld[p].tmp) > 1

\* With --rm a build that has ended leaves no container of an instruction
\* that succeeded, and with --force-rm, or when it succeeded, none at all,
\* however its end raced with a cancellation: clearTmp and the goroutine of
\* run remove containers side by side.  A FROM with several triggers is the
\* exception, when it is cancelled.
NoneLeft ==
    (buLoad.faults = 0 /\ buLoad.rms = 0) =>
        \A p \in DOMAIN bld : Settled(p) /\ Req(p).rm /\ ~CutShort(p) =>
            \A c \in conts : c.by = p => c.step = bld[p].step /\ ~bld[p].ok /\ ~Req(p).forcerm
=============================================================================
