------------------------------ MODULE MCDaemon ------------------------------
(* Instances of DeviceSet, Streams, JSONLog, EventBus, Health, LiveRestore  *)
(* and Builder.  A behaviour exercises one of the seven.                    *)
EXTENDS DeviceSet, Streams, JSONLog, EventBus, Health, LiveRestore, Builder

CONSTANTS u1, u2, cli, b1, b2, b3

VARIABLE part   \* the one this behaviour is about

Plain == [reqs |-> 4, faults |-> 0, crashes |-> 0, deferredRemove |-> FALSE,
          deferredDelete |-> FALSE, mounters |-> {}, leaks |-> FALSE,
          fresh |-> FALSE, retry |-> FALSE]
Mounts == [Plain EXCEPT !.mounters = {u1}, !.leaks = TRUE]
Deferred == [Mounts EXCEPT !.deferredRemove = TRUE, !.deferredDelete = TRUE]

\* Each configuration of devmapper with what may go wrong in it.
MCDmLoads ==
  {[Plain EXCEPT !.crashes = 2, !.retry = TRUE],
   [Plain EXCEPT !.crashes = 1, !.faults = 1, !.retry = TRUE],
   [Plain EXCEPT !.reqs = 2, !.crashes = 1, !.faults = 1, !.fresh = TRUE],
   [Mounts EXCEPT !.crashes = 1],
   [Mounts EXCEPT !.crashes = 1, !.deferredRemove = TRUE],
   [Deferred EXCEPT !.crashes = 1, !.retry = TRUE],
   [Deferred EXCEPT !.faults = 1],
   [Deferred EXCEPT !.reqs = 3, !.crashes = 1, !.faults = 1]}

StreamLoadOf(bytes, chunk, clients, restart, slow) ==
  [bytes |-> bytes, chunk |-> chunk, clients |-> clients, restart |-> restart, slow |-> slow]

\* A client; a log driver that is slow, so that closing it times out; a pipe that fills
\* up; a client and a restart of the container.
MCSmLoads ==
  {StreamLoadOf(3, 2, {cli}, FALSE, FALSE), StreamLoadOf(4, 2, {}, FALSE, TRUE),
   StreamLoadOf(9, 2, {}, FALSE, FALSE), StreamLoadOf(2, 2, {cli}, TRUE, FALSE)}

LogLoadOf(lines, capacity, files, follow, calm, pace, faults, close) ==
  [lines |-> lines, capacity |-> capacity, maxFiles |-> files, readers |-> {"a"},
   follow |-> follow, calm |-> calm, pace |-> pace, faults |-> faults, close |-> close]

\* Files of one or two lines, rotated two to five times under a reader that follows or
\* does not; calm: no rotation while a reader opens; pace: it keeps up with the writer.
MCJlLoads ==
  {LogLoadOf(6, 1, 3, TRUE, TRUE, TRUE, 0, TRUE), LogLoadOf(6, 2, 2, TRUE, TRUE, FALSE, 0, FALSE),
   LogLoadOf(6, 2, 3, FALSE, FALSE, FALSE, 1, FALSE),
   LogLoadOf(4, 2, 1, TRUE, TRUE, FALSE, 0, TRUE), LogLoadOf(8, 2, 2, TRUE, FALSE, FALSE, 1, TRUE)}

MCEvLoads == {[logs |-> 4, subs |-> {"s1"}], [logs |-> 2, subs |-> {"s1", "s2"}]}

HealthLoadOf(turns, ticks, stops, what, retries) ==
  [turns |-> turns, ticks |-> ticks, stops |-> stops, what |-> what, retries |-> retries]

MCHlLoads == {HealthLoadOf(4, 2, 1, {"exit", "restart", "pause", "resume", "oom"}, 2)}

RestoreLoadOf(r, x, c, keeps, always, slow) ==
  [reqs |-> r, exits |-> x, crashes |-> c, live |-> keeps, always |-> always,
   prompt |-> TRUE, slow |-> slow, fresh |-> FALSE]

\* --live-restore without and with a restart policy, and without it a container that does
\* not stop in time; three crashes.
MCLrLoads == {RestoreLoadOf(4, 3, 2, TRUE, FALSE, FALSE), RestoreLoadOf(3, 3, 2, FALSE, TRUE, TRUE),
              RestoreLoadOf(3, 3, 2, TRUE, TRUE, FALSE), RestoreLoadOf(3, 2, 3, TRUE, FALSE, FALSE)}

Ins(o, v) == [op |-> o, v |-> v]
Check(t, n) == [test |-> t, interval |-> n]
BaseImage(c) ==
  [parent |-> 0, cconf |-> [NoConf EXCEPT !.cmd = <<"base">>], conf |-> c, fs |-> <<<<"base">>>>,
   author |-> Unset, start |-> NoStart]

\* An image with a command and a health check, and one with triggers.
MCBases ==
  <<BaseImage([NoConf EXCEPT !.cmd = <<"cmd", "sh", Unset>>, !.health = Check("t", 5)]),
    BaseImage([NoConf EXCEPT !.onbuild = <<Ins("copy", "f"), Ins("run", "make")>>])>>
MCBaseOf == [plain |-> 1, triggers |-> 2]

Settings ==
  <<Ins("from", "plain"), Ins("maintainer", "me"), Ins("label", "l"), Ins("expose", "80"),
    Ins("volume", "/v"), Ins("workdir", "/w"), Ins("workdir", "rel"), Ins("stopsignal", "9"),
    Ins("shell", "bash"), Ins("healthcheck", Check("s", 0)), Ins("onbuild", Ins("run", "x")),
    Ins("user", "u"), Ins("cmd", "c"), Ins("entrypoint", "e"), Ins("copy", "f"), Ins("run", "r")>>
Arguments ==
  <<Ins("from", "plain"), Ins("arg", Unset), Ins("run", "r"), Ins("env", "$x")>>
Moves(d) == <<Ins("from", "plain"), Ins("workdir", d), Ins("copy", "f"), Ins("entrypoint", "e")>>
Triggered == <<Ins("from", "triggers"), Ins("run", "r")>>
Twice == <<Ins("from", "plain"), Ins("entrypoint", "e"), Ins("from", "scratch"), Ins("copy", "f"),
           Ins("entrypoint", "[]")>>

Chain(v) == <<Ins("from", v), Ins("maintainer", "me"), Ins("cmd", "c"), Ins("onbuild", Ins("copy", "f"))>>
Scratch(v) == <<Ins("from", "scratch"), Ins("copy", "f"), Ins("entrypoint", v)>>

BuildOf(f, a) ==
  [file |-> f, arg |-> a, nocache |-> FALSE, rm |-> TRUE, forcerm |-> FALSE, binds |-> Unset,
   copied |-> "h1", pull |-> FALSE, after |-> {}]
Later(r, b) == [r EXCEPT !.after = {b}]
BuLoadOf(reqs) ==
  [req |-> reqs, bases |-> 2, cancels |-> 0, faults |-> 0, rmis |-> 0, rms |-> 0,
   exits |-> 0]

NoBuilds == [BuLoadOf(<<>>) EXCEPT !.bases = 0]

\* A build over what another left in the cache, of which images are deleted; builds that
\* differ in an argument, a directory, the files or bind mounts, two of them side by side;
\* cancelled and failing builds; a file with two stages, and everything that may fail;
\* builds from the image of a build, beside one that goes on where that image was made;
\* FROM scratch with and without a stage before it, and the two empty entrypoints.
MCBuLoads ==
  {NoBuilds,
   [BuLoadOf(b1 :> BuildOf(Settings, Unset) @@ b2 :> Later(BuildOf(Settings, Unset), b1)) EXCEPT !.rmis = 2],
   BuLoadOf(b1 :> BuildOf(Arguments, "a") @@ b2 :> BuildOf(Arguments, "b") @@
            b3 :> Later(BuildOf(Arguments, "a"), b2)),
   BuLoadOf(b1 :> BuildOf(Moves("/w"), Unset) @@
            b2 :> Later([BuildOf(Moves("rel"), Unset) EXCEPT !.copied = "h2"], b1) @@
            b3 :> Later([BuildOf(Moves("/w"), Unset) EXCEPT !.binds = "bind", !.nocache = TRUE], b2)),
   [BuLoadOf(b1 :> [BuildOf(Triggered, Unset) EXCEPT !.forcerm = TRUE] @@
             b2 :> Later([BuildOf(Triggered, Unset) EXCEPT !.binds = "bind"], b1) @@
             b3 :> Later([BuildOf(Arguments, "a") EXCEPT !.forcerm = TRUE, !.nocache = TRUE], b2))
      EXCEPT !.cancels = 1, !.exits = 1],
   [BuLoadOf(b1 :> [BuildOf(Twice, Unset) EXCEPT !.pull = TRUE] @@
             b2 :> Later([BuildOf(Twice, "a") EXCEPT !.rm = FALSE, !.copied = Unset], b1))
      EXCEPT !.cancels = 1, !.faults = 1, !.rmis = 1, !.rms = 1],
   [BuLoadOf(b1 :> BuildOf(Chain("plain"), Unset) @@
             b2 :> Later(BuildOf(Chain("plain") \o <<Ins("copy", "f"), Ins("entrypoint", "e")>>, Unset), b1) @@
             b3 :> Later(BuildOf(<<Ins("from", b1), Ins("entrypoint", "e")>>, Unset), b1))
      EXCEPT !.rmis = 1],
   BuLoadOf(b1 :> BuildOf(<<Ins("from", "plain")>> \o Scratch("[]"), Unset) @@
            b2 :> BuildOf(Scratch("[]"), Unset) @@ b3 :> Later(BuildOf(Scratch(Unset), Unset), b2))}

SomeLoad(loads) == CHOOSE l \in loads : TRUE

DaemonInit ==
  /\ part \in {"devices", "streams", "log", "events", "health", "restore", "build"}
  /\ DmInit /\ SmInit /\ JlInit /\ EvInit /\ HlInit /\ LrInit /\ BuInit
  /\ part # "devices" => load = SomeLoad(DmLoads)
  /\ part # "streams" => smLoad = SomeLoad(SmLoads)
  /\ part # "log" => jlLoad = SomeLoad(JlLoads)
  /\ part # "events" => evLoad = SomeLoad(EvLoads)
  /\ part # "health" => hlLoad = SomeLoad(HlLoads)
  /\ part # "restore" => lrLoad = SomeLoad(LrLoads)
  /\ (part = "build") = (buLoad # NoBuilds)

\* All but devmapper, which must always go on, come to an end.
AtEnd == part # "devices" /\ UNCHANGED <<dmVars, smVars, jlVars, evVars, hlVars, lrVars, buVars>>

DaemonNext ==
  /\ \/ part = "devices" /\ DmNext /\ UNCHANGED <<smVars, jlVars, evVars, hlVars, lrVars, buVars>>
     \/ part = "streams" /\ SmNext /\ UNCHANGED <<dmVars, jlVars, evVars, hlVars, lrVars, buVars>>
     \/ part = "log" /\ JlNext /\ UNCHANGED <<dmVars, smVars, evVars, hlVars, lrVars, buVars>>
     \/ part = "events" /\ EvNext /\ UNCHANGED <<dmVars, smVars, jlVars, hlVars, lrVars, buVars>>
     \/ part = "health" /\ HlNext /\ UNCHANGED <<dmVars, smVars, jlVars, evVars, lrVars, buVars>>
     \/ part = "restore" /\ LrNext /\ UNCHANGED <<dmVars, smVars, jlVars, evVars, hlVars, buVars>>
     \/ part = "build" /\ BuNext /\ UNCHANGED <<dmVars, smVars, jlVars, evVars, hlVars, lrVars>>
     \/ AtEnd
  /\ UNCHANGED part

DaemonSpec == DaemonInit /\ [][DaemonNext]_<<part, dmVars, smVars, jlVars, evVars, hlVars, lrVars, buVars>>
=============================================================================
