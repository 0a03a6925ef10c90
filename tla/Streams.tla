------------------------------- MODULE Streams -------------------------------
(***************************************************************************)
(* The output of a container on its way to the log and to the attached     *)
(* clients: pkg/ioutils/bytespipe.go, pkg/broadcaster/unbuffered.go,       *)
(* runconfig/streams.go, daemon/logger/copier.go, AttachStreams of         *)
(* daemon/monitor.go and of container/container.go, and what the exit or   *)
(* the restart of the process does to them (StateChanged, Reset, Cleanup). *)
(*                                                                         *)
(* One stream.  The bytes are 1, 2, 3 ... in the order they leave the      *)
(* container.  The pipe of the first process's log is called 1, that of the*)
(* second 2; the others belong to clients.                                 *)
(***************************************************************************)
EXTENDS Integers, Sequences, SequencesExt

CONSTANTS SmClients,      \* attach requests
          SmRuns,         \* number of processes, one after the other
          minCap, maxCap, blockThreshold,   \* of BytesPipe
          bufSize,        \* of the copier
          SmLoads         \* [bytes, chunk, clients, restart, slow]

Runs == 1..SmRuns
Pipes == Runs \cup SmClients

VARIABLES smLoad,
          proc,      \* run -> none, running, exited
          emitted,   \* number of bytes the processes wrote so far
          mu,        \* the run whose copy goroutine is in Unbuffered.Write, or 0
          writers,   \* Unbuffered.writers
          copy,      \* run -> goroutine of AttachStreams: [at, chunk, i, evict, rest, cap]
          pipe,      \* pipe -> [data, buf, closed, reader, writer]
          copier,    \* run -> [at, hold]
          driver,    \* run -> none, open, closed
          logged,    \* bytes in the log
          client,    \* client -> [at, got, from, left]: what it got, from which byte on
          exit,      \* the handler of the process's end: [at, run, restart]
          late       \* loggerCloseTimeout has passed once

smVars == <<smLoad, proc, emitted, mu, writers, copy, pipe, copier, driver,
            logged, client, exit, late>>

-----------------------------------------------------------------------------
(* BytesPipe: the bytes that were not read yet, and the buffers they are   *)
(* in, [cap, room, len]: the capacity, what is left of it for writing, and *)
(* the number of bytes that were not read.                                 *)

Least(m, n) == IF m < n THEN m ELSE n
Skip(q, n) == SubSeq(q, n + 1, Len(q))

getBuffer(c) == [cap |-> c, room |-> c, len |-> 0]
NewBytesPipe == [data |-> <<>>, buf |-> <<getBuffer(minCap)>>, closed |-> FALSE,
                 reader |-> "no", writer |-> "no"]
bufLen(bp) == Len(bp.data)
Broadcast(bp) ==
    [bp EXCEPT !.reader = IF @ = "wait" THEN "woken" ELSE @,
               !.writer = IF @ = "wait" THEN "woken" ELSE @]

nextCap(c) == Least(c * 2, maxCap)

\* Write of p from the point where it goes into the last buffer: the pipe, what
\* is left of p, and the capacity of the last buffer that was used.
RECURSIVE Fill(_, _)
Fill(bp, p) ==
    LET last == Len(bp.buf)
        b == bp.buf[last]
        n == Least(Len(p), b.room)
        full == [bp EXCEPT !.data = @ \o SubSeq(p, 1, n),
                           !.buf[last] = [b EXCEPT !.room = @ - n, !.len = @ + n]]
        rest == Skip(p, n)
    IN  IF rest = <<>> \/ bufLen(full) >= blockThreshold
        THEN [bp |-> full, rest |-> rest, cap |-> b.cap]
        ELSE Fill([full EXCEPT !.buf = Append(@, getBuffer(nextCap(b.cap)))], rest)

\* Read takes n bytes and gives back the buffers it emptied.
RECURSIVE Drain(_, _)
Drain(bufs, n) ==
    IF n = 0 THEN bufs
    ELSE IF n >= bufs[1].len THEN Drain(Tail(bufs), n - bufs[1].len)
    ELSE [bufs EXCEPT ![1].len = @ - n]

Closing(bp) == Broadcast([bp EXCEPT !.closed = TRUE])

-----------------------------------------------------------------------------
(* The process, and the goroutine that copies its output.                  *)

ProcExit(r) ==
    /\ proc[r] = "running"
    /\ proc' = [proc EXCEPT ![r] = "exited"]
    /\ UNCHANGED <<smLoad, emitted, mu, writers, copy, pipe, copier, driver, logged, client,
                   exit, late>>

\* io.Copy reads what the process wrote, up to a chunk, and calls
\* Unbuffered.Write; or it ends with the fifo, which may still have held bytes
\* of a process that has exited.
CopyRead(r) ==
    /\ copy[r].at = "read"
    /\ \/ /\ mu = 0 /\ mu' = r
          /\ \E n \in 1..smLoad.chunk :
               /\ emitted + n <= smLoad.bytes
               /\ emitted' = emitted + n
               /\ copy' = [copy EXCEPT ![r] = [@ EXCEPT !.at = "write", !.i = 1, !.evict = {},
                                                        !.chunk = [i \in 1..n |-> emitted + i]]]
       \/ /\ proc[r] = "exited"
          /\ copy' = [copy EXCEPT ![r].at = "done"]
          /\ UNCHANGED <<mu, emitted>>
    /\ UNCHANGED <<smLoad, proc, writers, pipe, copier, driver, logged, client, exit, late>>

\* BytesPipe.Write returned: the next writer, or this one goes.
Wrote(r, ok) ==
    copy' = [copy EXCEPT ![r] = [@ EXCEPT !.i = @ + 1, !.at = "write",
                                          !.evict = IF ok THEN @ ELSE @ \cup {copy[r].i}]]

\* p goes into pipe w, up to its end or to blockThreshold.
WriteTo(r, w, bp, p) ==
    LET f == Fill(bp, p)
    IN  IF f.rest = <<>>
        THEN pipe' = [pipe EXCEPT ![w] = Broadcast([f.bp EXCEPT !.writer = "no"])] /\ Wrote(r, TRUE)
        ELSE /\ pipe' = [pipe EXCEPT ![w] = [f.bp EXCEPT !.writer = "wait"]]
             /\ copy' = [copy EXCEPT ![r] = [@ EXCEPT !.at = "blocked", !.rest = f.rest, !.cap = f.cap]]

WithBuffer(bp, c) == [bp EXCEPT !.buf = Append(@, getBuffer(c))]

PipeWrite(r) ==
    /\ copy[r].at = "write" /\ copy[r].i <= Len(writers)
    /\ LET w == writers[copy[r].i]
       IN  IF pipe[w].closed
           THEN Wrote(r, FALSE) /\ UNCHANGED pipe
           ELSE WriteTo(r, w, IF pipe[w].buf = <<>> THEN WithBuffer(pipe[w], minCap) ELSE pipe[w],
                        copy[r].chunk)
    /\ UNCHANGED <<smLoad, proc, emitted, mu, writers, copier, driver, logged, client, exit, late>>

\* The writer was woken: closed, still too much, or room for another buffer.
PipeResume(r) ==
    /\ copy[r].at = "blocked"
    /\ LET w == writers[copy[r].i]
       IN  /\ pipe[w].writer = "woken"
           /\ IF pipe[w].closed
              THEN Wrote(r, FALSE) /\ pipe' = [pipe EXCEPT ![w].writer = "no"]
              ELSE IF bufLen(pipe[w]) >= blockThreshold
              THEN pipe' = [pipe EXCEPT ![w].writer = "wait"] /\ UNCHANGED copy
              ELSE WriteTo(r, w, WithBuffer(pipe[w], nextCap(copy[r].cap)), copy[r].rest)
    /\ UNCHANGED <<smLoad, proc, emitted, mu, writers, copier, driver, logged, client, exit, late>>

\* All writers have it: those that failed are evicted.
CopyWritten(r) ==
    /\ copy[r].at = "write" /\ copy[r].i > Len(writers)
    /\ writers' = SelectSeq(writers, LAMBDA w : \A i \in copy[r].evict : writers[i] # w)
    /\ mu' = 0
    /\ copy' = [copy EXCEPT ![r].at = "read"]
    /\ UNCHANGED <<smLoad, proc, emitted, pipe, copier, driver, logged, client, exit, late>>

-----------------------------------------------------------------------------
(* BytesPipe.Read of pipe w.                                               *)

AtEOF(w) == bufLen(pipe[w]) = 0 /\ pipe[w].closed
ReadWaits(w) == pipe[w].reader = "no" /\ bufLen(pipe[w]) = 0 /\ ~pipe[w].closed
MayRead(w) == pipe[w].reader # "wait"

Waiting(w) == [pipe EXCEPT ![w].reader = "wait"]
First(w, n) == SubSeq(pipe[w].data, 1, Least(n, bufLen(pipe[w])))

\* Fault: a blocked writer is not told.
AfterRead_Silent(w, n) ==
    [pipe[w] EXCEPT !.reader = "no", !.data = Skip(@, Len(First(w, n))),
                    !.buf = Drain(@, Len(First(w, n)))]

\* The pipe after a read of n bytes; the end of file tells nobody.
AfterRead(w, n) ==
    LET k == Len(First(w, n))
        bp == [pipe[w] EXCEPT !.reader = "no", !.data = Skip(@, k), !.buf = Drain(@, k)]
    IN  IF AtEOF(w) THEN bp ELSE Broadcast(bp)

-----------------------------------------------------------------------------
(* Copier.copySrc of a run.  Every third byte is a newline.                *)

Newline(b) == b % 3 = 0
LastNewline(h) == SelectLastInSeq(h, Newline)

CopierRead(r) ==
    /\ copier[r].at = "read"
    /\ IF ReadWaits(r)
       THEN pipe' = Waiting(r) /\ UNCHANGED copier
       ELSE LET n == Least(smLoad.chunk, bufSize - Len(copier[r].hold))
            IN  /\ MayRead(r)
                /\ pipe' = [pipe EXCEPT ![r] = AfterRead(r, n)]
                /\ copier' = [copier EXCEPT ![r] = [at |-> IF AtEOF(r) THEN "last" ELSE "log",
                                                    hold |-> @.hold \o First(r, n)]]
    /\ UNCHANGED <<smLoad, proc, emitted, mu, writers, copy, driver, logged, client, exit, late>>

\* Whole lines are logged, and what is left of a full buffer or of the stream.
CopierLog(r) ==
    /\ copier[r].at \in {"log", "last"}
    /\ LET h == copier[r].hold
           eof == copier[r].at = "last"
           n == IF eof \/ (LastNewline(h) = 0 /\ Len(h) = bufSize) THEN Len(h) ELSE LastNewline(h)
       IN  /\ logged' = IF driver[r] = "open" THEN logged \o SubSeq(h, 1, n) ELSE logged
           /\ copier' = [copier EXCEPT ![r] = [at |-> IF eof THEN "done" ELSE "read",
                                               hold |-> Skip(h, n)]]
    /\ UNCHANGED <<smLoad, proc, emitted, mu, writers, copy, pipe, driver, client, exit, late>>

-----------------------------------------------------------------------------
(* Attached clients.                                                       *)

Attach(c) ==
    /\ client[c].at = "off" /\ mu = 0
    /\ exit.at \notin {"cancel", "stopped"}
    /\ writers' = Append(writers, c)
    /\ pipe' = [pipe EXCEPT ![c] = NewBytesPipe]
    /\ client' = [client EXCEPT ![c] = [@ EXCEPT !.at = "copy", !.from = emitted + 1]]
    /\ UNCHANGED <<smLoad, proc, emitted, mu, copy, copier, driver, logged, exit, late>>

\* io.Copy to the connection; when the connection fails (gone), or with the
\* pipe, the client is done and closes it.
ClientRead(c, gone) ==
    /\ client[c].at = "copy"
    /\ IF ReadWaits(c)
       THEN pipe' = Waiting(c) /\ UNCHANGED client
       ELSE /\ MayRead(c)
            /\ IF AtEOF(c) \/ gone
               THEN /\ pipe' = [pipe EXCEPT ![c] = Closing(AfterRead(c, smLoad.chunk))]
                    /\ client' = [client EXCEPT ![c] = [@ EXCEPT !.at = "done", !.left = @ \/ gone]]
               ELSE /\ pipe' = [pipe EXCEPT ![c] = AfterRead(c, smLoad.chunk)]
                    /\ client' = [client EXCEPT ![c].got = @ \o First(c, smLoad.chunk)]
    /\ UNCHANGED <<smLoad, proc, emitted, mu, writers, copy, copier, driver, logged, exit, late>>

\* The end of the client's input closes its output, and so does the
\* cancellation of the attach context.
ClientClose(c) ==
    /\ client[c].at = "copy" /\ ~client[c].left /\ ~pipe[c].closed
    /\ pipe' = [pipe EXCEPT ![c] = Closing(@)]
    /\ client' = [client EXCEPT ![c].left = TRUE]
    /\ UNCHANGED <<smLoad, proc, emitted, mu, writers, copy, copier, driver, logged, exit, late>>

ClientCancelled(c) ==
    /\ exit.at = "stopped" /\ client[c].at = "copy" /\ ~pipe[c].closed
    /\ pipe' = [pipe EXCEPT ![c] = Closing(@)]
    /\ UNCHANGED <<smLoad, proc, emitted, mu, writers, copy, copier, driver, logged, client,
                   exit, late>>

-----------------------------------------------------------------------------
(* The daemon: AttachStreams starts a run, StateChanged ends it.           *)

StartRun ==
    /\ exit.at = "start" /\ mu = 0
    /\ LET r == exit.run + 1
       IN  /\ writers' = Append(writers, r)
           /\ pipe' = [pipe EXCEPT ![r] = NewBytesPipe]
           /\ copier' = [copier EXCEPT ![r].at = "read"]
           /\ driver' = [driver EXCEPT ![r] = "open"]
           /\ copy' = [copy EXCEPT ![r].at = "read"]
           /\ proc' = [proc EXCEPT ![r] = "running"]
           /\ exit' = [at |-> "idle", run |-> r, restart |-> FALSE]
    /\ UNCHANGED <<smLoad, emitted, mu, logged, client, late>>

\* StateExit waits for the copies; StateRestart does not.
ExitEvent ==
    /\ exit.at = "idle" /\ proc[exit.run] = "exited"
    /\ \E again \in BOOLEAN :
         /\ again => smLoad.restart /\ exit.run < SmRuns
         /\ exit' = [exit EXCEPT !.at = IF again THEN "clean" ELSE "wait", !.restart = again]
    /\ UNCHANGED <<smLoad, proc, emitted, mu, writers, copy, pipe, copier, driver, logged,
                   client, late>>

ExitWait ==
    /\ exit.at = "wait" /\ \A r \in Runs : copy[r].at \in {"off", "done"}
    /\ exit' = [exit EXCEPT !.at = "clean"]
    /\ UNCHANGED <<smLoad, proc, emitted, mu, writers, copy, pipe, copier, driver, logged,
                   client, late>>

\* Reset: CloseStreams ...
ExitClean ==
    /\ exit.at = "clean" /\ mu = 0
    /\ pipe' = [w \in Pipes |-> IF \E i \in DOMAIN writers : writers[i] = w THEN Closing(pipe[w])
                                ELSE pipe[w]]
    /\ writers' = <<>>
    /\ exit' = [exit EXCEPT !.at = "drain"]
    /\ UNCHANGED <<smLoad, proc, emitted, mu, copy, copier, driver, logged, client, late>>

\* Fault: the log is closed without waiting for the copier.
ExitDrain_Hasty ==
    /\ exit.at = "drain"
    /\ driver' = [driver EXCEPT ![exit.run] = "closed"]
    /\ exit' = [exit EXCEPT !.at = IF exit.restart THEN "start" ELSE "cancel"]
    /\ UNCHANGED <<smLoad, proc, emitted, mu, writers, copy, pipe, copier, logged, client, late>>

\* ... and the log is closed when the copier is done, or ten seconds later.
ExitDrain ==
    /\ exit.at = "drain"
    /\ \/ copier[exit.run].at = "done" /\ UNCHANGED late
       \/ copier[exit.run].at # "done" /\ smLoad.slow /\ late' = TRUE
    /\ driver' = [driver EXCEPT ![exit.run] = "closed"]
    /\ exit' = [exit EXCEPT !.at = IF exit.restart THEN "start" ELSE "cancel"]
    /\ UNCHANGED <<smLoad, proc, emitted, mu, writers, copy, pipe, copier, logged, client>>

\* Cleanup: CancelAttachContext.
ExitCancel ==
    /\ exit.at = "cancel"
    /\ exit' = [exit EXCEPT !.at = "stopped"]
    /\ UNCHANGED <<smLoad, proc, emitted, mu, writers, copy, pipe, copier, driver, logged,
                   client, late>>

-----------------------------------------------------------------------------
(* The specification: the container is about to start.                     *)

SmInit ==
    /\ smLoad \in SmLoads
    /\ proc = [r \in Runs |-> "none"] /\ emitted = 0
    /\ mu = 0 /\ writers = <<>>
    /\ copy = [r \in Runs |-> [at |-> "off", chunk |-> <<>>, i |-> 1, evict |-> {}, rest |-> <<>>, cap |-> 0]]
    /\ pipe = [w \in Pipes |-> NewBytesPipe]
    /\ copier = [r \in Runs |-> [at |-> "off", hold |-> <<>>]]
    /\ driver = [r \in Runs |-> "none"] /\ logged = <<>>
    /\ client = [c \in SmClients |-> [at |-> "off", got |-> <<>>, from |-> 0, left |-> FALSE]]
    /\ exit = [at |-> IF smLoad.bytes = 0 THEN "stopped" ELSE "start", run |-> 0, restart |-> FALSE]
    /\ late = FALSE

Copying(r) == CopyRead(r) \/ PipeWrite(r) \/ PipeResume(r) \/ CopyWritten(r)
Logging(r) == CopierRead(r) \/ CopierLog(r)
Exiting == ExitEvent \/ ExitWait \/ ExitClean \/ ExitDrain \/ ExitCancel \/ StartRun

Attached(c) == ClientCancelled(c) \/ \E gone \in BOOLEAN : ClientRead(c, gone)
StreamStep == \/ \E r \in Runs : Copying(r) \/ Logging(r)
              \/ \E c \in smLoad.clients : Attached(c)
              \/ Exiting

SmNext ==
    \/ \E r \in Runs : ProcExit(r)
    \/ \E c \in smLoad.clients : Attach(c) \/ ClientClose(c)
    \/ StreamStep

SmSpec == SmInit /\ [][SmNext]_smVars

-----------------------------------------------------------------------------
(* Properties.                                                             *)

Output(from) == [i \in 1..(emitted - from + 1) |-> from + i - 1]

\* What is in the log is what the process wrote, in that order and without a
\* gap; after the container stopped, unless the logger was too slow, it is all
\* of it.  A client sees a run of the output without a gap that starts where it
\* attached, and everything from there when it stays to the end.  (For a
\* container that is not restarted: StateRestart does not wait for the copies.)
OutputComplete ==
    ~smLoad.restart =>
        /\ IsPrefix(logged, Output(1))
        /\ exit.at = "stopped" /\ ~late => logged = Output(1)
        /\ \A c \in smLoad.clients : client[c].at # "off" =>
             /\ IsPrefix(client[c].got, Output(client[c].from))
             /\ client[c].at = "done" /\ ~client[c].left => client[c].got = Output(client[c].from)

\* The goroutines never wait for each other: as long as a client that is
\* attached reads or goes away, one of them can go on until the process is left
\* to run, or the container has stopped (its handler holds the container's lock
\* all the time) and every client that was attached has been let go.
NeverStuck ==
    \/ ENABLED StreamStep
    \/ exit.at = "idle" /\ proc[exit.run] = "running"
    \/ exit.at = "stopped" /\ \A c \in SmClients : client[c].at # "copy"
=============================================================================
