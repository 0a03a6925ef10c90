------------------------------- MODULE JSONLog -------------------------------
(***************************************************************************)
(* The json-file log of a container: JSONFileLogger.Log and Close          *)
(* (daemon/logger/jsonfilelog), RotateFileWriter (loggerutils) with the    *)
(* publisher that announces a rotation (pkg/pubsub), and readLogs and      *)
(* followLogs, which read the same files without a lock.                   *)
(*                                                                         *)
(* The lines are 1, 2, 3 ...  A file is an inode with lines in it; `path'  *)
(* is name index i, the log itself for i = 0 and log.i for a rotated file. *)
(***************************************************************************)
EXTENDS Integers, Sequences, FiniteSets

CONSTANTS JlReaders, JlLoads     \* [lines, capacity, maxFiles, readers, follow, calm, pace, faults, close]

VARIABLES jlLoad,
          path,      \* index -> inode, or 0
          inode,     \* sequence of the contents of the inodes
          jw,        \* the writer: [at, i, f, open]; f is the inode of w.f
          newest,    \* the last line that Log was called with
          dropped,   \* a line was not written
          reader,    \* reader -> [at, i, files, f, pos, got]
          notify,    \* reader -> its channel for rotations: none, empty, full
          event,     \* reader -> [watch, ready] of its file watcher
          told,      \* readers whose watcher was closed
          jspent

jlVars == <<jlLoad, path, inode, jw, newest, dropped, reader, notify, event, told, jspent>>


\* The file watchers of inode f see a change.
Changed(f) == [r \in JlReaders |-> [event[r] EXCEPT !.ready = @ \/ event[r].watch = f]]

-----------------------------------------------------------------------------
(* Log: the lock of the logger and that of the writer are held to the end. *)

Begins == jw.at = "idle" /\ newest < jlLoad.lines /\ jspent.close = 0

Append1(f, l) == [inode EXCEPT ![f] = Append(@, l)]

\* There is room, or there is no file any more: a rotation has failed before.
LogPlain ==
    /\ Begins
    /\ ~jw.open \/ Len(inode[jw.f]) < jlLoad.capacity
    /\ newest' = newest + 1
    /\ IF jw.open
       THEN inode' = Append1(jw.f, newest + 1) /\ event' = Changed(jw.f) /\ UNCHANGED dropped
       ELSE dropped' = TRUE /\ UNCHANGED <<inode, event>>
    /\ UNCHANGED <<jlLoad, path, jw, reader, notify, told, jspent>>

Opening(r) == reader[r].at \in {"open", "tail", "register", "subscribe"}

LogRotates ==
    /\ Begins /\ jw.open /\ Len(inode[jw.f]) >= jlLoad.capacity
    /\ jlLoad.calm => \A r \in JlReaders : ~Opening(r)
    /\ jlLoad.pace => \A r \in JlReaders : notify[r] # "full"
    /\ newest' = newest + 1
    /\ jw' = [jw EXCEPT !.at = IF jlLoad.maxFiles < 2 THEN "create" ELSE "rename", !.i = jlLoad.maxFiles - 1]
    /\ UNCHANGED <<jlLoad, path, inode, dropped, reader, notify, event, told, jspent>>

\* rotate, from the oldest file on.
Rename ==
    /\ jw.at = "rename"
    /\ LET from == path[jw.i - 1]
       IN  /\ path' = IF from = 0 THEN path ELSE [path EXCEPT ![jw.i] = from, ![jw.i - 1] = 0]
           /\ event' = IF from = 0 THEN event ELSE Changed(from)
    /\ jw' = [jw EXCEPT !.at = IF jw.i = 1 THEN "create" ELSE "rename", !.i = @ - 1]
    /\ UNCHANGED <<jlLoad, inode, newest, dropped, reader, notify, told, jspent>>

\* One of these fails: w.f stays closed, and so fails every Log from now on.
RotateFails ==
    /\ jw.at \in {"rename", "create"} /\ jspent.faults < jlLoad.faults
    /\ jspent' = [jspent EXCEPT !.faults = @ + 1]
    /\ jw' = [jw EXCEPT !.at = "idle", !.open = FALSE]
    /\ dropped' = TRUE
    /\ UNCHANGED <<jlLoad, path, inode, newest, reader, notify, event, told>>

\* A new file, or the same one without its lines.
CreateFile ==
    /\ jw.at = "create"
    /\ IF path[0] = 0
       THEN /\ inode' = Append(inode, <<>>)
            /\ path' = [path EXCEPT ![0] = Len(inode) + 1]
            /\ jw' = [jw EXCEPT !.at = "publish", !.f = Len(inode) + 1]
            /\ UNCHANGED event
       ELSE /\ inode' = [inode EXCEPT ![path[0]] = <<>>]
            /\ event' = Changed(path[0])
            /\ jw' = [jw EXCEPT !.at = "publish", !.f = path[0]]
            /\ UNCHANGED path
    /\ UNCHANGED <<jlLoad, newest, dropped, reader, notify, told, jspent>>

\* Fault: nobody is told of the rotation.
Publish_Nobody ==
    /\ jw.at = "publish"
    /\ inode' = Append1(jw.f, newest) /\ event' = Changed(jw.f)
    /\ jw' = [jw EXCEPT !.at = "idle"]
    /\ UNCHANGED <<jlLoad, path, newest, dropped, reader, notify, told, jspent>>

\* A subscriber whose channel is full is skipped; then the line is written.
Publish ==
    /\ jw.at = "publish"
    /\ notify' = [r \in JlReaders |-> IF notify[r] = "empty" THEN "full" ELSE notify[r]]
    /\ inode' = Append1(jw.f, newest) /\ event' = Changed(jw.f)
    /\ jw' = [jw EXCEPT !.at = "idle"]
    /\ UNCHANGED <<jlLoad, path, newest, dropped, reader, told, jspent>>

\* Close: the readers that are registered are told to stop.
CloseLogger ==
    /\ jw.at = "idle" /\ jlLoad.close /\ jspent.close = 0
    /\ jspent' = [jspent EXCEPT !.close = 1]
    /\ told' = {r \in JlReaders : reader[r].at \in {"subscribe", "watch", "follow", "select"}}
    /\ UNCHANGED <<jlLoad, path, inode, jw, newest, dropped, reader, notify, event>>

-----------------------------------------------------------------------------
(* readLogs.                                                               *)

GotoR(r, l) == reader' = [reader EXCEPT ![r].at = l]

ReadLogs(r) ==
    /\ reader[r].at = "off" /\ r \in jlLoad.readers
    /\ jlLoad.calm => jw.at = "idle"
    /\ reader' = [reader EXCEPT ![r] = [@ EXCEPT !.at = "open", !.i = jlLoad.maxFiles - 1]]
    /\ UNCHANGED <<jlLoad, path, inode, jw, newest, dropped, notify, event, told, jspent>>

\* The rotated files that exist, from the oldest on, then the log; without it
\* the reader ends with an error.
OpenNext(r) ==
    /\ reader[r].at = "open"
    /\ LET i == reader[r].i
           f == path[i]
       IN  reader' = [reader EXCEPT ![r] =
                        IF i > 0 THEN [@ EXCEPT !.i = i - 1, !.files = IF f = 0 THEN @ ELSE Append(@, f)]
                        ELSE IF f = 0 THEN [@ EXCEPT !.at = "error"]
                        ELSE [@ EXCEPT !.at = "tail", !.f = f, !.files = Append(@, f)]]
    /\ UNCHANGED <<jlLoad, path, inode, jw, newest, dropped, notify, event, told, jspent>>

\* Fault: the log is followed from its first line on.
TailFile_Rewound(r) ==
    /\ reader[r].at = "tail"
    /\ LET f == Head(reader[r].files)
           last == Len(reader[r].files) = 1
       IN  reader' = [reader EXCEPT ![r] =
                        [@ EXCEPT !.got = @ \o inode[f], !.files = Tail(@), !.pos = 0,
                                  !.at = IF ~last THEN "tail"
                                         ELSE IF jlLoad.follow THEN "register" ELSE "done"]]
    /\ UNCHANGED <<jlLoad, path, inode, jw, newest, dropped, notify, event, told, jspent>>

\* tailFile, file by file, to the end of the last one.
TailFile(r) ==
    /\ reader[r].at = "tail"
    /\ LET f == Head(reader[r].files)
           last == Len(reader[r].files) = 1
       IN  reader' = [reader EXCEPT ![r] =
                        [@ EXCEPT !.got = @ \o inode[f], !.files = Tail(@),
                                  !.pos = IF last THEN Len(inode[f]) ELSE 0,
                                  !.at = IF ~last THEN "tail"
                                         ELSE IF jlLoad.follow THEN "register" ELSE "done"]]
    /\ UNCHANGED <<jlLoad, path, inode, jw, newest, dropped, notify, event, told, jspent>>

\* Under the lock of the logger.
Register(r) ==
    /\ reader[r].at = "register" /\ jw.at = "idle"
    /\ GotoR(r, "subscribe")
    /\ UNCHANGED <<jlLoad, path, inode, jw, newest, dropped, notify, event, told, jspent>>

NotifyRotate(r) ==
    /\ reader[r].at = "subscribe"
    /\ notify' = [notify EXCEPT ![r] = "empty"]
    /\ GotoR(r, "watch")
    /\ UNCHANGED <<jlLoad, path, inode, jw, newest, dropped, event, told, jspent>>

-----------------------------------------------------------------------------
(* followLogs.                                                             *)

\* fileWatcher.Add, by name.
Watch(r) ==
    /\ reader[r].at = "watch"
    /\ IF path[0] = 0
       THEN GotoR(r, "error") /\ UNCHANGED event
       ELSE GotoR(r, "follow") /\ event' = [event EXCEPT ![r] = [watch |-> path[0], ready |-> FALSE]]
    /\ UNCHANGED <<jlLoad, path, inode, jw, newest, dropped, notify, told, jspent>>

\* A line is decoded and sent; at the end of the file the reader waits.
Follow(r) ==
    /\ reader[r].at = "follow"
    /\ LET q == reader[r]
       IN  IF q.pos < Len(inode[q.f])
           THEN reader' = [reader EXCEPT ![r] = [@ EXCEPT !.got = Append(@, inode[q.f][q.pos + 1]), !.pos = @ + 1]]
           ELSE GotoR(r, "select")
    /\ UNCHANGED <<jlLoad, path, inode, jw, newest, dropped, notify, event, told, jspent>>

SelectEvent(r) ==
    /\ reader[r].at = "select" /\ event[r].ready
    /\ event' = [event EXCEPT ![r].ready = FALSE]
    /\ GotoR(r, "follow")
    /\ UNCHANGED <<jlLoad, path, inode, jw, newest, dropped, notify, told, jspent>>

SelectClose(r) ==
    /\ reader[r].at = "select" /\ r \in told
    /\ GotoR(r, "done")
    /\ notify' = [notify EXCEPT ![r] = "none"]
    /\ UNCHANGED <<jlLoad, path, inode, jw, newest, dropped, event, told, jspent>>

\* The file is opened again by its name.
SelectRotate(r) ==
    /\ reader[r].at = "select" /\ notify[r] = "full"
    /\ notify' = [notify EXCEPT ![r] = "empty"]
    /\ event' = [event EXCEPT ![r] = [watch |-> 0, ready |-> FALSE]]
    /\ IF path[0] = 0 THEN GotoR(r, "error")
       ELSE reader' = [reader EXCEPT ![r] = [@ EXCEPT !.at = "watch", !.f = path[0], !.pos = 0]]
    /\ UNCHANGED <<jlLoad, path, inode, jw, newest, dropped, told, jspent>>

-----------------------------------------------------------------------------
(* The specification.                                                      *)

JlInit ==
    /\ jlLoad \in JlLoads
    /\ path = [i \in 0..(jlLoad.maxFiles - 1) |-> IF i = 0 THEN 1 ELSE 0]
    /\ inode = <<<<>>>>
    /\ jw = [at |-> "idle", i |-> 0, f |-> 1, open |-> TRUE]
    /\ newest = 0 /\ dropped = FALSE
    /\ reader = [r \in JlReaders |-> [at |-> "off", i |-> 0, files |-> <<>>, f |-> 0, pos |-> 0,
                                      got |-> <<>>]]
    /\ notify = [r \in JlReaders |-> "none"]
    /\ event = [r \in JlReaders |-> [watch |-> 0, ready |-> FALSE]]
    /\ told = {} /\ jspent = [faults |-> 0, close |-> 0]

Writing == LogPlain \/ LogRotates \/ Rename \/ RotateFails \/ CreateFile \/ Publish \/ CloseLogger
Reading(r) == ReadLogs(r) \/ OpenNext(r) \/ TailFile(r) \/ Register(r) \/ NotifyRotate(r) \/ Watch(r)
              \/ Follow(r) \/ SelectEvent(r) \/ SelectClose(r) \/ SelectRotate(r)

JlNext == Writing \/ \E r \in JlReaders : Reading(r)
JlSpec == JlInit /\ [][JlNext]_jlVars

-----------------------------------------------------------------------------
(* Properties.                                                             *)

\* A reader sees no line twice and none before an older one while files are
\* rotated under it, as long as it opened them between two rotations and the
\* next one does not begin before it has heard of the last.
ReadInOrder ==
    jlLoad.calm /\ jlLoad.pace /\ jlLoad.maxFiles > 1 =>
        \A r \in JlReaders : \A i \in 1..(Len(reader[r].got) - 1) : reader[r].got[i] < reader[r].got[i + 1]

\* A reader that follows a log nobody writes to any more, and that waits with
\* nothing to wake it, has seen the newest line (jsonfilelog/read.go): the last of a
\* series of writes and rotations does not get past it unnoticed.  An older line may:
\* one written just before a rotation is skipped when the reader goes on to the new file.
FollowerCatchesUp ==
    \A r \in JlReaders :
        jlLoad.calm /\ jw.at = "idle" /\ ~dropped /\ newest > 0
        /\ reader[r].at = "select" /\ ~event[r].ready /\ notify[r] = "empty"
        => reader[r].got # <<>> /\ reader[r].got[Len(reader[r].got)] = newest
=============================================================================
