# A TLA+ model of the Docker engine

This directory holds TLA+ modules that model parts of the Docker 1.12 engine in
`src/docker`, configurations that check them with TLC, and proofs checked by TLAPS.
Paths below are relative to `src/docker`. `PROJECT.json` records, for every definition
that models code, the lines it stands for.

Contents: [the system](#the-system), [the modules](#the-modules),
[the runs](#the-runs), [bounds](#bounds), [fairness](#fairness),
[proofs](#proofs), [where code and documentation disagree](#where-code-and-documentation-disagree),
[what is not modelled](#what-is-not-modelled), [plan](#plan).

## The system

The engine is one daemon process. Every API request runs in a goroutine of its own;
more goroutines move layers, watch containers and copy streams. The daemon keeps its
state in memory under many small locks, and on disk in JSON files and directories that it
reads again when it starts. Processes in containers belong to containerd, a separate
daemon, which reports what happens to them in a stream of events.

| part | state | operations | what makes it hard |
|---|---|---|---|
| named locks (`pkg/locker`) | table of mutexes with waiter counts | Lock, Unlock | entries come and go while goroutines are on their way to them |
| transfers (`distribution/xfer`) | transfers by key, slots, queue, watchers | Transfer, Release, SetConcurrency, pull, push | sharing, cancellation, retries, ordering of channels |
| layer store (`layer`) | reference-counted layers and mounts, metadata, driver data | Register, Get, Release, CreateRWLayer, ReleaseRWLayer, restore | races of equal registrations, failing operations, crashes |
| volume store (`volume/store`) | names, drivers, references | Create, Get, Remove, Dereference | check and act over two calls, references kept only in memory |
| container volumes (`daemon/volumes.go`, `mounts.go`) | mount points | create, start, rm, volume create and rm, restore | partly failing creations, restarts, shared mount points |
| container life (`daemon`, `container`, `restartmanager`) | Running, Paused, Restarting, Dead, wait channel | start, stop, kill, restart, pause, unpause, exec, rm | automatic restarts that race with requests, time-outs, lock order |
| libcontainerd | object per container, queue of state changes | Create, AddProcess, Signal, Pause, event stream | events that arrive late and are applied from a queue |
| image store (`image`, `reference`, `daemon/image_delete.go`) | images, parents, tags and digests | create, tag, delete, restore | a deletion is a dozen calls, beside creation and use; crashes between them |
| names (`pkg/registrar`, `daemon/names.go`, `rename.go`) | names of containers, in memory and on disk | reserve, rename, release, restore | requests that fail half-way, a name read before the lock is taken |
| devmapper (`daemon/graphdriver/devmapper`) | thin devices: memory, metadata files, transaction file, pool | create, delete, mount, unmount, rollback | five places to keep in step over failures, crashes and busy devices |
| streams (`pkg/ioutils/bytespipe.go`, `pkg/broadcaster`, `daemon/logger/copier.go`) | bounded pipes, writers, readers | Write, Read, Close, attach, exit | blocking at the limit, an exit while output is on its way |
| json-file log (`daemon/logger/jsonfilelog`) | rotated files, readers | Log, rotate, tail, follow, Close | files are renamed under readers that hold no lock |
| events (`daemon/events`, `pkg/pubsub`) | subscribers, stored events | Log, Subscribe, Evict | slow and leaving subscribers |
| health checks (`daemon/health.go`, `container/health.go`) | a monitor per container | open, close, probe | a synchronous stop among three threads and two locks |
| live restore (`libcontainerd/remote_linux.go`, `client_linux.go`) | containers that outlive the daemon, time of the last event | restore, replay of events, restart of containerd | a crash of either side between an event and its record |
| swarm mode (`daemon/cluster/cluster.go`) | the node and its supervisor | init, join, leave, reconnect, clean-up | a lock that is given up while the node stops; restart with back-off beside requests |
| builder (`builder/dockerfile`, `runconfig/compare.go`) | configuration, current image, temporary containers; images as a cache | the instructions of a Dockerfile, cancel | a cache that compares part of a configuration; builds, deletions and cancellation side by side |
| plugins, stats, networks | | | not modelled, see [below](#what-is-not-modelled) |

How the parts meet:

- A pull (`distribution`) starts one transfer per layer. Each registers its layer with the
  layer store, on top of the layer of the transfer before it, and holds a reference until
  the transfer is released.
- A container has a read-write layer in the layer store, mount points in the volume store,
  and an object in libcontainerd.
- The volume store takes a lock of `pkg/locker` for the name of each volume. Graph drivers
  use the same package for the IDs of layers.
- An image holds a reference to its top layer, and a container to its read-write layer,
  which holds those under it. The layer store keeps its data in a graph driver.
- The output of a container goes through a broadcaster to a bounded pipe per reader. The
  log copier is one reader, attached clients are the others.
- libcontainerd reports state changes to the daemon from a queue per container. The daemon
  handles them under the container's lock, which requests hold as well.
- A build makes a container for an instruction and an image from it. The images it leaves are
  the cache of every later build.

## The modules

| module | models | shown by |
|---|---|---|
| `NamedMutex` | what `pkg/locker` promises: a mutex per name | |
| `Locker` | `pkg/locker/locker.go` | run `services`, `ServicesProofs` |
| `Broadcast` | progress of one transfer, `distribution/xfer/transfer.go:60-231` | run `services`, `ServicesProofs` |
| `TransferManager` | the manager and the life of a transfer, same file | runs `transfers*`, `TransfersProofs` |
| `Download` | `distribution/xfer/download.go`, over `TransferManager` | runs `transfers*`, `pull_cancel`, `PullPushProofs` |
| `Upload` | `distribution/xfer/upload.go`, over `TransferManager` | runs `transfers*`, `PullPushProofs` |
| `Transfers` | one manager with one kind of user | composition of the three above; `TransfersProofs` |
| `LayerStore` | `layer/layer_store.go`, `filestore.go`, `ro_layer.go`, `mounted_layer.go` | run `images`, `LayerStoreProofs` |
| `LayerInvariants` | | the inductive invariant of `LayerStore` |
| `Images` | `image/store.go`, `image/fs.go`, `reference/store.go`, `daemon/image_delete.go`, and who else makes, names and uses images | run `images` |
| `ContainerNames` | `pkg/registrar`, `daemon/names.go`, `daemon/rename.go`, and the naming side of create, rm and restore | run `images` |
| `VolumeStore` | `volume/store/store.go` over abstract drivers | run `containers`, `VolumeProofs` |
| `ContainerVolumes` | the daemon's use of the volume store | runs `containers`, `volumes_from_bind`, `VolumeProofs` |
| `ContainerLife` | the life of one container, from request to containerd | runs `containers`, `services`, `life_*` |
| `DeviceSet` | `daemon/graphdriver/devmapper`, `daemon/graphdriver/counter.go` | run `daemon` |
| `Streams` | `bytespipe.go`, `unbuffered.go`, `copier.go`, both `AttachStreams`, and the exit | run `daemon` |
| `JSONLog` | `daemon/logger/jsonfilelog`, `loggerutils/rotatefilewriter.go` | run `daemon` |
| `EventBus` | `daemon/events/events.go`, `pkg/pubsub/publisher.go` | run `daemon`, `DaemonProofs` |
| `Health` | `daemon/health.go`, `container/health.go` and their callers | runs `daemon`, `health_deadlock`, `ServicesProofs` |
| `LiveRestore` | `libcontainerd/remote_linux.go`, `Restore` of `client_linux.go`, and the daemon's restore | runs `daemon`, `restore_replay` |
| `Cluster` | `daemon/cluster/cluster.go` | run `services` |
| `Builder` | `builder/dockerfile`, and its use of create, commit and the image cache | run `daemon` |
| `...Proofs` | | theorems, see [below](#proofs) |
| `MC...` | the values of the constants | |

A process (goroutine) has a program counter `pc`. Code that runs under one lock, with no
call that another goroutine could observe or that may fail in between, is one action;
otherwise the code is cut where the lock is given up or where the driver, the database or
containerd is called. A definition marked "Fault" is not part of a specification. It is
the definition after it with a plausible bug, and shows that a property can tell the two
apart.

### Locker and NamedMutex

`Locker` has the mutex of the table (`mu`), the table (`locks`), the objects' mutexes
(`locked`) and counters (`waiters`). `Lock` is three steps: look up or create the entry and
count up under `mu`; take the object's mutex outside `mu`; count down. `Unlock` is three
steps: look up under `mu`; delete the entry if the counter reads zero; unlock both. An
object that nothing points to may be allocated again, which is what Go's allocator may do.
`NamedMutex` has only the name each goroutine wants and the set of goroutines that have got
theirs. `ImplementsNamedMutex` instantiates it with both read off the state of `Locker`.

### Broadcast, TransferManager, Download, Upload, Transfers

`Broadcast` has the goroutine that receives progress items and one goroutine per watcher.
A signal to a watcher that does not listen is dropped, as in the code's `select` with
`default`.

`TransferManager` has the map of transfers, the slots and the queue, and for each transfer
its watchers and its channels. A channel that is only ever closed is a set of transfers.
A caller of `Transfer` that finds a cancelled transfer waits for its `Done()` (`blockedOn`)
and tries again.

`Download` adds clients (calls of `Download`) and transfer functions. All clients pull
prefixes of one chain, so that a layer is its index; `SameAs` makes a layer repeat the data
of an earlier one, which the code handles by waiting for the other download
(`makeDownloadFuncFromDownload`). The layer store appears as the holders of each layer: a
layer is there as long as it, or a layer above it, is held, which is what `LayerStore`
establishes. `Upload` adds pushes and a registry, the set of layers it has.

Each manager of layers has a transfer manager of its own, so a behaviour of `Transfers` has
users of one kind: `callers`, which do all that the interface of the manager allows,
`pulls`, or `pushes`. `SetConcurrency` is a step of the callers.

### LayerStore

A ChainID determines the layers below it, so the parent of a layer is a constant function.
`data` is what the driver stores and `meta` the metadata directory of a layer: none, full,
or torn by an interrupted operation. `Register`, `CreateRWLayer` and the releases are cut at
each driver and metadata operation. Each of these may fail, and the daemon may crash between
any two; the restart is the code of `NewStoreFromGraphDriver`.

Simplifications:

- Metadata is written to a temporary directory and renamed, so a layer's directory is torn
  only while it is removed; that of a mount is written file by file, and may also be torn
  while it is written. A torn directory is not loaded, but makes every later commit of
  that layer fail; so does the model.
- Driver layers and transactions that nobody names any more cannot be touched by any step.
  The model keeps one bit (`orphans`) that says there are some.
- `deleteLayer` removes the data before the metadata. A removal interrupted between the two
  leaves a layer that the restart loads without its data. `damaged` remembers these layers,
  and `HeldIntact` and `CrashKeepsLayers` make no claim about them.
- Content, sizes, digests and tar-split data are left out.

### VolumeStore and ContainerVolumes

A call of the store takes the lock of its name (the lock of `Locker`, seen as the atomic
lock of `NamedMutex`), and is cut at each driver operation. A volume is a driver and a name;
drivers may go away and come back. Options, labels and scopes decide nothing in the store
and are left out. A driver that `GetDriver` does not find makes `Remove` use a nil driver
(`store.go:428`); the panic is recovered by the HTTP server, and the deferred unlock runs.

`ContainerVolumes` adds what the daemon does: `volume create` and `volume rm` (two calls of
the store), the mount point of a container from a bind, an image volume or
`--volumes-from`, creation that fails early or late, start with or without a host config,
`rm` with or without `-v`, and the restart, which takes the references again before it
serves requests: by starting the containers with a restart policy, which may fail before their
mounts are set up (`RestartFails`), and by `prepareMountPoints` for the others. A container has
one mount point.

### ContainerLife

One container, the requests of its clients, and the goroutines of libcontainerd. The state
is the container's lock (`cL`) and libcontainerd's lock for its ID (`clL`); Running, Paused
and Restarting (`st`); the wait channel, as the set of processes that wait on it; the
restart managers, one per start; libcontainerd's object, its queue and the event it has in
hand; and containerd: the process, its execs, and the stream of events not yet received.
A request is cut where it takes or gives up a lock, where it waits, and where it calls
containerd. An event is received, looked up and handled in separate steps, and the state
change it causes is run later from the queue.

### Images

Each step is one call of a store, under that store's own lock; no request holds a lock over
two of them. `images`, the image files, the parents in memory and in files, and the
references are the state of the two stores. The layer store is its reference counts, as
`LayerStore` establishes. `make` stands for what `load`, pull and `commit` have in common: register
the layer, `store.Create`, `SetParent`, tag, release. A deletion by reference or by ID is
cut at every call: the conflict check, the removal of each reference of a list read earlier,
`store.Delete` (the map, the files, then the layer), and the pruning of the parent. The removal
of a file may fail, which `store.Delete` ignores; `stuck` remembers the images whose content file
stayed. The daemon may die between any two calls and between the steps of `store.Create` and
`store.Delete`; when an image file has no layer it does not start again.
Containers appear as the image they name and the layer they hold. References are three: a name
without a host, the same name under a registry, and a digest in another repository; `Matching` and
`isSingleReference` are those of the code.

### ContainerNames

Three containers and two names. The registrar (name to ID, ID to names) is one variable, the
name in the container object, the name in its file and the entry in `daemon.containers` are
others, for the requests change them one at a time. A failed `ToDisk` or network rename goes
through the deferred functions of `ContainerRename`, of which the second writes the old name back
and may fail itself, and the first takes the old name again, if nobody else has it by then.
`marred` remembers the containers that are left without their name, or with another on disk.

### DeviceSet

A device is an object in `Devices` with its own lock, a metadata file and a thin device in the
pool; the transaction file says which operation is open. Each of them is a variable. The calls
that change the disk or the pool, and a mount, may fail, in the rollback, too, which only logs it;
those with which a failed creation takes its device back, an unmount, the deactivation of a device
and the end of the daemon do what the state of the device allows. A crash forgets the memory;
`initDevmapper` loads the metadata files, rolls the open transaction back, and sets up the
base device. `past` remembers what rollbacks left behind, for the properties. The reference
counter in front of the driver (`counter.go`) returns its count after it has unlocked, and so does the model. Pool size, file systems, loop-back devices,
discards and udev are left out.

### Streams

The bytes of one output stream are numbered. A pipe is the bytes not read yet and its list of
buffers, so that `blockThreshold`, `minCap` and `maxCap` decide the same as in `BytesPipe`.
The copying goroutine, the log copier, one client and the handler of the exit are the
processes; a reader or writer that waits on the pipe's condition is recorded in the pipe and
goes on only after a broadcast, so that a missing broadcast is a missing wake-up.

### JSONLog

A file is an inode, and a path names one. Renaming, truncating and creating change paths;
a reader keeps the inode it has opened. The file watcher and the rotation channel are the
two things that wake a follower.

### EventBus

Stored events, the channel of each subscriber and the events being published. A publication
holds the read lock of the publisher; a full channel is skipped after 100 ms.

### Health

Three threads open and close the monitor: libcontainerd's event queue, a start or automatic
restart, and `docker stop`. Each holds the container's lock or not as the code does.
`CloseMonitorChannel` reads its field twice and sends on a channel without buffer, so it can
only go on when the monitor is at one of its selects.

### LiveRestore

One container that is run several times. Containerd is its log of events and its process;
the daemon keeps the position of the last event it has handled, on disk. The daemon dies at any
point, in the middle of a start, of an event and of its own restore; containerd dies at any point
while the daemon is up, and a `CreateContainer` under way then waits, or fails with the process
made or not. Containerd does not die while the daemon restores. Every run has a number, which no
guard reads, so that a property can say whose exit code is shown, and `lost` remembers the runs
that the code loses sight of.

### Cluster

The fields of `Cluster` under its lock, each swarmkit node with its end and its `done`
channel, and a supervisor (`reconnectOnFailure`) per node that was started for a request.
`stopNode` gives up the lock while it waits, and `Leave` removes the state without it.
`Info` takes the read lock twice. `leavers` and `doubled` are there for the property alone. The
swarmkit node is external: it gets ready, fails, or ends after `Stop`.

### Builder

Builds that run side by side over one image store. `bld` is the `Builder` of each: the
configuration, the current image, the flags (`cmdSet`, `cacheBusted`, the allowed arguments)
and the temporary containers. `dispatch` applies an instruction up to the first call of the
daemon; the build is cut there, at `probeCache`, at the creation of the container, at the copy or
the run, and at the commit. The goroutine that cancels a `RUN` is a process of its own (`canc`).
Other clients delete images and containers.

- The configuration that `ContainerCreate` merges with that of the image is the builder's own
  object, so what it fills in stays for the next instructions. After a cache hit nothing is
  filled in.
- `Compare` leaves out the working directory, the stop signal, the shell, the health check and
  the triggers, and takes a nil slice for an empty one. That a hit is right all the same rests on
  the comment with the instruction, which is the command of the container, and on the chain of
  parents. It is not always: every image keeps what its stage began with (`start`, which no guard
  reads), and a build remembers the hits that may be wrong (`stray`).
- A `FROM` names a base image, `scratch`, or the image that another build has made.
- One variable, `$x`, stands for environment and arguments. A label, a port or a directory is a
  value. The content of an image is the list of what its `RUN` and `COPY` instructions saw when
  they ran: shell, environment, directory, user, mounts and files.
- `ADD` is `COPY`. The default `PATH`, `ArgsEscaped`, quoting and the parser are left out.

`Meaning` says what a Dockerfile means without cache, containers and store: a fold over its
instructions. `BuildsWhatIsWritten` compares it with the image a build returns.
It is taken from the code in two points that the documentation leaves open: `FROM scratch` keeps
the configuration, and a second `FROM` keeps the maintainer and the fact that a `CMD` was given.

## The runs

The constant `Loads` of a module is a set of scenarios: which operations the users ask for,
and how many failures, crashes or exits happen. `Init` picks one (`load`), which stays. A
run therefore covers several configurations, each as large as TLC's time allows. `Users`
does the same for `Transfers`. Four runs hold several components: a behaviour of such a run
exercises one of them while the others rest, so the run is the sum of its parts.

| run | states | component | shows |
|---|---|---|---|
| `transfers` | 1,384,950 | transfers | the counter of active transfers is exact, and while a transfer is queued another has a slot to hand over; one live transfer per key; a watched transfer is not cancelled; `Released()` closes when a transfer is out of the map and its last watcher has gone, not before and not never; layers stay while they are needed; a push that succeeds has pushed every layer |
| `transfers_live` | 221,944 | transfers | every pull and push ends, and no layer stays referenced |
| `images` | 1,229,854 | `LayerStore` | reference counts are exact on every error path; nothing in use is removed; nothing is left behind; a crash loses no layer in use |
| | | `Images` | images and containers keep every layer they are made of, and no reference is lost; at any point where the daemon may die, every image file that could be removed when it was to be has its layers; after requests one at a time, memory, files and references agree |
| | | `ContainerNames` | when nothing is in progress, a name leads to a container with this name; every container is found under its own, in memory and after a restart, but for those a failed rename has harmed |
| `containers` | 1,161,120 | `ContainerVolumes` | a volume in use exists in its driver; the volume of a container is not removed; no reference leaks |
| | | `ContainerLife` | once all is quiet the daemon, libcontainerd and containerd agree; a removed container has no process |
| `services` | 64,863 | `Locker` | no entry outlives its users; implements `NamedMutex`; a wanted name is granted to somebody |
| | | `Broadcast` | nothing sent before a watcher detached is missed; watchers end with the transfer |
| | | `Cluster` | at most one swarm node runs, forced Inits beside other requests excepted, and none after a Leave that succeeded; a node that failed, or a daemon that died, comes back |
| | | `ContainerLife` | requests end |
| `daemon` | 885,123 | `DeviceSet` | a device that was created and not deleted survives failures and crashes, with its metadata; no thin device is left without an owner, and deferred deletions are counted |
| | | `Streams` | the log and the clients get the output in order, without a gap and to its end; no set of goroutines waits for each other |
| | | `JSONLog` | a reader sees no line twice or out of order over rotations; a waiting follower has seen the newest line |
| | | `EventBus` | an event is in the stored ones or in the channel, unless the client was too slow |
| | | `Health` | one monitor at most, and it is the one that can be stopped |
| | | `LiveRestore` | when every event is handled, the daemon shows the state and the exit code of the last run |
| | | `Builder` | a build that succeeds returns the configuration and content its Dockerfile says, with the cache or without, beside other builds and deletions; it leaves no container behind when asked to remove them |
| `pull_cancel`, `volumes_from_bind`, `life_restart`, `life_pause`, `health_deadlock`, `restore_replay` | violation | | see [below](#where-code-and-documentation-disagree) |

Each of these properties is violated under at least one fault of the code it is about;
`PROJECT.json` lists the pairs under `mutants`.

Some properties hold only in part of what is modelled, and say so in their statement:

- `RefsAreReal` and `ReferencedNotRemoved` are stated for behaviours without
  `--volumes-from` of a bind, starts with a host config, failing links and drivers that go
  away (`Plain`). Each of those breaks them. `ReferencedNotRemoved` also exempts a container
  that the starting daemon failed to start again, until it is started (`missed`): the code takes
  no reference for it.
- `Agreement` and `RemovedHasNoProcess` are stated for behaviours in which containerd
  refuses nothing. After a refused start the code leaves its object or its process behind.
- `RequestsEnd` is checked for a container that is started once.
- `HeldIntact` and `CrashKeepsLayers` say nothing of a layer whose removal was interrupted
  between its data and its metadata (`damaged`).
- `RestartLoads` exempts an image file that `store.Delete` could not remove (`stuck`), and
  `ImagesAgree` is stated for requests one after the other and removals that do not fail.
- `NamesAgree` does not say of a container whose rename failed that it is found under its name
  (`marred`), nor of one whose name such a container took away later. The loads of
  `ContainerNames` never have two requests on one container, which break the property, see the
  table below.
- `OneNode` exempts a forced Init that gets the lock back after another request has started a
  node (`doubled`). Two clients that initialize, join and leave are not combined with nodes that
  fail or with the end of the daemon.
- In the loads of `Cluster` in which nodes fail and clients leave or initialize, no Init or
  Join begins while a supervisor is alive (`calm`).
- `OutputComplete` is stated for a container that is not restarted, and asks for the last
  line only when the log driver closed in time.
- `ReadInOrder` is stated for readers that open the files between two rotations and hear of
  one rotation before the next begins (`calm`, `pace`). `FollowerCatchesUp` is about the newest
  line: an older one, written just before a rotation, may be skipped.
- `DevicesSurvive` exempts a device that was deleted in place of another. A rollback frees the id of a
  device and leaves the device in `Devices`; when its deletion is asked for again, what has the
  id by then is deleted (`past.lost`).
- `NothingLeaked` makes no claim about a device that a rollback could not delete, because it was
  in use or the call failed (`past.orphans`), and lets the counter of deleted devices stay too high
  after the metadata of a device could not be removed.
- `StatesAgree` makes no claim about a run the code has lost sight of (`lost.run`): the daemon
  died between `CreateContainer` and `StateStart`; containerd died after it had made the process
  and before it answered; or either died before the time of the start was on disk, and an event of
  an earlier run comes again. After a restart that failed, the entry the code leaves in
  `client.containers` is exempt, too (`lost.restart`).
- The passing loads of `LiveRestore` handle the replayed events before the container is used
  again (`prompt`); `restore_replay` shows the other case.
- `BuildsWhatIsWritten` exempts three wrong hits in the cache (`stray`). After the hit of a
  stage that began elsewhere, the command, the maintainer and the triggers of the result may be
  others; after a `FROM scratch` that follows another stage, and after an `ENTRYPOINT` without
  arguments, no claim is made.
- `NoneLeft` makes no claim when calls of the daemon fail or clients remove the containers of a
  build, nor about a cancelled `FROM` with several triggers. The loads of `Builder` have no build
  without bind mounts after one with them. Both cases are in the table below.

## Bounds

| bound | value | why it is enough for the case in question |
|---|---|---|
| goroutines on a lock | 3, with 2 names, 4 objects | a holder, a waiter and a newcomer that meets the entry being deleted; one object more than can be in use |
| watchers, items | 2, 1 | the last item is stored while one watcher reads and the other detaches; any number of both is proved for `NothingMissed` |
| transfers, layers, clients | 3 over 2 layers and 2 clients | a layer is cancelled and asked for again while its parent is in flight |
| transfers in `transfers_live` | 4 over 3 layers | the third layer repeats the first, and the other client pulls it |
| concurrency limit | none or 1 | at 1 a transfer and its parent compete for the slot; callers change it at any time |
| attempts, failures | 2, and 1 (pull) or 2 (push) | one retry, and a push that runs out of attempts |
| processes, layers, mounts | 2, chain of 3 (depth limit 2), 1 | two registrations race; parent, child and a layer that is too deep |
| failures, crashes in the layer store | 1, and 1 | every error path and every crash point; a failure before or after a crash, for one layer and for one mount |
| images, references, requests | 3, 3, 4 with 2 at a time | a base, a child and an image that shares the layer of the base; a deletion beside any other request |
| failures, crashes in images | 1, and 1 | a file that stays, then the layer that goes, then the restart that does not find it; with a crash 3 requests |
| containers, names, name requests | 3, 2, 6 | more containers than names; a name is taken, given back and taken by another |
| failures, crashes in names | 2, and 1 | a failure in the undoing of a failure, with one request or two at a time (5 requests) |
| containers, clients, drivers, names of volumes | 2, 1, 2, 1 | two holders and a remover, same name under two drivers; names do not share state beyond their locks. Failures, restarts and a driver that goes away are explored for every two of the three; every restart with containers it cannot start |
| clients of a container | 2, with 2 starts by request | a request beside any other; two restart managers and two objects |
| exits, execs | 2, 1 | an exit by itself, one after a restart; an exec that ends under another request |
| devices, ids | 2 and the base, 2 (`DmMaxId`) more | an id is used again while its former device is still known somewhere |
| device requests, failures, crashes | up to 4, 1, 2 | a crash in the rollback of a crash, a failure in the rollback; with deferred deletion 1 crash, and 3 requests when a call fails, too |
| buffers of a pipe | `minCap` 1, `maxCap` 2, `blockThreshold` 3, up to 9 bytes | a buffer grows, the list of buffers grows, and the writer blocks twice |
| lines of a log, per file, files | 8, 1 or 2, 1 to 3 | a reader is two rotations behind; a file it has open is removed |
| events, stored, channel | 4 (2 with two subscribers), 2, 1 | stored events are dropped, a channel is full |
| starts and stops of a monitor | 4, with 2 ticks | a monitor is replaced while its probe is running |
| runs of a restored container | 4 requests, 3 exits, 2 crashes; 3, 3 and 2 with a restart policy or without `--live-restore`; 3, 2 and 3 | a run whose exit is handled after the next one began; a crash in the restore after a crash in a start |
| swarm nodes, requests, failures | 8, 4, 2 | the node that replaces a failed one fails, too; two clients with 3 requests and 1 failure |
| builds, instructions | 3, up to 16 | a build that finds the images of two others, two builds of one file with different arguments, a build from the image of another; every instruction |

Symmetry is used for processes and containers in safety runs only. Deadlock is checked in
`images`, `containers` and `daemon`, for the parts that must always be able to go on: the layer
store, the volume store and devmapper. In the other parts requests come to an end, and a
stuttering step stands for that.

## Fairness

- `Locker`: weak fairness of each goroutine's steps inside `Lock` and `Unlock`, and holders
  unlock in the end, as every caller does. `sync.Mutex` of this Go version does not promise a
  particular waiter its turn, so the liveness property is about some waiter.
- `Broadcast`: weak fairness of the broadcaster and of each watcher. The transfer may fall
  silent for ever. A write to a client is assumed to end.
- `Transfers`: weak fairness of the steps of all goroutines taken together. With bounded
  transfers and attempts every goroutine only moves forward, so this is the least one can
  assume of a scheduler. Nobody has to cancel, and nothing has to fail; a download or an
  upload that does not fail is assumed to end.
- `ContainerLife`: weak fairness of each request's own steps, of libcontainerd's, of time-outs,
  of the end of the back-off, and of the exit of a process that got SIGKILL; and clients stop
  asking at some point. With a client that asks for ever, a request could lose every race
  for a mutex, and weak fairness says nothing about it. A process that got a weaker signal
  need not exit. A time-out of 2 to 10 seconds happens only when libcontainerd has handled
  all that has happened (`Settled`): the waits are long compared with the queue.
- `Cluster`: weak fairness of the goroutines of requests, of the supervisors and of the end of
  a node that was told to stop; the daemon is started again after it has gone down. Nothing
  is assumed of requests, of failures or of a node getting ready.
- `Health`: weak fairness of the threads that stop a monitor and of the monitors; a probe ends,
  or the time-out of the monitor ends it.

## Proofs

The theorems hold for every value of the constants that satisfies the named assumption of
the module: any number of goroutines, clients, layers, mounts, containers, volumes,
subscribers, failures and crashes. TLC evaluates each assumption in a run.

| proved in | about | from | theorem | statement |
|---|---|---|---|---|
| `ServicesProofs` | `Locker` | `LockerAssumption` | `SpecIInv` | the inductive invariant `IInv` |
| | | | `TypeCorrect` | types; a counter never goes below zero |
| | | | `LockerExcludes` | `MutualExclusion` |
| | | | `UnlockSucceeds` | `UnlockFindsOwnLock` |
| | | | `TableDoesNotLeak` | `NoLeakedEntry` |
| | | | `LockerImplements` | `ImplementsNamedMutex`: every step is a step of `NamedMutex` or changes nothing in it |
| | `Broadcast` | | `SpecBcInv`, `WatchersMissNothing` | `NothingMissed` |
| | `Health` | | `SpecHlInv`, `MonitorIsUnique` | `OneMonitor` |
| `TransfersProofs` | `TransferManager`, under any callers | `TMAssumption` | `SpecTMInv` | the inductive invariant `TMInv` |
| | | | `QueueIsServed` | `QueueNotStranded`; and `OnlyLimitFreesSlot`, a property of steps: a slot that is free while a transfer is queued was made so by a change of the limit |
| | | | `TransfersAreShared` | `NoDuplicateTransfer` |
| | | | `WatchersKeepTransfer` | `WatchedNotCancelled` |
| | | | `ReleaseIsExact` | `ReleasedExactly` |
| | `Transfers`, pulls or pushes over the manager | also `DownloadAssumption`, `UploadAssumption` | `SpecTInv` | the inductive invariant `TInv` |
| | | | `ManagerServesUsers` | the four properties of the manager, in the composition |
| | | | `PullIsRetained` | `ResultRetained` |
| | | | `PushIsComplete` | `PushedIsThere` |
| `LayerStoreProofs` | `LayerStore` | `LayerAssumption` | `SpecLsInv` | the inductive invariant `LsInv` |
| | | | `CountsAreExact` | `CountExact` |
| | | | `HeldLayersAreIntact` | `HeldIntact` |
| | | | `NothingIsLeft` | `NothingLeft` |
| | | | `CrashesKeepLayers` | `CrashKeepsLayers`, a property of steps |
| `DaemonProofs` | `EventBus` | `EvAssumption` | `SpecEvInv`, `SubscribersMissNothing` | `NoEventMissed` |
| `VolumeProofs` | `VolumeStore` with `ContainerVolumes` | `VolumeAssumption`, `MountAssumption` | `SpecVolInv` | the inductive invariant `VolInv` |
| | | | `HeldVolumesExist` | `HeldVolumeExists` |
| | | | `ReferencesAreReal` | `RefsAreReal` |
| | | | `ReferencedVolumesStay` | `ReferencedNotRemoved`, a property of steps |

The other proof modules hold lemmas: `PullPushProofs` has the steps of pulls and of pushes,
`LayerHolderProofs` the counts of the layer store, `LayerDiskProofs` its driver and
metadata, and the second half of `DaemonProofs` the steps of the volume store.

A proof has one lemma or step per action, and under it one step per conjunct that the action
can disturb. The actions of other actors are dealt with by frame lemmas, which say what a
step of one leaves alone of what belongs to another. The line `USE SMTT(30), Z3T(30),
ZenonT(30)` at the head of a module gives a leaf more time than the default and a second
attempt; it adds no fact.

### Why the invariants are what they are

**Locker.** Mutual exclusion is not inductive by itself, for two goroutines could own two
objects under one name. `IInv` ties the pieces together: every goroutine inside `Lock` or
`Unlock` points to the object that the table has for its name, except an unlocker that has
just deleted the entry and still holds `mu`; two names never share an object; the mutex of
an object is taken exactly while some goroutine owns it, and by one only; and the counter of
an object is the number of goroutines between counting up and counting down. The last part
carries the argument. `Unlock` deletes an entry when the counter reads zero, and a zero means
that nobody is on the way to the object. That the count is taken under `mu`, before the wait,
is what makes it true.

**Broadcast.** A signal to a watcher may be dropped, so an item can pass a watcher by. `BcInv`
says why the last one does not: what a watcher is owed is frozen when its exit is forced, and
after that the watcher takes one more turn, in which it reads and writes something at least
as new.

**Health.** `HlInv` adds to `OneMonitor` the interval between the message that ends a monitor
and the moment the sender clears the field: one thread at most is there, and no monitor is
alive meanwhile.

**Transfers.** `TMInv` adds to the four properties that the queue holds every waiting transfer
once and none that was started, and how the channels of a transfer, the map and the keys
depend on each other. The counter of active transfers is the cardinality of the transfers
that have a slot. A pull (`DInv`) watches downloads of consecutive layers up to its top, and
keeps the top one, or the layer it found in the store; a successful download holds its layer
until it is released, and past the wait for its parent the parent has succeeded. A push
(`UInv`) has an upload for every layer it has gone past, and those it has waited for were
successful. `TInv` joins them. The users rely on the manager in one way: it takes nothing
back from them (`NothingTakenBack`).

**Layer store.** `LsInv`, in `LayerInvariants`, has three parts. `CountInv` says what a call
holds at each of its steps, that only layers in the map are counted on, and that the count of
a layer is the sum of four cardinalities: the references, the layers on top, the mounts and
the calls in progress. Every step that counts moves one element into or out of one of these
sets. `DiskInv` says that a name in the driver belongs to one layer or to one call, and that a
layer has its data until the removal has come to its metadata. `CleanInv` accounts for
everything in the driver and the metadata while nothing has failed or crashed.

**Events.** `EvInv` says that subscribers do not change while somebody publishes (publishers
hold a read lock, `Subscribe` and `Evict` the write lock), and that each subscriber is still
to be served or has the event.

**Volumes.** `VolInv` says that a call past its start has the lock of its name, that what it is
about to store exists and what it removes has no references, what a request for a container
has made so far, and that nothing else happens while the daemon starts. `RefsAreReal` and
`ReferencedNotRemoved` hold when none of the operations that lose references is used (`Plain`,
see [below](#where-code-and-documentation-disagree)); `VolInv` then also says that the volume of
every mount point exists, and that the store refers to it from the end of the call that sets it,
but for the containers that a restart could not start (`missed`). Of these it says that their
mount point has no volume object, and nothing of the volume, for it may be gone: the step theorem
has to leave them out. `HeldVolumeExists` needs no such condition.

The inductive invariants were checked with TLC on small instances before they were proved.

### Only model-checked

- Every liveness property (`SomeWaiterProceeds`, `WatchersEnd`, `TransfersEnd`, `LayersLetGo`,
  `RequestsEnd`, `Reconnects`): liveness under fairness is beyond the prover. `NeverStuck`, of
  `Streams`, is about what is enabled, and beyond it, too.
- The properties of `Images`, `Streams` and `Builder`, whose definitions recurse over data.
- The safety properties of `ContainerNames`, `ContainerLife`, `DeviceSet`, `JSONLog`,
  `LiveRestore` and `Cluster`, of which no proof has been written.

## Where code and documentation disagree

Six runs end in a violation of what a comment in the code says.

- `pull_cancel`. A pull that was not cancelled fails because another client was interrupted.
  The download of a child layer is tied to the parent transfer of the client that created it
  (`distribution/xfer/download.go:304`). The comment at `transfer.go:89-91` says that a
  transfer "won't be cancelled automatically if the client which requested it is ^C'd (there
  could be other viewers)".
- `volumes_from_bind`. A container made with `--volumes-from` of one with a named bind has no
  reference to the volume until it starts (`daemon/volumes.go:112`), and the volume can be
  removed. `daemon/delete.go:140`: "If the volume is referenced by a container it is not
  removed".
- `life_restart`. When the process exits by itself just before a restart request cancels the
  restart manager, `containerStop` returns in state Restarting, `containerStart` finds Running
  set and returns, and the cancelled restart stops the container. `daemon/restart.go:9`:
  "ContainerRestart stops and starts a container".
- `life_pause`. A pause holds the container's lock while it waits for a queued report; the
  report of an exec that ended before is ahead of it and waits for that lock
  (`libcontainerd/client_linux.go:254`, `daemon/monitor.go:62`).
- `health_deadlock`. The handler of an exit holds the container's lock and waits until the
  monitor takes the stop; the monitor has a result and waits for that lock to record it.
  `daemon/health.go:220`: "Ensure the health-check monitor is running or not, depending on the
  current state of the container. Called from monitor.go, with c locked."
- `restore_replay`. An event that was replayed by `Restore` comes again from the stream, and is
  handled after the container has been started anew.
  The exit of the former run then stops the new one. The comment of `Restore`
  (`libcontainerd/client_linux.go:520`) says of such an event that "this is not an issue as all
  those events will do is change the state of the container to be exactly the same."

Other departures that the models contain, or that came up while they were written, without a
run of their own:

| where | what |
|---|---|
| `distribution/xfer/transfer.go:304` | a higher limit starts nothing that is queued, until the next slot is handed over |
| `daemon/volumes.go:163` | a start with a host config drops the references of the mount points it replaces |
| `daemon/daemon.go:300` | a restart while a driver is away takes no reference for its volumes |
| `daemon/daemon.go:289-296` | no reference is taken for a container whose automatic restart failed early (`daemon/start.go:118-130`): `volume rm` removes its volume, unlike `daemon/delete.go:140`; the comment says "it has been done on restarting" |
| `daemon/create.go:118` | a creation that fails in `registerLinks` keeps its references |
| `volume/store/store.go:428` | `Remove` calls a nil driver when `GetDriver` fails |
| `volume/store/store.go:260` | asking for the default driver returns a volume of another driver, unlike the comment at line 247 |
| `volume/store/store.go:185,336,422,486,497` | maps are read without the global lock |
| `container/state.go:254` | `WaitStop` returns while the container restarts, unlike the comment at line 126 |
| `daemon/stop.go:60` | a stop of a paused container that times out is not signalled again after the unpause |
| `daemon/kill.go:140` | a kill may wait without limit for a process that was restarted after the signal |
| `libcontainerd/client_linux.go:103` | the deferred unlock of `AddProcess` frees a lock it does not hold when the streams cannot be attached |
| `libcontainerd/container_linux.go:194` | the restart goroutine reports to the daemon without the container's lock (`daemon/monitor.go:80`) |
| `libcontainerd/container_linux.go:110,119` | a refused restart leaves its object, a failed attach leaves its process |
| `layer/layer_store.go:282` | a failing `StartTransaction` leaves the driver's layer |
| `layer/filestore.go:134` | partly removed metadata makes every later commit of the layer fail |
| `devmapper/deviceset.go:1174` | a crash on the first start, between `registerDevice` and `closeTransaction`, makes every later start fail; the comment says "Otherwise remove image and set it up fresh." |
| `devmapper/deviceset.go:1363-1378,1955` | after a rollback `Devices` keeps an entry whose ID is free: the next device gets the ID, and a second deletion of the first deletes the data of the other |
| `devmapper/deviceset.go:1367` | the rollback only logs that the pool does not delete a device, which then has no owner |
| `devmapper/deviceset.go:1967` | the number of deleted devices is not lowered when the metadata cannot be removed |
| `devmapper/deviceset.go` (`AddDevice`, `MountDevice`) | `Deleted` is tested before any lock is taken |
| `graphdriver/counter.go:43,65` | the count is read after the unlock: two callers can both see 1, or both 0 |
| `daemon/image_delete.go:235` | `removeImageRef` is called idempotent, "okay if the reference didn't exist"; it returns an error then |
| `daemon/image_delete.go:119` | the removal of a name without a host removes digests of every repository of the image |
| `image/store.go:222` | the error of the removal of the image file is ignored and the layer released: the file stays without its layer, and the daemon does not start again |
| `image/store.go:222,230` | a crash leaks the layer of the image; `SetParent` beside a deletion leaves a child nobody has; a tag can be added to a deleted image |
| `daemon/rename.go:33` | the old name is read before the lock: of two renames of a container one gives back the name of the other, and a rename beside a removal leaves a name behind |
| `daemon/rename.go:52-55` | the old name is taken back without a look at the error of `reserveName`: when another container has it by then, this one has no name, and its next rename releases the name of the other |
| `daemon/rename.go:77-79` | when the old name cannot be written back, the daemon reads the new one after a restart |
| `daemon/cluster/cluster.go:232` | `close(n.done)` of a node that could not be started is a nil dereference |
| `daemon/cluster/cluster.go:709,732` | `Info` takes the read lock twice; with a writer in between it never returns |
| `daemon/cluster/cluster.go:512,315` | a Leave beside a Join removes the new state; a forced Init starts a second node when another request, forced or not, has started one while it waited; the goroutine of an old node clears the field of the new one |
| `daemon/cluster/cluster.go:504` | after a Leave that timed out, nobody starts the node again |
| `daemon/cluster/cluster.go:229,258` | the supervisor starts the new node without the remote address, and saves that |
| `pkg/broadcaster/unbuffered.go` | a client that does not read stops the output of the container for all |
| `daemon/monitor.go:49` | `StateRestart` does not wait for the copies; output of the process that ended is lost |
| `jsonfilelog/read.go:61,94` | a rotation while the files are opened shows lines twice or not at all |
| `jsonfilelog/read.go:193` | a follower that hears of a rotation goes on to the new file, and skips a line written to the old one just before |
| `loggerutils/rotatefilewriter.go:65` | a rotation that fails leaves the file closed, and every later line is lost |
| `daemon/events/events.go:51` | an event that is stored and not yet published reaches a new subscriber twice |
| `daemon/health.go` | the comment "Reset the health state" holds only when there was none; a probe that never ends keeps its goroutine |
| `libcontainerd/remote_linux.go:240` | without the file of the last event, events since the crash are not asked for |
| `libcontainerd/remote_linux.go:310` | the event of an unknown container does not move the time of the last event; after a crash it comes again, to the next run of the container |
| `libcontainerd/container_linux.go:112` | a daemon that dies between `CreateContainer` and `StateStart` has no record of the process and does not restore it |
| `builder/dockerfile/internals.go:466` | a build with bind mounts does not read the cache, but its images are in it: a later build without mounts is given what the mounts contained |
| `builder/dockerfile/internals.go:626` | `clearTmp` stops at the first container it cannot remove. When a cancelled `FROM` has several triggers, the goroutine may have removed one, and the others stay, in spite of `--force-rm`, "Always remove intermediate containers" (`docs/reference/commandline/build.md:28`) |
| `builder/dockerfile/internals.go:464` | a build `FROM` an image and a build that came to the same image by its instructions share their cache, although the command, the maintainer and the triggers they go on with differ |
| `runconfig/compare.go:20,24` | `ENTRYPOINT` without arguments is given the cached image of `ENTRYPOINT []`, which it does not mean |
| `builder/dockerfile/dispatchers.go:548` | an `ENTRYPOINT` without arguments sets nil, and the merge in `ContainerCreate` (`daemon/commit.go:28`) puts the one of the base image back |
| `builder/dockerfile/dispatchers.go:178` | a second `FROM` keeps `cmdSet` and the maintainer of the first, `FROM scratch` the whole configuration, of which the cache then compares a part |
| `builder/dockerfile/builder.go:275` | the result is tagged without a test that the image still exists |

## What is not modelled

The map covers about seven and a half per cent of the lines of the repository, nearly all of them in the
parts whose state is shared by goroutines or survives a crash. The larger share of the code has
no state a model could be about:

- Command line, API types, routers and the builder's parser decode, format and print.
- Archives, registry client, manifests, OCI spec, seccomp profiles, migration, the graph
  drivers other than devmapper, the remote log drivers: system calls, network I/O and formats.
  Where a modelled part uses them they are marked external, and are modelled by what the
  caller can see, failures included.
- Code for Windows, Solaris and FreeBSD repeats the operations modelled for Linux.
- libnetwork and swarmkit are vendored; containerd is a separate program. `daemon/network.go`
  and the services, tasks and nodes of `daemon/cluster` pass requests on to them.

Parts with state that are left out: plugins, the stats collector, discovery, and the reload of
the configuration, each a loop or a table under one lock.

In the modelled parts:

- containers: networks and mounts of a start, links, signals other than the stop signal and
  SIGKILL, standard input, terminals and detach keys;
- devmapper: loop-back pools, growth of the base device, file systems and udev;
- logs: lines that a reader sees half-written, and decoding;
- the layer store: export, differences, sizes and migration;
- the builder: the parser, the context with its hashes and `.dockerignore`, downloads, quoting.

`PROJECT.json` lists every part with the reason.

## Plan

1. Compositions: `Download` and `Images` over `LayerStore` in place of its holders (the abstract
   store as a specification that `LayerStore` implements).
2. Proofs of `OneNode` of `Cluster`, of `NamesAgree` and of the safety of `DeviceSet`.
3. Plugins and discovery.
