# A TLA+ verification of timecraft

timecraft runs WebAssembly modules: it records the host calls of each guest in
a log that can be replayed and inspected (the *time machine*), gives guests a
virtual network and file system (the *sandbox*), and lets guests submit tasks
that are executed by other guests (the *task orchestrator*). This directory
holds TLA+ models of the parts whose correctness depends on concurrency,
failures and ordering, the TLC configurations that check them, and TLAPS proofs.
Paths below are relative to the repository (`internal/...`); `PROJECT.json` maps
every definition that models code to the lines it was translated from, lists the
hazards the properties are about, and pairs each property with a mutant of the
model that breaks it.

## 1. Inventory

### Task orchestrator (`internal/timecraft`)

| Component | State | Operations | Hard behaviour | What makes it correct |
|---|---|---|---|---|
| `TaskScheduler` (task.go) | map of tasks, state of each, process per module key, unbuffered queue, cancelled contexts | Submit, the scheduling loop of each thread, Lookup, Discard, Close | threads, singleflight, processes that exit under a task, an unbuffered queue and an unbuffered completion channel that wait for each other | one process per key; a task runs in its own module; accepted tasks end; Close returns |
| `TaskGroup` (task.go) | the tasks of one guest, the completion channel | Submit, Lookup, Poll, Discard, Close | runs concurrently with the handlers that use it | Close discards everything; completions are of complete, known tasks |
| `Server` (server.go) | the group and the identity of one guest | SubmitTasks, PollTasks, LookupTasks, DiscardTasks, Spawn, Kill | two handlers of one guest at a time | submissions return, polls report what happened |
| `ProcessManager` (process.go) | running processes, network, temporary sockets | Start, Wait, Lookup, Close | several resources acquired in order, error paths, guests that exit or are killed, an outbound proxy that is a process itself | nothing is left or closed twice, Close waits, a log is complete or absent |

The server calls the group, the group calls the scheduler and the scheduler
calls the process manager; completions flow back over channels. The process
manager composes the sandbox with the recorder.

### Time machine (`internal/timemachine`, `internal/object`)

| Component | State | Operations | Hard behaviour | What makes it correct |
|---|---|---|---|---|
| `LogRecordWriter`, `LogWriter`, `RecordBatchBuilder` | the batch being built, next offset | WriteRecord, Flush | a flush that fails in the middle, a write that returns before its bytes are stored | what is in the file is a prefix of the log |
| `Registry.CreateLogSegment` | a pipe and the store's goroutine | Write, Close | two goroutines and a pipe, kill, failing store | a segment that exists is complete; Close returns |
| `LogReader`, `LogRecordReader`, `bufferedReadSeeker` | file position, buffer, current batch, offsets | ReadRecordBatch, Read, Seek | truncated files, skips within and beyond the buffer, batch boundaries | records in order, each once, never misread data |
| `Registry.createObject`, `dirStore` | object, tags and temporary files | CreateObject, StatObject, DeleteObject, List | several processes on one directory, failures and kills between system calls | atomic creation, tags with the object, no litter |
| `wasicall` codec, recorder, replay, reader | the record being decoded, the numbers of stdout and stderr | one function per system call (58) | partial results, calls that do not return, the end of the log, guests that differ from the recorded one | the replay answers what the host answered, or refuses |
| `debug/stdio` | three descriptors, a buffer | Read | descriptors that are closed, reused or moved | prints what the streams carried |
| `debug/tracing` | sockets, parsers of connections, requests in flight | EventReader, MessageReader, ExchangeReader | messages in pieces, reused descriptors, connections that end early | each response is paired with its request, nothing is lost |

### Sandbox (`internal/sandbox`, `internal/ipam`)

| Component | State | Operations | Hard behaviour | What makes it correct |
|---|---|---|---|---|
| `socketFD` (socket.go) | one atomic word: count and descriptor | acquire, release, close | lock-free loops | closed once, never under an owner, never leaked |
| `LocalNetwork`, `LocalNamespace`, `localInterface` (local.go) | routes, address pools, port tables of two interfaces | CreateNamespace, Detach, bind, lookup, unlink | one lock per interface, partial binds, stale routes | addresses and ports are exclusive and given back; connections reach their addressee |
| `localSocket` (local_unix.go) | socket pair, name, peer, state bits, bridges to hosts | Bind, Listen, Accept, Connect, Shutdown, Close, SendTo, RecvFrom, the TLS option | descriptors passed between sockets, a goroutine per bridge, data that waits for a choice | data arrives once, in order and to the end; Close returns and leaves nothing |
| `System.PollOneOff`, `Kill` (system_unix.go) | poll descriptors, deadline, the pipe of Kill | PollOneOff, Kill, Close | timeouts, rounding, Kill at any time | never early, never for ever |
| `dirFS` (dirfs_unix.go, fs.go, fspath) | counted descriptors of the directories on a path | the WASI calls on paths and files | links and renames while a path is walked, descriptors that run out, closes by another goroutine | no path leads out; descriptors are owned and given back |
| `tarfs`, `subfs`, `ocifs` | archives, layers and how far they were listed | Open, Stat, ReadDirent, and refusals of the rest | whiteouts and opaque directories, files that replace directories, listings in pieces | the guest sees the merged image |

Printing, formats, the command line, SDKs, configuration and generated code make
up the rest; `PROJECT.json` lists every component with its status and the reason
where one is not modelled.

## 2. Modules

| Module | Models | Used by |
|---|---|---|
| `SharedHandle` | abstract specification: what a shared descriptor promises | `SocketFD` (refinement) |
| `SocketFD` | the compare-and-swap loops of socketFD | `MCSocketFD`, `SocketFDProofs` |
| `TaskScheduler` | scheduler, groups, SubmitTasks and PollTasks, processes | `MCTaskScheduler`, `TaskSchedulerProofs` |
| `LogReader` | buffered input, LogReader, LogRecordReader, RecordBatch | `MCLogReader`, `LogReaderProofs` |
| `LogRecorder` | recorder, writers, pipe, the store's goroutine, the end of a process | `MCLogRecorder`, `LogRecorderProofs` |
| `ObjectStore` | createObject over the directory store | `MCObjectStore`, `ObjectStoreProofs` |
| `LocalNetwork` | address pools, namespaces, routes, port tables, bind, listen, accept, connect, close | `MCLocalNetwork`, `LocalNetworkProofs` |
| `WasiCodec` | the encoding of every recorded system call | `WasiSystems` |
| `WasiSystems` | recorder, replay, offline reader, fallback and exit systems, call by call | `WasiReplay` |
| `WasiReplay` | a recording, its truncation, its replay and the printing of its streams | `MCWasiReplay` |
| `NetworkTrace` | EventReader, MessageReader with HTTP/1, ExchangeReader over a guest's calls | `MCNetworkTrace` |
| `GuestProcess` | ProcessManager, Spawn and Kill of the server, PollOneOff and Kill of the sandbox | `MCGuestProcess`, `GuestProcessProofs` |
| `FilePath` | fspath, and what ResolvePath does to names | `DirFiles`, `ImageFiles` |
| `DirFiles` | host directories: dirFile, ResolvePath, the WASI calls | `GuestFiles` |
| `ImageFiles` | tarfs, subfs, ocifs and wasiDir | `GuestFiles` |
| `GuestFiles` | composition: either is what the guest has mounted | `MCGuestFiles` |
| `LocalSocket` | data, dials, listeners and packet connections of local sockets, tunnels, TLS option, Close | `MCLocalSocket`, `LocalSocketProofs` |

The `MC` modules only give constants their values; the `Proofs` modules hold the theorems
(section 5). Operators whose comment begins
with "Mutant" are plausible bugs of the definition that follows them; `PROJECT.json`
pairs each with the property it breaks. They are not part of any specification.
Invariants with several parts are conjunctions of named parts, each with its comment.

**SocketFD.** `state` is the 64-bit word as a record of the count, modulo
`RefMod`, and the descriptor. A load, a compare-and-swap and the call of closeFD
are three steps; `old` is what a goroutine loaded, so that stale values are used as
in the code. A goroutine of the model is one acquire/release bracket.

**TaskScheduler.** `worker` has the place of each thread in scheduleTask, `flight`
the singleflight group, `submit` and `poll` the two handlers a guest can have at
a time. A send on an unbuffered channel and its receive are one step of two actors
(`SubmitSend`, `Notify`). `SubmitInsert`, `SubmitSend` and `SubmitRegister` are the
three critical sections of a submission. A process may exit at any step, and Start
may fail. Expiry and request failures are nondeterministic. Nothing makes a guest poll:
its handlers run when it calls, and one that submits and polls in turn is a behaviour like
any other.

**LogReader.** The file is a sequence of cells identified by their position, so that
a read from the wrong place shows. Init chooses the size of the file (every
truncation), the program that reads it, and the size of the buffer.
`ReadCells`, `AfterRead` and `SeekInput` are what bufio.Reader and
bufferedReadSeeker do to position and buffer.

**LogRecorder.** The guest's goroutine (`at`) writes pieces to the pipe
(`pending`), the store's goroutine takes one (`copying`) and writes it (`file`). The
write returns when its last piece was taken. `StoreFails` and `Kill` can happen at
every state.

**ObjectStore.** One name, since objects are content-addressed. Each file system call
of a creator is a step; `Fail` is an error of the next call, with the deferred cleanup
where the code has it; `Crash` ends a creator between two calls. `kept` has the creators
whose removal of their temporary file failed, an error that the code ignores.

**LocalNetwork.** `pool`, `routes`, `ns` and `addrs` belong to the network's lock,
`ports[n][f]` to the lock of interface f of namespace n: each step is what happens
under one lock, so that bind, lookup and unlink of different sockets interleave
between lo0 and en0. A socket has at most one call in progress, because guests are
single threaded. One family and one protocol are modelled; tables of different
ones are disjoint. `Detach` has two steps, the swap of the pointer and the rest.
What a dial does once it was started, and data transfer, are in `LocalSocket`.

**WasiCodec, WasiSystems, WasiReplay.** A buffer is a sequence of cells: a 32-bit integer is
one cell of `Word` values, a 64-bit integer two, a byte one. `Layout` has the fields of each
of the 58 calls in the order in which the encoder writes them, and
`EncodeValue`/`DecodeValue` stand for the functions of codec.go. `Recorded` is what the
recorder keeps of a field (of a buffer that is filled, what was returned), `Checks` which
parameters the replay compares and how, `ReplayCall` what it answers, `ReadSyscall` what the
offline reader shows. `WasiReplay` runs a guest whose calls the host may answer in any way
(`wide`: one call of any kind) or from a table of descriptors (`deep`: sequences on the
standard streams); the log is cut at any record, and then replayed by the same guest or by
one that makes other calls, or read by stdio.Reader.

**NetworkTrace.** The guest's calls on its sockets are records. EventReader reads as many
at a time as MessageReader's group lacks events, decodes them when it has them, and
MessageReader looks at its events when the group is complete or the log ends (`Trace`,
`ReadEnd`; `bound.group` is the 1000 of message.go:187). Records and events are slices of
the memory of the log's current batch: at any record the next batch may be read into that
memory (`reload`), which overwrites what is waiting in either group, and makes `intact`
false. A message is a sequence of cells (start line, line break, end of
header, body), so that any split into transfers can be looked at. `sockets`,
`readers` and `inflight` are the maps of the three readers.

**GuestProcess.** `pc` goes through the steps of Start, each of which may fail, and
then of the goroutine of the process; `held` is what was acquired and not yet given
back. Two processes: the main module, and its outbound proxy or a module that it
spawns. `poll` is PollOneOff of each: what is left of the time is counted in
quarters of a millisecond, because the code rounds to milliseconds. `Kill` and the
end of the process both reach for the pipe that wakes the guest.

**FilePath, DirFiles, ImageFiles, GuestFiles.** A path is a sequence of elements and
slashes. In `DirFiles` a step of a thread is one call of the kernel, with the Go code up to
the next one: the descriptor is read at the end of the step before, as in the code, so that
a close or a rename by the other thread falls in between. `files` has the dirFiles with
their counts. `Trees` are the host's trees, with inodes outside of the mounted directory:
its parent `out`, and `top` above that. `LookupAgrees` compares with `Wanted`, a definition
of what a path leads to. `ImageFiles` opens archives as tarfs does, merges them as ocifs
does, and lists directories through wasiDir. dirbuf reads a layer's directory through a
buffer (`space`), a piece at a time (`ReadDirent`, `ReadLayer`), and drops the entry that
the end of the buffer cuts; tarfs has passed it. `MergedView` and `ListingExact` compare
with a definition of the merged image.

**LocalSocket.** `sock` has the local sockets, `ep` the UNIX sockets with who holds
them (`refs`) and what they queue, `task` the goroutines of the bridges, `tun` the
two directions of each tunnel, `conn` the connections of hosts. Five kinds of
namespaces (`Modes`) stand for the functions a namespace may be created with. A UNIX
socket is gone when its last holder has let go of it (`Drop`, `Release`); the descriptors
that its queue carries then lose the holder "msg" too. `FileConnFails` is a connection that
was handed to the listener and has no tunnel, since its other end could not be made a
net.Conn (local_unix.go:460-463).

## 3. Runs

| Run | States | Bounds | Shows |
|---|---|---|---|
| `socketfd` | 33,800 | 3 goroutines, count modulo 4 | `Safety`: the count is the number of owners, no use after close, no double close, no leak; a detached descriptor is eventually closed; refinement of `SharedHandle` |
| `tasks` | 878,276 | 3 tasks, 2 guests, 2 modules, 2 threads, 2 processes | one live process per key, tasks run in their own module |
| `tasks_life` | 33,708 | 2 tasks, 1 thread, one guest that polls, discards and exits, shutdown | completions are final; a closed group leaves nothing, or the one task that was being submitted; tasks of a guest that stays and polls come to an end; a submission waits only for guests that do not poll; Close returns |
| `log` | 4,255 | 3 batches of 2, 1 and 3 records, frame and data of 2 cells, every truncation, buffers of 1, 3 and 5 cells (1 and 3 with Seek) | order, completeness, no misread data, the end is reached, also with Seek |
| `recording` | 328 | 5 records in batches of 2, 2 pieces per write | the file is a prefix of the log, a segment is complete, the builder is not misused, the process's end does not hang |
| `objects` | 22,076 | 3 creators, 2 chunks, failures, kills, one deletion | absent or complete, visible once created, no litter but where its removal failed, tagged when all creations succeeded |
| `network` | 490,107 | 3 namespaces, two of which end, pools of 3 and 2 addresses, 3 sockets, 2 ports of which one is in the range for port 0 | addresses exclusive and never lost, names stay bound, closed sockets hold no port, connections reach their addressee |
| `replay` | 589,579 | 8 values per 32-bit integer; every call once with small values and any answer, or 3 calls on the standard streams; reads of 2 records and 3 bytes | the replay answers what the host answered, ends where the log does and accepts no other call; records read back whole or not at all; both printers show the streams |
| `tracing` | 809,976 | 2 connections on 2 descriptors; groups of one event with 2 requests and 1 descriptor moved, shutdown or failed call; groups of two with 1 request and 1 of these, or 2 and none; a batch may end at any record | as long as nothing was overwritten before it was looked at: events carry the bytes of their connection, a response is paired with its request, no request is lost |
| `process` | 75,290 | 2 processes, timeouts that are over, null, a quarter and 1.25 ms, preemption of a quarter | nothing closed twice or left at the end, Close waits, clocks neither early nor lost, a killed guest ends |
| `files` | 302,881 | 2 threads, 2 calls of 19 requests on 3 trees of 8 inodes, 5 descriptors, renames meanwhile; or 5 images of up to 3 layers, 3 opens and 3 calls of FDReadDir, 5 of both, with buffers of 2 entries, layers read through a buffer that cuts entries or one that does not | descriptors owned, used by their owner and given back; no call leaves the directory but for the attributes of its parent; paths are those of the tree and of the merged image, and so are listings, but for the entries that the layer's buffer cuts; layers are given back |
| `sockets` | 163,862 | 5 kinds of namespaces, 2 messages per side where a host is dialed and 1 elsewhere, 2 datagrams of hosts, queues of 2 | data intact, nothing in clear when TLS was asked for, nothing left behind; Close returns, or waits for a host for ever; hosts see the end |

**Why the bounds are enough.** Three goroutines give an owner, a closer and a third
one whose load goes stale; a count modulo 4 is the smallest that three owners do
not wrap (the proof covers every number). Two threads and two tasks of one key
are what singleflight is about, and a third task brings in another key and
another guest. One thread and two tasks make a submission wait for a thread that
waits for a poll; the batch of a poll is 2 so that it can be full or not. Three
batches have a first, a middle and a last one of different sizes, and the buffers
range from less than a frame to more than a batch. Five records in batches of
two are two full batches and a short one; two pieces separate the time a piece
is taken from the time the write returns. Three creators allow one to succeed,
one to fail and one to be killed. Three namespaces exhaust the second pool while
the first has addresses left, and the third gets an address that another one gave
back; two sockets fight over one port in one namespace, and the third belongs to
another; with a single port for port 0 the range can be exhausted, and a socket
can be refused by either interface.

In `replay` calls are encoded and compared one by one, so one call of each kind covers the
codec and the comparison; three calls on the streams are a close, a reopening or move, and a
write. Eight values per cell make a 64-bit integer differ from its low half. Two connections
are enough for a descriptor to be used again, and two requests for a second one on a
connection or for a pair of connections. In groups of two a record waits while the next one
is read, in a record group or in an event group, which is all that an overwritten batch
needs. Two processes are a parent and a child, or a module and its proxy. Timeouts of a
quarter and of one and a quarter millisecond round to 0 and 1; the preemption stays below
half a millisecond (`MaxDelay`), beyond which the code waits for ever (section 4). Two
threads and two calls suffice for a close or a rename to fall between any two calls of the
kernel of the other; five descriptors run out in the middle of a path of two directories.
The trees have links to a file through "..", links out of the root and a loop. `MaxAgain`
bounds the rounds of ResolvePath that the code does not bound (section 4). Three layers
allow a file to be hidden by one and shown again by another; a buffer of two entries and a
half ends inside an entry; an entry of a layer takes two units of the layer's buffer, so
that one of 7 cuts every fourth entry (the second whiteout of a directory in one image) and
one of 8 none. In `sockets` two messages and queues of two make a queue full and then read.

**Deadlock** is checked in `socketfd` and `tasks`. The other runs say
`CHECK_DEADLOCK FALSE`, because the program ends: the reader has reached the end of
its file, all creations have returned, the scheduler is closed, all sockets are
closed, the guest has made its calls.

**Fairness.** SocketFD: weak fairness of each goroutine's steps, since goroutines are
scheduled and every acquire in the package has a deferred release; nobody has to call
acquire or close. (A compare-and-swap loop may retry for ever only if others keep
succeeding; each bracket's own steps being fair, the check shows that the descriptor is
closed in spite of that.) TaskScheduler: weak fairness of threads and handlers; strong
fairness of the two channel sends, because a Go channel keeps blocked senders in a FIFO
queue, so one that is again and again met by a receiver is served. Nobody has to poll,
submit, discard, exit or close: that guests poll is a hypothesis of `TasksComplete` (the
guest waits in a poll again and again), and `SubmitReturns` allows a submission to wait for
ever when all threads hold completions that no guest polls for (`Blocked`). LogReader: the
program reads until it gets an error. LogRecorder: both goroutines run; guests need not make
calls or end and the store need not fail. GuestProcess: time passes, the steps of Start and
of each process's goroutine run, the goroutine that watches the context runs, and poll(2)
returns when its timeout is over or the pipe is closed; no guest has to exit. LocalSocket:
goroutines run, dials and handshakes return; there are finitely many of these steps, so that
one condition for all of them is enough. Guests and hosts do not have to send, read, connect
or close: `SocketCloseReturns` allows Close to wait for ever for a host that keeps its
connection open and silent (`WaitsForHost`), `EndReachesHost` needs nothing of hosts. (What
is sent to a host is taken by the kernel's buffers.) ObjectStore, LocalNetwork, WasiReplay,
NetworkTrace and GuestFiles are checked for safety only.

## 4. Where the code does otherwise

Met while modelling. The properties that hold are stated so that they exclude these
cases; where a constant reproduces one, it is named.

*Tasks*

* `Submit` hands a task to a thread over an unbuffered queue (task.go:141) and a
  thread that has completed a task blocks until a poll receives its completion
  (task.go:314): a guest that submits more tasks than there are threads before it
  polls is never answered, although client.go:77-80 of the Go SDK says "The tasks are
  executed asynchronously" and testdata/go/task.go:89 polls only after
  SubmitTasks. `SubmitIsAsynchronous` is that promise; MCTaskSchedulerLife.cfg with it among
  the PROPERTIES is violated. `SubmitReturns` and `TasksComplete` say what is left of it: a
  submission waits for nothing but guests that do not poll, and tasks of a guest that
  polls end.
* A group that closes while SubmitTasks is between the scheduler and the group does not know
  of the task (task.go:362-371): it is left in the scheduler for ever, although a group
  "automatically discards all in-flight tasks when closed" (task.go:341-342).
  `CloseDiscards` allows that one task, for each group, and no other.
* `Submit` adds the task to `g.tasks` after the scheduler has taken it (task.go:367):
  if it completes before, a concurrent PollTasks answers "task not found" (task.go:387-388:
  "receives completion notifications for tasks in the group"). `PolledIsFound` is
  violated with one task.
* `completeTask` (task.go:313-319) of a task whose group was closed blocks its thread
  until the scheduler closes. As many such tasks as threads stop the scheduler, and
  the comment at task.go:418-420 overlooks the blocked sender. `TasksComplete` is
  stated for guests that stay.
* `TaskGroup.Submit` after `Close` writes to a nil map and panics with `g.mu` locked
  (task.go:368); the model has it as the group state `"stuck"`.
* `ModuleSpec.Key` (module.go:60-78) leaves out the function, the directories and the
  outbound proxy, although it is documented as unique.

*Processes and polling*

* When the deadline of PollOneOff passes by half a millisecond before the time left
  is computed, it is rounded to -1, which poll(2) takes for "no timeout"
  (system_unix.go:125; the comment at 115-116 excludes negative values). `MaxDelay = 2`
  violates `PollTimesOut`.
* An invalid subscription makes a clock of the same call be reported at once
  (system_unix.go:142).
* An error of Start after the log segment was created leaves segment, copiers and
  system open (process.go:376); a proxy of a module that did not start goes on.
* Wait and Lookup of a process that has already ended report that it is not found
  (process.go:471, server.go:251; the comment at server.go:119-126 says otherwise),
  and the Wait of Server.Kill returns at once. A Spawn handler that is still in Start
  when Close returns starts a process afterwards. A guest that never polls is not
  killed.

*Logs and objects*

* `bufferedReadSeeker.Seek` moves the file and keeps the buffer when the target is in
  it (io.go:28-40), so that the next refill reads the wrong bytes; describe.go:806 reads
  logs this way, and log.go:77-80 says that the skip is sound. `Uses <- DescribeUse`
  violates `NeverGarbage`.
* The cleanup of a failed creation removes tags that belong to the name (store.go:241): an
  object that another creation has made meanwhile loses its tags for good, whereas
  store.go:92-93 says "the store must be left unchanged if an error occurs".
  `ErrorLeavesTags` is violated with two creators. Errors of that cleanup are ignored
  (239-241), so that a temporary file may stay; `NoLitter` exempts the creators in `kept`.
* `os.WriteFile` truncates the tags (store.go:224): a process killed at that point
  leaves an object whose tags are lost. DeleteObject may remove the tags of a new object
  of the same name (store.go:321); nothing calls it.
* `LogReader.Seek` and `LogRecordReader.Seek` panic on an empty batch (log.go:60, 226),
  and return the batch before the one sought at a boundary (log.go:99, harmless).
  Nothing calls Seek. `LogWriter.stickyErr` (log.go:267) is never set. The errors of the
  last Flush and of Close are dropped (process.go:432). The records of a batch whose
  checksum failed are kept (record_batch.go:144). LookupRecord returns an empty record
  and no error when a batch can not be read (registry.go:161).

*Replay and tracing*

* docs/guides/record-replay.md:42-45 promises "exactly the same execution path". A
  recorded call that got ENOSYS ends the replay with exit code 0 (replay.go:127), and
  so does ProcRaise, of which no record is written.
* A write that was partial or failed is replayed, and printed, with its whole buffers
  (wasicall/replay.go:676); a descriptor that is moved onto a standard stream is taken
  for it.
* EventReader fills a group of records with stream.ReadFull (event.go:303), and MessageReader
  holds up to 1000 events (message.go:187), whose data are slices of the memory of a batch;
  log.go:176-177 says that a record is valid "until the next call to Read", and reading the
  next batch does reuse that memory (record_batch.go:51, 133-168). A group over two batches thus
  shows bytes of the second as those of the first, or fails to decode them. `EventsFollowSocket`,
  `AnswersItsRequest` and `NothingMasked` speak of logs where nothing that waits is overwritten
  (`intact`); without it `EventsFollowSocket` is violated.
* A shutdown before the protocol of a connection is known is dropped
  (pendingConn.Observe): the connection is never done, and after its descriptor was
  used again its request is paired with the next connection's response. A descriptor
  that is moved and used again mixes two connections. Requests without a length are
  paired in the wrong order. Later messages of one transfer have the time of the first.

*Network and sockets*

* With port 0 each interface searches its own free port and the name keeps the last one
  (local.go:362): the second socket bound to 127.0.0.1:0 is named 49152 and entered under
  49153, which Close never gives back; local_unix.go:94-95 and network_test.go:79-91
  expect the name to be the address. `Requests <- AnyPort` with `Ports = {80, 49152,
  49153}` and both in `Ephemeral` violates `NameIsBound`.
* Close of a datagram socket that was dialed, in a namespace with a dial function only,
  never returns: nobody tells a UNIX datagram socket that its peer was closed
  (local_unix.go:216-226): `SocketCloseReturns` leaves the kind "udp" out.
* Close of a stream that was dialed waits for the remote host: its tunnel reads from the host
  (copyAndClose, local_unix.go:1277-1289), and nothing interrupts that read, although 186-190
  and 218-223 say that Close does. `CloseInterrupts` is that claim, and is violated by a host that
  keeps its connection open.
* The packet goroutine ends, and closes its connection, when the guest is behind by a
  full queue (local_unix.go:387). A datagram that is dropped because it is of another
  sender makes a non-blocking RecvFrom return a size of -1 without an error (826-828).
  Connect succeeds to a stream socket that is bound and does not listen. A socket
  bound to the wildcard address is reported as 0.0.0.0, so that who is connected to
  127.0.0.1 drops its answers. A blocked RecvFrom sees the end instead of the error of
  the dial; data sent before the dial completed is lost if the socket is closed. The
  result of the second acquire is ignored (364). `SHUT_RD|SHUT_WR` is SHUT_WR only, and no
  flag is SHUT_RD (wasi.go:816-825).

*Files*

* Paths of calls other than open keep a last ".." for the kernel (fs.go:961-963,
  dirfs_unix.go:229, 289): stat and utimens of ".." at the root of a mounted directory read
  and set the attributes of its parent on the host, whereas fs.go:899-900 and
  sandboxtest/rootfs.go:12-14 say that no path escapes. `NeverEscapes` is that claim, and is
  violated; `Confined` says that nothing else leaves: nothing above the root is opened,
  changed or linked into it.
* ResolvePath calls back again whenever the last element gives ELOOP and is no link
  (fs.go:963-972): Link with SYMLINK_FOLLOW through a loop of links, and Rename and Link on
  images, never return; fs.go:930-932 says that a loop "will eventually abort".
* fs.go:324 says that files are safe for concurrent use, and Open and CopyRange use the
  descriptor without acquiring it (`CloseDuringOpen = TRUE` violates `OwnFile`).
* Chtimes and Link with no flags act on a link itself (fs.go:457 says its target). A link
  to a directory can not be opened with O_DIRECTORY or a trailing slash. "a/." and
  "a/b/.." return a descriptor that can not be listed. A trailing slash is ignored by
  other calls than open.
* Files of ocifs that share their layers share how far those were listed: a second
  listing misses the lower layers (ocifs/file.go:294; `ListingExact` without `fresh` is
  violated). A whiteout hides a file of its own layer. Names of whiteouts can be
  looked up. subFS has no "/" (Stat gives ENOENT).
* tarfs passes the entry that the end of the buffer cuts (tarfs/dir.go:268-275), and dirbuf,
  which reads each layer through 8 KiB, drops it (ocifs/dir.go:42-60): a large directory of an
  image loses an entry per full buffer, and a whiteout that is lost shows what it hid.
  `ListingExact` describes exactly that (`Uncut`), and is violated without it. tarfs gives ELOOP for
  paths of more than ten elements, and refuses a mode other than 0, which PathOpen
  passes for regular files. ocifs/opaque.go spells `//go:embed` wrongly, so that Opaque
  is an empty file system. `timecraft run` mounts host directories only (process.go:218).

## 5. Proofs

TLC checks small instances; the following hold for every value of the constants
that satisfies the named assumptions. All leaves are checked by tlapm (SMT, Zenon,
and LS4 for the temporal steps).

**SocketFDProofs.** Assumptions: finitely many goroutines, fewer
than the count can represent (2^32 in the code), a descriptor that is a natural
number. `TypeCorrect` needs only the arithmetic of the packed word (`ModRange`,
`WordClosed`). The safety properties are not inductive by themselves: that a
descriptor is not closed under an owner depends on the count being the number of
owners, on acquire and close having loaded an attached word (`LoadedAttached`), and
on an attached descriptor being open (`OpenUntilDetached`). `IInv` is the
conjunction; one lemma per successful swap (`AcquireSwap`, `ReleaseSwap`,
`CloseSwap`) and one for closeFD show that it is preserved, and `QuietStep` covers
every other step. From it follow `SafetyHolds`, `NoLeakHolds`, the action property
`NoAcquireAfterCloseHolds` and `ImplementsHandle`, the refinement of
`SharedHandle`: a successful swap is an Acquire, a Release or a Detach, closeFD is
CloseFD, and all else stutters.

**ObjectStoreProofs.** Assumptions: finitely many creators, at least one chunk. `IInv` adds
to the properties that a creator about to rename has a complete file (`RenamesComplete`) and
that a temporary file exists only while its creator works on it, or was killed or could not
remove it (`TempOnlyWhileCreating`). `NeverPartialHolds`, `CreatedIsVisibleHolds`,
`NoLitterHolds` and `TypeCorrect`, and with them `ObjectsWholeHolds`, follow for any number
of creators, with any failures and kills.

`TaggedWhenQuietHolds` rests on `TagInv`: as long as no creation fails or is killed
and nothing is deleted, a file of tags that somebody has truncated is whole or has
a creator that is about to write it, in whatever order the creators come, and an object
that exists was renamed by one that has returned.

**LocalNetworkProofs.** Assumptions: at least one pool, pool sizes
that are natural numbers, sockets that belong to namespaces. `AddressesExclusive`
is inductive together with the types of the network's part of the state (`NetOK`).
The interesting steps are a creation that fails (`CreateFailsIInv`: what it took
was free, hence nobody's, so putting it back restores pools and routes exactly) and
`Detach` (`DetachIInv`: the routes show that no other namespace has the same
number, so what is returned is nobody else's, and it was in use, so that Put does
not panic). Socket steps do not touch this part.

`PortsSoundHolds` and `ReachesAddresseeHolds` are about sockets, whose calls take a
step per interface. `SockInv` says what a socket has at each place of its calls
(`Placed`), that a socket in a table of ports has the name it is entered under and
is open (`TableInv`), and that a socket on its way to en0 is in the table of lo0
(`HalfBound`); the last is what lets a bind that en0 refuses be undone. A
connection keeps its addressee because a name is not changed until the socket is
closed, and closed sockets are not used again. Both theorems have the hypothesis
`PortsAgree`: no socket asks for port 0, or there is one port to choose from. It is
necessary: with two, the two interfaces may choose different ports, and the
properties are false (section 4). The configuration of the run satisfies it.

**LogReaderProofs.** Assumptions: a sequence of batches that are not empty,
sizes and buffers that are not 0. `LogIntactHolds` is for logs, files and buffers of any size.
The central fact is `Good`: what is buffered is the run of cells between the reader's
offset and the file's position; `AfterReadIs` shows that a read keeps it, whether it
is served from the buffer, refills it or passes it by. `PlaceInv` says that the
reader is behind the frame of the current batch while its records are unread and
behind the batch otherwise, so that frames are found where they are
(`SkipRecordsIs`, `Framed`), and that records are read or the file ends in them
(`RecordsRead`). `OrderInv`, `BatchesInv` and `RecordsInv` say which batches and
records were returned, in terms of the current batch and the record that is sought.
The sums of the sizes of the batches (`recordsUpTo`) are a recursive function, whose
existence and values are proved by induction (`SumsExist`, `Offsets`).
The hypothesis `SkipsPastBuffer` concerns only uses that skip records, that is
describe and Seek: their buffer holds at most one cell more than the records of a batch, so that
no skip ends in it. It is there because of the defect of bufferedReadSeeker.Seek
(section 4); replay, trace and logs need no hypothesis. TLC finds the properties
violated where it is dropped (`DescribeUse`).

**LogRecorderProofs.** Assumptions: batches that are not empty, at least one piece
per write. `SegmentSoundHolds` covers any number of records. `Contents` says that
the file, what io.Copy has in its hands and what is left in the pipe are, one after
the other, the layout of the log up to where the guest's goroutine is; `WriterInv`
that every batch before the current one is full, which is what makes the layout of
a longer log begin with that of a shorter one (`Division` and the lemmas about
`Layout`); `PipeInv` what each end of the pipe knows of the other: an object is
created only when the pipe was closed, after the last flush.

**GuestProcessProofs.** Assumptions: finitely many timeouts, integers; any
preemption. `ProcessReleasedHolds` and `CloseWaitsHolds` follow from what a process
holds at each place of Start and of its goroutine (`HeldByPlace`,
`RegisteredByPlace`), and from the state of the pipe of Kill (`PipeByPlace`), which
is what makes Kill and the end of the process close it once. `NeverEarlyHolds`, an
action property, follows from the types of a poll and from `NullIsOver`: a timeout
of 0 means that a clock was over when the poll began. `EarliestIsFirst` shows that the loop over
subscriptions, a fold over a set, computes the first of them.

**TaskSchedulerProofs.** Assumptions: that `None` is none of the values.
`TypeCorrect` is its own inductive invariant. `RightProcessHolds` states that a key has
one live process and that a task is executed by a process of its key
(unconditionally), and `RightProcess` when keys determine modules (`KeysDetermine`: ModuleSpec.Key
leaves out fields, section 4). `ProcInv` ties the flight of a key to the one
thread that may start a process for it (`FlightHeld`, `NoneAlive`), and the map of
processes to those that are alive (`KnownByKey`). `CompletionsSoundHolds` needs that no
two threads have the same task, that a task whose completion is sent is in its final
state (`TaskInv`), that what the scheduler knows of is a member of its group or is
being submitted (`GroupInv`), and that a group that was closed under a submission has at most
the task of that one left (`StuckInv`).

**LocalSocketProofs.** Assumption: that `None` is none of the values; any numbers of
messages and sizes of queues, and any set of the five kinds of namespaces. Between
them the actions are the calls of three sockets and the steps of five kinds of
goroutines, and the three safety properties of the run need one invariant:

* `PairA`, `PairB` and `PairC` say for each UNIX socket who may hold it, by the state of the
  socket it was made for and of the goroutine it was given to; an accepted socket has
  its descriptor (`Accepted`), and what nobody holds queues nothing (`NoRefs`). A server
  queues one descriptor at most, which the message alone holds (`QueueInv`): this is
  what lets accept take it over, and Close of the server drop it.
* `SocketInv`, `CallInv`, `StateInv` and `TaskInv` relate the flags of a socket, its pending
  call and its goroutine; `ConnInv` each connection with a host to the goroutine that
  has it. `NothingLeftHolds` follows from these and from `LeftInv`: Close waits for
  the goroutine, so a closed socket has none.
* `UpInv`, `DownInv` and `PipeInv` follow a stream: what was received, what is queued and what
  a tunnel has still to copy are, one after the other, the cells that were sent, as
  long as the reader's end is open; an end that was seen, or passed on by
  copyAndClose, leaves nothing behind. `MailInv` says of datagrams that none is queued,
  or was received, after a later one of its sender. `DataIntactHolds` follows.
* `SecureInv`: a tunnel runs only when the choice was made, and goes through TLS when it is
  for TLS. `SecureWhenAskedHolds` follows.

The invariant has a part per component, so most steps are shown to keep it by class: those
that change only flags, calls and holders of a socket (`SoftKeeps`), that move a
datagram (`DatagramKeeps`), move a cell of a stream (`MoveKeeps`, with `ReadStreams` and
`WriteStreams`), or close a socket (`ClosedKeeps`).

**Lemmas for induction.** The induction theorems of the library take an operator, which
the provers can not instantiate. The modules that need them prove them for a set instead:
`NatSetInduction` (a set that holds 0 and is closed under successor holds all
natural numbers) in LogReaderProofs and LogRecorderProofs, `FiniteSubsetInduction` in
GuestProcessProofs.

**Only model-checked**: all liveness properties (`EventuallyClosed`, `TasksComplete`,
`CallsReturn`, `ReachesEnd`, `ExitReturns`, `PollTimesOut`, `KilledEnds`,
`SocketCloseReturns`, `EndReachesHost`), which are outside what the prover supports;
and the safety properties of WasiReplay, NetworkTrace and GuestFiles. WasiCodec and
ImageFiles declare RECURSIVE operators, and the prover has no SMT backend in a module
that reaches one, hence in WasiReplay and GuestFiles (not in DirFiles); recursive
functions and folds can be reasoned about, with the lemmas above. DirFiles and
NetworkTrace are within its reach (section 6). Every safety property of the other
runs is proved.

## 6. Plan

Done: the modules of section 2, in the order of the table, and the theorems of section 5.

Theorems worth proving next, each for every value of the constants:

1. DirFiles: `Confined`, from an invariant on the directories of a chain, and the part of
   `DescriptorsSound` that ties the counts of a dirFile to its users.
2. NetworkTrace: `EventsFollowSocket`.

Abstract specifications worth stating: a task as a one-shot asynchronous call
(refined by TaskScheduler), a log as a sequence of records that is appended to and
published once (refined by LogRecorder, read by LogReader), an atomic register with
tags (refined by ObjectStore without failures).

Extensions: guests that execute tasks and submit tasks themselves (they hold a thread
while their own tasks need one, task.go:186), the host's side of sockets
(host_unix.go, System.Dial and Listen), the registry's lookups (registry.go:161) and
streams (multi.go:27).

## 7. Not modelled

* Records, flatbuffers, checksums, compression, queries and printing are pure
  functions of data the models treat as values; generated code is generated.
* In the modelled parts: the bytes of files, buffer sizes and addresses; the values of
  deadlines and the flags PEEK and WAITALL of sockets; what a host sends before its
  connection is bridged (it waits in the kernel, and is lost with a connection that never
  is); datagrams, times and addresses of traces; stdio.Limit, which counts lines; MkdirAll,
  CopyFile, ReadFile, WriteFile, the adapter to io/fs and throttled files (fs.go), which
  nothing in a guest's run calls; Depth, Join and Clean of fspath, which only tests use.
* Host sockets (host_unix.go), socketConn and socketListener (socket.go), socket
  options and the wrappers of system calls are one call of the host each.
* The observer of wasicall is used by tests only. Retry of dials is a bounded loop.
* Container images, fault injection, the command line, configuration and test support
  have no state of their own that changes concurrently.

`PROJECT.json` gives the reason for each component.
