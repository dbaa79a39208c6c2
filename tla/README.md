# Verification of cask

cask is a pastebin server in C: a pool of worker threads, each with its own
listening socket (SO_REUSEPORT), its own epoll event loop and its own timers,
and one file that all of them use as a hash-table database. This directory
holds TLA+ models of all of its parts, the TLC configurations that check them
and TLAPS proofs about the database, the red-black tree, the connections, the
parser and the process. Source lines are given as `file:line`, under
`src/src/`. There are no tests in the repository; the statements that the
findings quote come from its README, its comments and what it tells a client.

## The system

| Component | State | Operations | Modelled by |
|---|---|---|---|
| Paste database (`db.c`) | the file: header (next id, bucket count), buckets, records; a rwlock | `open_db`, `db_insert`, `db_get`, `close_db` | `Db`, `PasteStore`; `DbProofs`, `PasteProofs`, `StoreProofs` |
| Red-black tree (`rbtree.c`) | nodes embedded in timers, one root per event base, one static sentinel for the whole process | insert, delete, leftmost, upper bound | `RBTreeOps`, `RBTree`; `RBTreeProofs` |
| Timers (`event.c`, `connection.c`) | the tree, a flag, trigger and data per timer | `add_timer`, `del_timer`, `run_timers` | `Timers` |
| Event loop (`event.c`) | epoll's interest and ready lists | `run_io`, `add_event`, `del_event` | `Connection`; `ConnectionProofs` |
| Connections (`connection.c`) | state IN or OUT, KEEPALIVE, buffer, bytes sent, event, timer | accept, read, send, reset, close, time out | `Connection`; `ConnectionProofs` |
| Worker pool (`worker.c`) | list of workers under `worker_lock`, `num_workers`, `running` per worker | start, loop, `on_accept`, shut down, destroy | `Cask`, `CaskProofs`; the loop and `on_accept` in `Connection` |
| Request parser and responses (`request.c`) | offsets into the connection's buffer, parser state | `parse_request`, `send_response` | `Request`, `RequestProofs`; their effect on a connection in `Connection` |
| Routes (`route.c`), callbacks (`cask.c`) | table of routes | `match_route`; index, get and post | `Request` |
| Buffer (`buffer.c`) | data, size and capacity | resize, push, clear | `Request`, `RequestProofs` |
| Main thread and IPC (`cask.c`) | what it has acquired, the IPC socket and its path, pending SIGINT | startup, pselect loop, `handle_ipc`, shutdown | `Cask`, `CaskProofs` |
| `caskmon` | a connection, what it still expects | connect, ask, read the answer | `Cask`, `CaskProofs` |
| Static file, list and array macros | | | in part: the mapping of index.html is a resource in `Cask`, the worker list is walked there node by node; sets and sequences stand for the rest |

How they interact: a worker's loop runs the due timers and then a batch of
epoll events. A timer's callback closes its connection; a connection's event
reads until EAGAIN, parses, calls the route's callback, which calls
`db_insert` or `db_get` under the rwlock and then `send_response`, which
registers the socket for output, re-arms the timer and starts sending. The
workers share three things only: the database, the sentinel of the red-black
trees (by oversight), and the worker list, which the main thread reads for a
monitor under a mutex and walks at the shutdown without one.

What is hard here and which property is about it:

* **Several threads on one file** (`db.c:165-206`): ids, record places and
  bucket heads must come from one writer at a time, and a reader must not see
  half an insert. `PastesReadBack`, `StoreSpec`, `BasicInv`.
* **A kill between two writes**: the header and the buckets are a shared
  mapping, the records are `pwrite`n, nothing is ordered or synced, and
  `open_db` takes any file with a header for a database.
  `IdsNeverReused`, `PastesReadBack`, `BasicInv`.
* **Calls that fail half-way** (`db.c:173`, `db.c:64`, `connection.c:234`).
  `PastesReadBack`, `CallsReturn`, `ConnectionsWatched`.
* **Edge-triggered events** (`connection.c:231`): an edge that is not consumed
  to EAGAIN or not re-armed never comes back. `NoLostWakeup`.
* **Pointers in a batch of events**, timers and connections that free each
  other (`event.c:73`, `connection.c:183`). `CallbacksLive`,
  `TimersOfConnections`.
* **Things that must happen in the end**: calls return, idle connections are
  closed, requests are answered, due timers are not passed over. `CallsReturn`,
  `IdleConnectionsClosed`, `RequestsAnswered`, `NoneLeftDue`.
* **The pointer algorithms** of the tree, with equal keys, and the sentinel
  that `rbtree_delete` writes to (`rbtree.c:63`). `HoldsInOrder`, `Balanced`,
  `SearchesFind`, `FixupsEnd`; the sentinel is shared by all workers' trees,
  and what that leads to is `FixupStaysHome`, which is false.
* **A request cut into segments anywhere**, parsed by offsets into a buffer
  that is reused and that the parser reads past the bytes received
  (`request.c:115`), with the callbacks reading it before `send_response`
  overwrites it. `InsideBuffer`, `AnsweredWhenComplete`,
  `AnswersWhatWasAsked`.
* **A list that its members leave while main walks it** (`cask.c:353`), a
  worker whose thread has not begun when it is told to stop (`worker.c:146`),
  a count that a failed `pthread_create` makes wrong (`worker.c:139`), and a
  mutex destroyed before its last use (`cask.c:347`). `WalkSafe`,
  `StatusTruthful`, `WorkerListLocked`.
* **Ends of the process**: SIGINT at any moment, monitors that do not ask or
  leave, a start on what a killed process left. `ShutdownEnds`,
  `MonitorsServed`, `SocketRemoved`.

`PROJECT.json` lists every hazard with its line.

## The modules

**`Db`**. The file is one array of 4-byte cells, the common divisor of the
packed structures; a `dbid_t` is two cells. Stores through the mapping and
`pwrite`s go to the same array, as they do with `MAP_SHARED` and the page
cache. An action is a stretch of `open_db`, `db_insert` or `db_get` between
two accesses to the file: `CreateFile`, `Truncate`, `InitMeta`, `InitBuckets`
or `OpenFile`; `InsertBegin` (wrlock, `meta->id++`, file size),
`InsertBucket`, `InsertWalk` (one `pread` of the loop), `InsertLink`,
`InsertRecord`, `InsertOut`; `GetBegin`, `GetBucket`, `GetWalk`, `GetValue`,
`GetOut`. `Kill` ends the process in any phase and leaves the file
(`KillInMemset` with some buckets initialised and some not), which is also how
`open_db` failing after it touched the file ends. `DivideByZero` is the SIGFPE
of `id % 0`. `Faults` says which calls may fail. Left out: an error
of `pthread_rwlock_*` and of `fstat` on the open file, and the loss of
pages that were never synced (a power failure rather than a kill). Histories:
`pasted` (the paste each id was issued for) and `acked` (ids returned with
OK).

**`PasteStore`** is the promise: an id that has no paste gets one, and keeps
it for ever. `Db` implements it with the ids whose bucket leads to a record of
that id as the store (`StoreSpec`).

**`RBTreeOps`** has the pointer algorithms over a record of functions for the
memory of the nodes, left and right versions as one operator with the side as
a parameter, one iteration of a fixup loop at a time. A search loop, which
writes nothing, is the path it takes (`Path`) and where that ends (`PathEnd`).
**`RBTree`** runs them,
one thread per tree, with a step per iteration; with two trees the threads
share the sentinel. The C memory model would allow finer interleavings; the
ones modelled are among the possible ones. **`Timers`** uses the same
operators, iterated to the end of the loop, for one worker's timers, with the
nodes inside the connections as in the code; the deletion's `memcpy` of the
payload is there because it matters.

**`Connection`** is one worker thread, the kernel's side of its sockets (listen
queue, socket buffers, epoll's ready list with a level check at `epoll_wait`)
and the peers. A worker's step is an iteration of `read_data` or `send_data`
(one `recv` or `send` and what follows), a callback's start, a timer's
callback, or a turn of the loop; peers act in between. A request is two
segments, a head and a tail, so that it can be incomplete; a response is
`RespLen` chunks against `SndCap` of room, so that it blocks. `epoll_wait`
takes at most `MAX_IO_EVENTS` of the ready list and leaves the rest. `num_conns`
is a `size_t` modulo `SIZE_MAX + 1`: when `add_event` fails for a connection
just accepted, `close_connection` counts it off (`connection.c:186`) before
`on_accept` counts it on (`worker.c:61`), two steps between which main may read
it (`cask.c:107`). A timer is off, armed or due, which is what the tree of
`Timers` gives until a node with two children is deleted. Where a timer may be
at such a node, that is with three timers or more, `Torn` ends the behaviour
before the delete; `Timers` goes on there, and `timers_three` shows what
follows. The `state mismatch` branches of
`io_callback` (`connection.c:123`, `132`) are not there: a reset socket
reports both EPOLLIN and EPOLLOUT. `IO_TIMEOUT` is why an iteration follows
when nothing is ready.

**`Request`** is one connection from the bytes of its client to the bytes of
the response. The buffer is an array of cells with a size and a capacity; a
word that the code compares only as a whole is one cell, and a digit, a
separator, a CR and an LF are one each. `Recv` takes any number of cells up to
`READ_CHUNK`, so that a request is cut anywhere; `RecvBlocks` is the EAGAIN
on which `read_data` parses; `ParseStatusLine`, a round of `parse_headers`
(`ParseHeader`), `HeadersDone`, `ParseBody` are the parts of `parse_request`,
and `Respond` is the route's callback with the whole of `send_response`,
which overwrites the buffer. `Sent` is `begin_read`: the size becomes 0 and the
bytes stay. The memory that `realloc` adds holds letters, or line ends in step
with the even or odd cells, chosen once per behaviour. Clients send one message
and wait for the answer; pipelining is in `Connection`. The database is a
sequence of pastes, as `Db` promises it with a bucket for every id; with
`"db"` in `Faults` its calls may fail. Content-Length is read by `strtol` with
its sign and its saturation and cut to an int (`ToInt`), and `post_callback`
converts it to `uint32_t` (`ToUint32`), at the widths `LONG_MAX` and `INT_MAX`
give. With a length below zero it hands `db_insert` more than the buffer has:
`write_record` fails for want of memory, an error of the database, or the copy
crashes (`ReadBehind`). Left out: ids of more than one digit in an answer.
The history `mishaps` names the four ways in which the code answers otherwise
than asked, so that the properties can be stated without them: `stray` (the
parser took unreceived cells for the empty line), `headers` (a request has
`MAX_HEADERS` headers or more, and what follows them is taken for the body),
`length` (the announced length is negative, or is another one as an int)
and `push` (`realloc` failed in `send_response`, which does not look).

**`Cask`** is the process and its surroundings. The main thread goes through
`OpenDb`, `SetupIpc` and `StartWorker` to the pselect loop, where it accepts a
monitor, reads its request (a blocking `read`), writes the headers and one
entry per step while it holds `worker_lock`, and closes. On SIGINT it takes
the calls behind `out` one by one in their order (`Release`) and then walks the
worker list (`BeginStop`, `ShutdownWorker`, `ReadThread`, `Join`) with the two
pointers of `list_for_each_safe`, while workers take themselves off
(`DestroyWorker`) and free themselves: a link read from a freed node is
`Dangling`. `ReadThread` is the load of `worker->thread` at `worker.c:148`: the
worker may have freed itself since line 147, and then the load gives the thread
still, or a value with which `pthread_join` crashes or returns an error. A failure
anywhere before goes to the exit the code takes. A critical section of
`worker_lock` that does no I/O is one step. `Crash` is a callback that touches
what main has unmapped, `Kill` is SIGKILL, `SigPipe` the write to a monitor
that has left; the next `Start` finds the socket's path as the last process
left it. A ready descriptor comes before a pending signal in `pselect`, as on
Linux; a SIGINT before main has blocked it leaves no trace and is not an
action. When monitors have used up `FdRoom` descriptors, `accept` fails and the
loop turns with nothing changed. caskmon is its reads and writes, any of which
may be its last (`Leave`); the bytes of uptime and connection count are left
out of the entries.

How the modules fit: `Request` refines the one step in which `Connection`
decides whether a request is complete, bad or answered, and its callbacks call
the operations of `Db`; `Connection` is the worker that `Cask` has in the
states `run` and `serve`; `Timers` and `RBTree` are inside `Connection`'s
timers. They are checked apart: the product is out of TLC's reach, and the
interfaces are the ones named here.

**`MCDb`, `MCRBTree`, `MCTimers`, `MCConnection`, `MCRequest`, `MCCask`** add
the values and the symmetry sets for TLC.

## The runs

| Run | Question | Result |
|---|---|---|
| `db_store` | With a bucket per id, is the database an immutable store, across concurrency, failed `pwrite`s, kills everywhere and restarts with another `-b`, and does the invariant of its proof hold? | holds |
| `db_ids` | With every fault and kill and with shared buckets, does the inductive invariant hold, is an id ever reused, and does every call return? | holds, never, yes |
| `db_collision` | Does the second paste of a bucket get linked, as `db.c:191` says? | violated |
| `rbtree` | Is the algorithm right? | holds |
| `timers_two` | Does the tree hold the live connections' timers; does none fire early, and does `run_timers` pass no due one over? | holds |
| `timers_three` | The same with three connections | violated |
| `conn_safe` | Do the bookkeeping, the callbacks and the edges stay right with three connections, arbitrary peers and failing calls? | holds until a timer at a node with two children is deleted |
| `conn_live` | Are idle connections closed and requests answered if peers finish what they begin? | holds |
| `conn_stall` | Are idle connections closed whatever peers do, as `timeout=5` says? | violated |
| `request` | Is a request answered once it is complete, with what it asked for, however it was cut and whatever the buffer held? | holds, but for the four mishaps |
| `cask` | With starts that fail half-way, kills, restarts, SIGINT at any moment and monitors that leave: are status answers right, is the walk over the list safe, is the socket removed, does the server stop if its callbacks return, are monitors served? | holds |
| `cask_shutdown` | Is the mutex of the worker list there while workers leave? | violated |

Four more configurations are kept beside the runs. They show what the code does
and the models have, each by a property that TLC finds violated:

* `MCRBTree_shared.cfg`, `FixupStaysHome`: two workers' trees and their one
  sentinel;
* `MCConnection_pipe.cfg`, `ServerSurvives`: a peer that resets during a
  response, and SIGPIPE;
* `MCCask_join.cfg`, `ThreadReadLive`: a worker that has freed itself when
  `shutdown_worker` reads `worker->thread`;
* `MCRequest_length.cfg`, `StoresReceived`: a Content-Length below zero.

Bounds and why they are enough:

* `Db`: two workers, because the lock makes calls exclusive and a third adds
  only another waiter. Two pastes, one shorter than a `dbid_t` and one longer,
  because the link that overwrites a value reaches the next record only in the
  first case. `MaxId` 3 with 3 or 4 buckets (`db_store`) lets records of
  failed, killed and successful inserts follow each other in every order; with
  1 or 2 buckets and 2 ids (`db_ids`) buckets are shared. A short write
  followed by another record can close a circle of `next` offsets
  (`db.c:64`), in which a walk never ends; so can a kill between the header and
  the `memset` of the buckets (`db.c:102`), after which a bucket of zeros leads
  to the header, read as a record that is followed by itself. `CallsReturn`
  excuses a call only where the file has such a circle.
* `RBTree`: six nodes and three keys reach every case of both fixups on both
  sides, with equal keys; the coverage shows that loops iterate. What is shown
  on this instance is proved for any number of nodes. Two trees of four nodes
  in all suffice for the race.
* `Timers`: `TIMEOUT` 2 and five ticks let timers be re-armed, cancelled and
  run in every order; two connections are the most for which no node has two
  children.
* `Connection`, safety: three connections, the least for which a timer may be
  at a node with two children, and one event per `epoll_wait`, so that there is
  always something left on the ready list. `OneIdle` bounds the run: two peers
  do anything, pipelining included, and the third, whichever it is, only takes
  up a connection and a timer. `SIZE_MAX` 3 is as good as any: the count wraps
  at zero only. Liveness: two connections (one waits while the other is
  served), all of a request under way at once or not (`RcvCap` 2), and
  `RespLen` 2 against `SndCap` 1 makes every response block once. The proofs
  are for all of these numbers.
* `Request`: two messages on a connection, because the second finds what the
  first and its response left in the buffer; `READ_CHUNK` 6 is less than any
  request, so that every one takes several `recv`s; `MAX_HEADERS` 3 with
  requests of none, one, two and four headers; `MAX_BODY` 8 with announced
  lengths of 9, below zero, and such that the cut to an int (`INT_MAX` 127,
  `LONG_MAX` 1023) makes them small, negative or saturated. One paste's body begins like the end of the headers.
* `Cask`: two workers (one leaves while main is at or goes to the other), two
  monitors (one waits while the other is served), `FdRoom` 1 (a monitor that
  leaves uses up the descriptors) and two starts (the second finds what the
  first left).

Deadlock is not checked where the system may stop for good: `db_store` and
`db_ids` (an empty file left by a kill makes every later `open_db` fail),
`conn_safe` (SIGPIPE, `Torn`), `request` (the connection is closed or the last message
answered) and `cask` (no start is left).

Fairness: a thread inside `db_insert` or `db_get` goes on, since nothing in a
call waits once the lock is held (`Db`; nothing is assumed about getting the
lock, which a stream of readers may keep from a writer); the SIGFPE of a zero
bucket count comes as surely as the next instruction. In `Cask` the threads
run between callbacks: a worker that was created sets `running`, and one that
sees it cleared leaves. That a callback returns is assumed nowhere in the
specification; `ShutdownEnds` has it as a premise (`CallbacksReturn`), because
the code does not ensure it: with a worker in the loop of `connection.c:60`,
`pthread_join` waits for ever and SIGINT does not end the server. A connected
caskmon writes its request, which is its next instruction, and reads; it may
also leave. A monitor that did neither would keep main in a blocking `read`
with SIGINT blocked (`cask.c:82`): this is assumed away. Nobody is assumed to
send SIGINT, to kill or to connect. `Timers` has no fairness: what `run_timers`
owes a due timer is the action property `NoneLeftDue`, and how soon `run_io`
lets the loop come back to it is a question to `Connection`. There the worker's
thread runs, and nothing is assumed of the clock: `IdleConnectionsClosed` has
as a premise that it does not stop while the timer is armed. Peers are never
assumed to act, except in `conn_live`, where a peer that has sent half a
request sends the rest or closes; `conn_stall` shows that this is needed.
`conn_live` also has peers wait for the answer before the next request: a peer
that never stops sending keeps `read_data` from EAGAIN, and no request is parsed before that.

## What the violations show

1. `db_collision`: `db.c:192` writes the link to `offsetof(struct record,
   offset)`, which is where the value starts, instead of `next`. The first
   paste of the bucket is damaged and the new one cannot be found.
2. `timers_three`: `rbtree.c:74` deletes a node with two children by moving
   the successor's payload into it. The nodes are embedded, so the node that
   stays is the one whose connection is freed next.
3. `conn_stall`: `connection.c:60` polls `recv` in a loop while a request is
   incomplete, so one silent peer stops its worker's loop and timers.
4. `cask_shutdown`: `cask.c:347` destroys `worker_lock`, and the lines after
   it unmap index.html and close the database, before the first worker is told
   to leave. A worker takes itself off the list with a mutex that is gone, and
   a request served in between reads what is no longer mapped.

And the configurations kept beside the runs: `rbtree.c:63` keeps a deleted
leaf's parent in the static sentinel, which all workers' trees share;
`connection.c:89` sends without MSG_NOSIGNAL, and SIGPIPE is at its default;
`worker.c:148` reads `worker->thread` after line 147 has let the worker free
itself; `request.c:182` looks at Content-Length from above only, so that a
negative one makes `post_callback` store `(uint32_t)len` bytes (`cask.c:171`).

Met while modelling and visible in the models, without a run of their own: the
four mishaps of `Request`; SIGINT while a worker polls a silent peer's socket
does not end the server (the premise of `ShutdownEnds`); `num_conns` wraps
below zero for a moment when a new connection cannot be registered
(`connection.c:186`, said by `ConnectionsWatched`); a monitor that leaves before it asks costs a
descriptor for good (`cask.c:86`, the proviso `FdsLeft`); a killed server
leaves the socket's path, on which the next `bind` fails (`SocketRemoved` is
about orderly ends only); a worker whose thread has not begun is not joined
(`worker.c:146`).

## The proofs

Every theorem holds for all values of the constants that satisfy the module's
assumption. Each has the same shape: an inductive invariant, a lemma per
action, and the property as a consequence. A run checks the invariants on a small instance too,
except the tree's, which says that certain functions exist and which TLC could
check only by trying them all.

| Module | Theorems |
|---|---|
| `DbProofs` | `BasicInvariance`: `[]BasicInv`; `TypeCorrect`: `[]TypeOK`; `FreshIds`: `IdsNeverReused` |
| `PasteProofs` | `PasteInvariance`: `[]PasteInv`; `PastesAlwaysReadBack`: `[]PastesReadBack` |
| `StoreProofs` | `Implementation`: `Spec => StoreSpec` if there is a bucket for every id and no write is cut short |
| `ConnectionProofs` | `ConnInvariance`: `[]ConnInv`; `ConnTypes`: `[]TypeOK`; `WatchedAlways`: `[]ConnectionsWatched`; `CallbacksAlwaysLive`: `[]CallbacksLive`; `WakeupsKept`: `[]NoLostWakeup` |
| `CaskProofs` | `CaskInvariance`: `[]CaskInv`; `CaskTypes`: `[]TypeOK`; `StatusAlwaysTruthful`: `[]StatusTruthful`; `WalkAlwaysSafe`: `[]WalkSafe`; `SocketAlwaysRemoved`: `[]SocketRemoved` |
| `RBTreeProofs` | for one tree: `TypeCorrect`: `[]TypeOK`; `OrderHeld`: `[]HoldsInOrder`; `StaysBalanced`: `[]Balanced`; `SearchesCorrect`: `[]SearchesFind`; `FixupsTerminate`: `[]FixupsEnd` |
| `RequestProofs` | `RequestInvariance`: `[]RequestInv`; `RequestTypes`: `[]TypeOK`; `AlwaysInsideBuffer`: `[]InsideBuffer` |
| `NumberLemmas` | lemmas that the last two rest on: a set of numbers has a least one, and a recursive function on the numbers exists |

**The database: ids** (`DbProofs`; any set of workers, pastes that are not
empty, positive bucket counts, any faults and kill points). That ids are fresh
means that `meta->id` is above every id issued. This is no invariant by itself:
a record or link written over the header would break it, so the writer's
position must be behind the header (`CallInv`); two writers would break it, so
being inside `db_insert` must mean holding the lock (`LockInv`); a restart that
found half a database would break it, so what `open_db` leaves at each of its
steps is described, and that no id was issued before it is done (`FileInv`).
`FileInv` also has that the file is long enough for the buckets its header
names, which makes every bucket access of `db_insert` and `db_get` defined. The
lemmas about `Pwrite` say what each cell of the file is after a write.

**The database: pastes** (`PasteProofs`, on top of it). `PasteInv` says what the
file holds as long as no two ids share a bucket and no write was cut short. A
bucket that was set need not lead to its own record: an insert whose `pwrite`
failed, or a process killed before it, leaves its bucket pointing at the end of
the file, where the next insert writes another id's record. So a bucket is
unset, at the end of the file, or at *some* complete record (`HeapInv`), and it
is the comparison of ids in the walk that makes the answer right. A bucket of
an id not yet issued is unset; this is what keeps `db_insert` from the pwrite of
the link, which is wrong in the code, and it needs that ids are fresh. A bucket
is unset also when it is zero, because `open_db` may have been killed before the
`memset`: a walk then reads the header as a record, whose `id` lies over the
high half of `meta->id` and the low half of `num_buckets`. That this is no id
ever issued needs the cells of the header in the invariant, from `open_db` on
(`CreateInv`). `StepInv` says for each step of a call how its locals agree with
the file; `LockInv` is why the file does not change under a reader.

**The refinement** (`StoreProofs`, on top of both). With `PasteInv` the abstract
store is the function from the ids whose bucket leads to their own record to
their pastes. The pwrite of a record is then a `Put` of an id that has no paste,
and every other step, every kill and every restart leaves that function alone.
The step that needs the most care is the `pwrite` itself: it lands where a
failed insert's bucket may point too, and makes only its own id readable. The
hypotheses say what the abstract store needs: with fewer buckets than ids, or
with a short write that counts as success (`db.c:64`), the theorem is false, and
`db_collision` shows it for the first.

**Connections** (`ConnectionProofs`; any finite set of connections, any lengths
of responses and buffers and batches, pipelining or not, any faults). They are
about behaviours up to the first `rbtree_delete` of a timer's node with two
children (`Torn`), which takes three timers: what the code does after it is not
what `Connection` says, and `timers_three` shows that the theorems would be
false. A worker with two connections never gets there. `num_conns` is proved to
be the number of connections at every step but one: between
`accept_connection` and the increment in `on_accept` it is one less, modulo
`SIZE_MAX + 1`. `ConnectionsWatched` needs that a
socket in the listen queue is there once and is no connection (`BacklogInv`),
or one socket would be counted twice. `CallbacksLive` needs that only
connections are ready and that a callback frees no connection but its own.
`NoLostWakeup` speaks of the point before `epoll_wait`; to get there,
`EdgesKept` says at every step who owes a ready connection a look: epoll, the
rest of the batch, or the running callback. That the set of connections is
finite and no larger than `SIZE_MAX` is the only assumption beyond the types; a
process has finitely many descriptors.

**The process** (`CaskProofs`; any number of workers, monitors, starts and
leaked descriptors, any faults). `WalkSafe` is about the main thread and a
worker: the list holds exactly the workers that live, in their order
(`PoolInv`); the only worker that can leave is the one main is stopping or
joining, since `running` is cleared by no one else (`LeaveInv`); and the node
main has remembered is another one (`WalkInv`). The theorem is about the links
main follows; the one read through a worker that may be gone, that of
`worker->thread`, is not among them, and is shown by `ThreadReadLive`. `StatusTruthful` is about two processes
and a stream between them: what a monitor has read and what is on its way are
together the beginning of the right answer (`HeardInv`), `handle_ipc` stands
where this beginning ends (`ReplyInv`), no monitor is answered twice
(`QueueInv`), and main answers only when the pool is complete, because every
failure of the start leaves before the loop (`PoolInv`). `SocketRemoved` needs
that a path that exists is either in main's hands or left by a process that
died (`HaveInv`). `0`, which stands for the list head, is assumed to be no
monitor.

**The red-black tree** (`RBTreeProofs`; any finite set of nodes, any keys, any
sequence of inserts and deletes). The hypothesis is that there is one tree, and
it is needed: `rbtree_delete` keeps the parent of a removed leaf in the
sentinel (`rbtree.c:63`), which is one static node for the whole process, and
with two trees `FixupStaysHome` is false (`MCRBTree_shared.cfg`). So the
theorems are about the algorithm, and about a server with one worker as long
as it deletes only nodes that are in the tree; after what `timers_three` shows,
`connection.c` does otherwise.

The provers have no induction over trees. `Shape` replaces it by a statement
about each node and its neighbours: every node has a place, an integer, every
subtree an interval, and a node's place divides its interval between its
children. Intervals get shorter on the way down, so a search ends; the nodes
below a node are the ones placed in its interval, which gives the order of keys
from their order by place, and what `Reachable` computes; and a rotation moves
no place and changes two intervals. `Mirror` exchanges the sides, so that each
case of a fixup is argued once. Linking a leaf doubles the places, which leaves
room for one next to its parent; taking out a node leaves the others where they
are.

Balance is a number `bh` for every node, the black nodes below it on each path,
again a relation of neighbours. Inside a fixup it has one exception at `x`: a
red node whose parent may be red (`insert_fixup`), or a subtree that is one
black node short (`delete_fixup`). That the exception stays the only one is
what the cases of the two loops are proved to do. `delete_fixup` reads the
colors of the sibling's children, and the sibling is a node rather than the
sentinel because the black height on its side is positive; `x` may be the sentinel,
and then the sentinel's parent is the place of the exception. `FixupsEnd` needs
that an iteration after which the loop goes on has raised `x` by a black node
(`InsertClimbs`, `DeleteClimbs`), so that the iterations made are at most
`bh[x]`, and that a subtree of black height `b` has at least `2^b - 1` nodes
(`TreeSize`). Its first form could not be proved: the history `iter` also went
up when `rbtree_delete` was called several times in a row without a fixup, which
more nodes than the run has would have shown. `iter` was corrected, and the
bound is half of what it was.

**The parser and the buffer** (`RequestProofs`; any messages, good or not, that
are sequences of cells, any limits, any failures, `READ_CHUNK` at least 2).
`parse_headers` compares two bytes behind `read_bytes` without asking whether
they were received. That they are inside the buffer needs two facts from two
functions: `read_bytes` is at most `size` while headers are parsed, and
`read_data` has made room for `READ_CHUNK` more before every call of the parser
(4096 in the code; the proof shows that 2 is enough). The URI that is routed and
a body of a positive length lie in what was received because every token of `split` is inside its line and
every line that `span` finds inside what was received; `parse_request` waits
for the whole body, even if it is thought to begin behind `size`; and no offset
outlives `send_response`, which overwrites the buffer, because `reset_connection`
zeroes the request (`connection.c:201`). A byte that was not received may still
be *compared*: this is the mishap `stray`, which the theorem does not exclude.
Nor does it exclude a body of a negative length, which the code keeps: what is
proved is that this is the only way in which the process reads behind the buffer
(`ReadBehind`), for any widths of int and long.
The facts about all inputs
(the k-th delimiter of a line, the number in a row of digits, the buffer after
a row of pushes) are inductions over numbers. Each is written as the least
number for which it fails, and `Recursion` (in `NumberLemmas`) shows once that a
recursive function on the numbers exists, so that no induction theorem with an
operator parameter is needed.

Only model-checked, and why:

* `CallsReturn`, `IdleConnectionsClosed`, `RequestsAnswered`, `ShutdownEnds`
  and `MonitorsServed`: liveness under fairness, and `ENABLED`, are out of the
  prover's reach.
* `TimersOfConnections`, `NeverEarly` and `NoneLeftDue` of `Timers`: the module runs a whole
  fixup loop in a step, by RECURSIVE operators, which the prover's SMT backend
  does not take. For three connections or more the first is false
  (`timers_three`), so there is no general theorem behind the run.
* `RBTree` with several trees: `FixupStaysHome` is false there.
* `AnsweredWhenComplete` and `AnswersWhatWasAsked`: they compare what the parser
  finds with how the client put the message together, so that a proof would have
  to follow `split`, `trim` and `span` through every part of `Encode`, for
  messages that the constant leaves open.

## Not modelled

* Parsing of options, formatting of the status and of log lines, uptime and
  connection counts: no decision of the program depends on them.
* `map_file` and `unmap_file` beyond being acquired and released; the array
  of routes, filled before any thread runs; `rbtree_rightmost`, which nobody
  calls (nor does anybody call `rbtree_upper_bound`, which is modelled);
  repeating timers, which the program does not use.
* Ids from 2^32 on. `get_callback` passes any 64-bit number to `db_get`
  (`cask.c:149`), `Db` has ids whose high cell is zero. This is a bound that
  matters in one place: after a kill between the header and the `memset`
  (`db.c:102`), `db_get` of `num_buckets << 32` would take the header for the
  record of that id. `PastesReadBack` and its proof are about the ids below.
* Overflow of sizes and offsets, but for the length of a body and the count of
  connections.
* Memory ordering weaker than interleaving: `running` is a plain `bool`
  written by main and read by the worker, and the model lets the worker see it.
* When a connection in the listen queue is accepted: `on_accept` takes one per
  edge (`worker.c:57`), which `Connection` has, and nothing in the repository
  says when it should be.
* Loss of unsynced pages.

## Plan

* `NeverEarly` of `Timers` for any number of connections: the loops of the
  fixups as recursive functions instead of RECURSIVE operators, which
  `FixupsTerminate` shows to be defined, and then the lemmas of `RBTreeProofs`
  on them.
* `AnsweredWhenComplete` for requests without a body: the first step towards it
  is that the line `span` finds at the start of an encoded request is its
  request line.
* If the code gets a sentinel per tree: `RBTree` with `RBNIL` as a function of
  the tree, and the theorems of `RBTreeProofs` for every tree.
