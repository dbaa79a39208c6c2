-------------------------------- MODULE Cask --------------------------------
(***************************************************************************)
(* The process as a whole: the main thread (src/cask.c) from its start     *)
(* over the pselect loop to the shutdown, the pool of workers and its list *)
(* (src/worker.c), and the monitors, which are processes of their own      *)
(* (src/caskmon/caskmon.c) and talk to the main thread over a UNIX socket. *)
(* The process may be killed, and be started again on what it left in the  *)
(* file system.  What a worker does in its event loop is in Connection.    *)
(***************************************************************************)
EXTENDS Integers, Sequences

CONSTANTS
  NumWorkers, \* option -w
  Monitors,   \* runs of caskmon
  FdRoom,     \* descriptors the process can open for monitors
  MaxStarts,  \* bound: how often the server is started
  Faults      \* what may fail: "open_db", "setup_ipc", "listen", "start_worker",
              \* "pthread_create", "pselect"; "sigpipe" if SIGPIPE is not ignored

ASSUME CaskAssumption ==
  /\ NumWorkers \in Nat \ {0} /\ FdRoom \in Nat \ {0} /\ MaxStarts \in Nat
  /\ 0 \notin Monitors \* HEAD stands for no monitor
  /\ Faults \subseteq {"open_db", "setup_ipc", "listen", "start_worker",
                       "pthread_create", "pselect", "sigpipe"}

VARIABLES
  main,        \* where the main thread is
  have,        \* the resources main acquired and has not released
  sigint,      \* SIGINT is pending; main has it blocked except inside pselect
  current_id,  \* cask.current_id, the number of workers started
  workers,     \* cask.workers
  num_workers, \* cask.num_workers
  lock,        \* main holds cask.worker_lock
  wpc,         \* where each worker's thread is
  running,     \* worker->running
  iter, next,  \* main's pointers into the worker list
  path,        \* the socket's path exists in the file system
  orphan,      \* history: a process ended and left the path behind
  starts,      \* history: how often the server was started
  backlog,     \* monitors that main has not accepted
  cur, left,   \* handle_ipc: the monitor it serves and the entries yet to write
  leaks,       \* descriptors of monitors that were never closed
  link,        \* the server's end of a monitor's connection
  wire,        \* what main wrote to a monitor and it has not read
  mon,         \* where each caskmon is
  want, got    \* the entries it still expects, and those it has read

poolVars == <<current_id, workers, num_workers, wpc, running>>
mainVars == <<main, have, sigint, lock, iter, next>>
fileVars == <<path, orphan, starts>>
ipcVars == <<backlog, cur, left, leaks>>
monVars == <<link, wire, mon, want, got>>
vars == <<poolVars, mainVars, fileVars, ipcVars, monVars>>

Workers == 1..NumWorkers
HEAD == 0          \* the list's head, which is no worker
Dangling == -1     \* read from a node that was freed
IPC_CMD_STATUS == 0

(* The thread has not been created, or has freed its worker. *)
Gone == {"none", "gone"}

Init ==
  /\ main = "ended" /\ have = {} /\ sigint = FALSE /\ lock = FALSE
  /\ iter = HEAD /\ next = HEAD
  /\ current_id = 0 /\ workers = <<>> /\ num_workers = 0
  /\ wpc = [w \in Workers |-> "none"] /\ running = [w \in Workers |-> FALSE]
  /\ path = FALSE /\ orphan = FALSE /\ starts = 0
  /\ backlog = <<>> /\ cur = HEAD /\ left = 0 /\ leaks = 0
  /\ link = [m \in Monitors |-> "none"] /\ wire = [m \in Monitors |-> <<>>]
  /\ mon = [m \in Monitors |-> "idle"]
  /\ want = [m \in Monitors |-> 0] /\ got = [m \in Monitors |-> <<>>]

(* The list *)
First == IF workers = <<>> THEN HEAD ELSE workers[1]

(* p->next; the head's next is the first node. *)
After(p) ==
  CASE p = HEAD -> First
    [] \E i \in 1..Len(workers) : workers[i] = p ->
         LET i == CHOOSE j \in 1..Len(workers) : workers[j] = p
         IN  IF i = Len(workers) THEN HEAD ELSE workers[i + 1]
    [] OTHER -> Dangling

(* The process is gone: its memory, its threads and its descriptors with it. *)
EndProcess ==
  /\ main' = "ended" /\ have' = {} /\ sigint' = FALSE /\ lock' = FALSE
  /\ iter' = HEAD /\ next' = HEAD
  /\ current_id' = 0 /\ workers' = <<>> /\ num_workers' = 0
  /\ wpc' = [w \in Workers |-> "none"] /\ running' = [w \in Workers |-> FALSE]
  /\ backlog' = <<>> /\ cur' = HEAD /\ left' = 0 /\ leaks' = 0
  /\ link' = [m \in Monitors |-> IF link[m] = "none" THEN "none" ELSE "closed"]
  /\ UNCHANGED <<path, starts, wire, mon, want, got>>

(* It ends in the middle of something: SIGKILL, SIGSEGV, SIGPIPE, or SIGINT before main    *)
(* has installed its handler.                                                              *)
Die == EndProcess /\ orphan' = (orphan \/ path)

----------------------------------------------------------------------------
(* The main thread: start *)

(* main up to open_db.  Options that it refuses and calls that fail end it before it has   *)
(* anything.  A SIGINT between the installation of the handler and the blocking sets       *)
(* cask.running to false, which it is, and is forgotten.                                   *)
Start ==
  /\ main = "ended" /\ starts < MaxStarts
  /\ main' = "open" /\ starts' = starts + 1
  /\ have' = {"lock", "ai"}
  /\ UNCHANGED <<poolVars, sigint, lock, iter, next, path, orphan, ipcVars, monVars>>

OpenDb ==
  /\ main = "open"
  /\ \/ /\ main' = "ipc" /\ have' = have \cup {"db"}
        /\ UNCHANGED <<poolVars, sigint, lock, iter, next, fileVars, ipcVars, monVars>>
     \/ "open_db" \in Faults /\ EndProcess /\ UNCHANGED orphan

(* bind fails if the path exists.  A failing listen leaves the path behind. *)
SetupIpc ==
  /\ main = "ipc"
  /\ \/ /\ ~path
        /\ path' = TRUE
        /\ main' = "spawn" /\ have' = have \cup {"ipc", "path", "index"}
        /\ UNCHANGED <<poolVars, sigint, lock, iter, next, orphan, starts, ipcVars, monVars>>
     \/ /\ path \/ "setup_ipc" \in Faults
        /\ EndProcess /\ UNCHANGED orphan
     \/ /\ ~path /\ "listen" \in Faults
        /\ main' = "ended" /\ have' = {} /\ sigint' = FALSE
        /\ path' = TRUE /\ orphan' = TRUE
        /\ UNCHANGED <<poolVars, lock, iter, next, starts, ipcVars, monVars>>

AfterIgnored == "spawn"
AfterReturn == "ended"

(* start_worker returned ERR: goto out. *)
AfterError == "out"

(* start_worker.  num_workers counts the worker even if pthread_create failed. *)
StartWorker ==
  /\ main = "spawn" /\ current_id < NumWorkers
  /\ \/ /\ LET w == current_id + 1 IN
           /\ workers' = Append(workers, w)
           /\ wpc' = [wpc EXCEPT ![w] = "created"]
        /\ current_id' = current_id + 1 /\ num_workers' = num_workers + 1
        /\ UNCHANGED <<main, running>>
     \/ /\ "start_worker" \in Faults
        /\ main' = AfterError /\ UNCHANGED poolVars
     \/ /\ "pthread_create" \in Faults
        /\ current_id' = current_id + 1 /\ num_workers' = num_workers + 1
        /\ main' = AfterError /\ UNCHANGED <<workers, wpc, running>>
  /\ UNCHANGED <<have, sigint, lock, iter, next, fileVars, ipcVars, monVars>>

EnterLoop ==
  /\ main = "spawn" /\ current_id = NumWorkers
  /\ main' = "loop"
  /\ UNCHANGED <<poolVars, have, sigint, lock, iter, next, fileVars, ipcVars, monVars>>

----------------------------------------------------------------------------
(* The main thread: the pselect loop and handle_ipc *)

(* pselect: on Linux a descriptor that is ready comes before a pending signal.  If accept  *)
(* fails for want of descriptors the loop goes round with nothing changed.                 *)
Accept ==
  /\ main = "loop" /\ backlog # <<>> /\ leaks < FdRoom
  /\ main' = "read" /\ cur' = Head(backlog) /\ backlog' = Tail(backlog)
  /\ UNCHANGED <<poolVars, have, sigint, lock, iter, next, fileVars, left, leaks, monVars>>

(* pselect returns EINTR after sighandler. *)
LeaveLoop ==
  /\ main = "loop" /\ backlog = <<>> /\ sigint
  /\ main' = "out" /\ sigint' = FALSE
  /\ UNCHANGED <<poolVars, have, lock, iter, next, fileVars, ipcVars, monVars>>

PselectFails ==
  /\ main = "loop" /\ "pselect" \in Faults
  /\ main' = "out"
  /\ UNCHANGED <<poolVars, have, sigint, lock, iter, next, fileVars, ipcVars, monVars>>

(* read of the request: it blocks until the monitor has written or left.  In the second    *)
(* case handle_ipc returns without closing the descriptor.                                 *)
ReadRequest ==
  /\ main = "read"
  /\ \/ /\ link[cur] = "asked"
        /\ main' = "status" /\ UNCHANGED <<cur, leaks>>
     \/ /\ link[cur] = "open" /\ mon[cur] = "failed"
        /\ main' = "loop" /\ leaks' = leaks + 1 /\ cur' = HEAD
  /\ UNCHANGED <<poolVars, have, sigint, lock, iter, next, fileVars, backlog, left, monVars>>

(* The writes to the monitor: they are lost if the monitor has left. *)
Write(msgs) == wire' = [wire EXCEPT ![cur] = IF mon[cur] = "failed" THEN @ ELSE @ \o msgs]

(* pthread_mutex_lock, and the two headers. *)
WriteStatus ==
  /\ main = "status" /\ ~lock
  /\ lock' = TRUE
  /\ Write(<<IPC_CMD_STATUS, num_workers>>)
  /\ left' = num_workers /\ iter' = First
  /\ main' = "reply"
  /\ UNCHANGED <<poolVars, have, sigint, next, fileVars, backlog, cur, leaks, link, mon, want, got>>

WriteEntry ==
  /\ main = "reply" /\ left > 0
  /\ Write(<<iter>>)
  /\ left' = left - 1 /\ iter' = After(iter)
  /\ UNCHANGED <<poolVars, main, have, sigint, lock, next, fileVars, backlog, cur, leaks,
                 link, mon, want, got>>

KeepLock == TRUE

(* pthread_mutex_unlock *)
Unlock == FALSE

CloseReply ==
  /\ main = "reply" /\ left = 0
  /\ lock' = Unlock /\ main' = "loop" /\ cur' = HEAD /\ iter' = HEAD
  /\ link' = [link EXCEPT ![cur] = "closed"]
  /\ UNCHANGED <<poolVars, have, sigint, next, fileVars, backlog, left, leaks, wire, mon, want, got>>

(* The write to a monitor that has left raises SIGPIPE. *)
SigPipe ==
  /\ main \in {"status", "reply"} /\ mon[cur] = "failed" /\ "sigpipe" \in Faults
  /\ Die

----------------------------------------------------------------------------
(* The main thread: shutdown *)

ReleaseOrder == <<"ai", "lock", "ipc", "path", "index", "db">>

(* One of the calls behind the label out. *)
Release ==
  /\ main = "out" /\ have # {}
  /\ \E i \in 1..Len(ReleaseOrder) : LET r == ReleaseOrder[i] IN
     /\ r \in have /\ \A j \in 1..(i - 1) : ReleaseOrder[j] \notin have
     /\ have' = have \ {r}
     /\ path' = (path /\ r # "path")
     /\ IF r = "ipc"
        THEN /\ link' = [m \in Monitors |-> IF \E k \in 1..Len(backlog) : backlog[k] = m
                                            THEN "closed" ELSE link[m]]
             /\ backlog' = <<>>
        ELSE UNCHANGED <<link, backlog>>
  /\ UNCHANGED <<poolVars, main, sigint, lock, iter, next, orphan, starts, cur, left, leaks,
                 wire, mon, want, got>>

(* list_for_each_safe, first round. *)
BeginStop ==
  /\ main = "out" /\ have = {}
  /\ main' = "stop" /\ iter' = First /\ next' = After(First)
  /\ UNCHANGED <<poolVars, have, sigint, lock, fileVars, ipcVars, monVars>>

(* list_for_each, which reads the node after the loop's body. *)
AdvanceLate == iter' = After(iter) /\ next' = After(After(iter))

(* list_for_each_safe, next round. *)
Advance == iter' = next /\ next' = After(next)

StopOnlyJoin(w) == running

(* worker->running = false *)
Stopped(w) == [running EXCEPT ![w] = FALSE]

(* shutdown_worker up to running = false; a worker that is not running is passed over. *)
ShutdownWorker ==
  /\ main = "stop" /\ iter # HEAD
  /\ \/ /\ running[iter]
        /\ running' = Stopped(iter) /\ main' = "thread" /\ UNCHANGED <<iter, next>>
     \/ ~running[iter] /\ Advance /\ UNCHANGED <<main, running>>
  /\ UNCHANGED <<current_id, workers, num_workers, wpc, have, sigint, lock, fileVars, ipcVars,
                 monVars>>

(* The read of worker->thread for pthread_join.  The worker may have freed itself since    *)
(* running was cleared: what is read then is the thread still, or anything, for which      *)
(* pthread_join crashes or returns an error that nobody looks at.                          *)
ReadThread ==
  /\ main = "thread"
  /\ \/ /\ main' = "join"
        /\ UNCHANGED <<poolVars, have, sigint, lock, iter, next, fileVars, ipcVars, monVars>>
     \/ wpc[iter] \in Gone /\ Die
     \/ /\ wpc[iter] \in Gone
        /\ main' = "stop" /\ Advance
        /\ UNCHANGED <<poolVars, have, sigint, lock, fileVars, ipcVars, monVars>>

(* pthread_join returns, when the thread has ended. *)
Join ==
  /\ main = "join" /\ wpc[iter] = "gone"
  /\ main' = "stop" /\ Advance
  /\ UNCHANGED <<poolVars, have, sigint, lock, fileVars, ipcVars, monVars>>

(* main returns. *)
Exit ==
  /\ main = "stop" /\ iter = HEAD
  /\ EndProcess /\ UNCHANGED orphan

----------------------------------------------------------------------------
(* The workers *)

WorkerAt(w, from, to) ==
  /\ wpc[w] = from /\ wpc' = [wpc EXCEPT ![w] = to]
  /\ UNCHANGED <<current_id, mainVars, fileVars, ipcVars, monVars>>

(* worker_proc sets worker->running. *)
WorkerProc(w) ==
  /\ WorkerAt(w, "created", "run")
  /\ running' = [running EXCEPT ![w] = TRUE]
  /\ UNCHANGED <<workers, num_workers>>

(* An iteration of the event loop in which a callback uses the database and index.html. *)
Serve(w) ==
  /\ running[w] /\ WorkerAt(w, "run", "serve")
  /\ UNCHANGED <<workers, num_workers, running>>

Served(w) ==
  /\ WorkerAt(w, "serve", "run")
  /\ UNCHANGED <<workers, num_workers, running>>

(* The callback touches memory that main has unmapped or freed. *)
Crash(w) == wpc[w] = "serve" /\ "index" \notin have /\ Die

(* list_del *)
Unlinked(w) ==
  LET at == CHOOSE i \in 1..Len(workers) : workers[i] = w
  IN  [i \in 1..(Len(workers) - 1) |-> IF i < at THEN workers[i] ELSE workers[i + 1]]

UncountTwice == num_workers - 2

(* num_workers-- *)
Uncount == num_workers - 1

(* destroy_worker, called when the loop finds running false; event_base_iter never returns *)
(* an error.  A destroyed mutex gives EINVAL and nobody looks.                             *)
DestroyWorker(w) ==
  /\ ~running[w] /\ (lock => "lock" \notin have)
  /\ WorkerAt(w, "run", "gone")
  /\ num_workers' = Uncount /\ workers' = Unlinked(w)
  /\ UNCHANGED running

----------------------------------------------------------------------------
(* caskmon *)

MonitorAt(m, from, to) ==
  /\ mon[m] = from /\ mon' = [mon EXCEPT ![m] = to]
  /\ UNCHANGED <<poolVars, mainVars, fileVars, cur, left, leaks>>

Connect(m) ==
  \/ /\ "ipc" \in have /\ MonitorAt(m, "idle", "connected")
     /\ link' = [link EXCEPT ![m] = "open"] /\ backlog' = Append(backlog, m)
     /\ UNCHANGED <<wire, want, got>>
  \/ /\ "ipc" \notin have /\ MonitorAt(m, "idle", "failed")
     /\ UNCHANGED <<link, wire, want, got, backlog>>

Ask(m) ==
  /\ \/ /\ link[m] = "open" /\ MonitorAt(m, "connected", "asked")
        /\ link' = [link EXCEPT ![m] = "asked"]
     \/ link[m] = "closed" /\ MonitorAt(m, "connected", "failed") /\ UNCHANGED link
  /\ UNCHANGED <<wire, want, got, backlog>>

(* The three kinds of read: the command, the status and the entry of a worker. *)
ReadAnswer(m) ==
  /\ wire[m] # <<>> /\ wire' = [wire EXCEPT ![m] = Tail(@)]
  /\ \/ /\ MonitorAt(m, "asked", IF Head(wire[m]) = IPC_CMD_STATUS THEN "command" ELSE "failed")
        /\ UNCHANGED <<want, got>>
     \/ /\ MonitorAt(m, "command", IF Head(wire[m]) = 0 THEN "done" ELSE "entries")
        /\ want' = [want EXCEPT ![m] = Head(wire[m])] /\ UNCHANGED got
     \/ /\ MonitorAt(m, "entries", IF want[m] = 1 THEN "done" ELSE "entries")
        /\ want' = [want EXCEPT ![m] = @ - 1]
        /\ got' = [got EXCEPT ![m] = Append(@, Head(wire[m]))]
  /\ UNCHANGED <<link, backlog>>

Asking == {"asked", "command", "entries"}

(* The server closed the connection, or died, before the answer was complete. *)
ReadFails(m) ==
  /\ mon[m] \in Asking /\ wire[m] = <<>> /\ link[m] = "closed"
  /\ MonitorAt(m, mon[m], "failed")
  /\ UNCHANGED <<link, wire, want, got, backlog>>

(* The monitor is interrupted. *)
Leave(m) ==
  /\ mon[m] \in Asking \cup {"connected"}
  /\ MonitorAt(m, mon[m], "failed")
  /\ wire' = [wire EXCEPT ![m] = <<>>]
  /\ UNCHANGED <<link, want, got, backlog>>

----------------------------------------------------------------------------
(* SIGINT once main has blocked it, and SIGKILL. *)
Sigint ==
  /\ main # "ended" /\ ~sigint /\ sigint' = TRUE
  /\ UNCHANGED <<poolVars, main, have, lock, iter, next, fileVars, ipcVars, monVars>>

Kill == main # "ended" /\ Die

Main ==
  \/ OpenDb \/ SetupIpc \/ StartWorker \/ EnterLoop
  \/ Accept \/ LeaveLoop \/ ReadRequest \/ WriteStatus \/ WriteEntry \/ CloseReply \/ SigPipe
  \/ Release \/ BeginStop \/ ShutdownWorker \/ ReadThread \/ Join \/ Exit

Worker(w) == WorkerProc(w) \/ Serve(w) \/ Served(w) \/ Crash(w) \/ DestroyWorker(w)

Caskmon(m) == Ask(m) \/ ReadAnswer(m) \/ ReadFails(m)

Next ==
  \/ Start \/ Main \/ PselectFails \/ Sigint \/ Kill
  \/ \E w \in Workers : Worker(w)
  \/ \E m \in Monitors : Connect(m) \/ Caskmon(m) \/ Leave(m)

Spec == Init /\ [][Next]_vars

(* The threads run, and a connected caskmon writes its request and reads the answer.  That *)
(* a callback returns is not assumed: read_data may poll recv forever (connection.c:60).   *)
Fairness ==
  /\ WF_vars(Main)
  /\ \A w \in Workers : WF_vars(WorkerProc(w)) /\ WF_vars(DestroyWorker(w))
  /\ \A m \in Monitors : WF_vars(Caskmon(m))

FairSpec == Spec /\ Fairness

----------------------------------------------------------------------------
(* Properties *)

MainTypes ==
  /\ main \in {"ended", "open", "ipc", "spawn", "loop", "read", "status", "reply", "out",
               "stop", "thread", "join"}
  /\ have \subseteq {"ai", "lock", "ipc", "path", "index", "db"}
  /\ iter \in Workers \cup {HEAD} /\ next \in Workers \cup {HEAD}
  /\ starts \in 0..MaxStarts
  /\ cur \in Monitors \cup {HEAD} /\ left \in 0..NumWorkers /\ leaks \in 0..FdRoom

PoolTypes ==
  /\ current_id \in 0..NumWorkers /\ num_workers \in 0..NumWorkers
  /\ workers \in Seq(Workers)
  /\ wpc \in [Workers -> Gone \cup {"created", "run", "serve"}]
  /\ running \in [Workers -> BOOLEAN]

MonTypes ==
  /\ backlog \in Seq(Monitors)
  /\ link \in [Monitors -> {"none", "open", "asked", "closed"}]
  /\ mon \in [Monitors -> Asking \cup {"idle", "connected", "done", "failed"}]
  /\ wire \in [Monitors -> Seq(0..NumWorkers)]
  /\ want \in [Monitors -> 0..NumWorkers] /\ got \in [Monitors -> Seq(Workers)]

FlagTypes ==
  sigint \in BOOLEAN /\ lock \in BOOLEAN /\ path \in BOOLEAN /\ orphan \in BOOLEAN

TypeOK == MainTypes /\ FlagTypes /\ PoolTypes /\ MonTypes

(* A monitor that gets to the end of its answer has been told of every worker of the pool, *)
(* once and in order, and of nothing else, though handle_ipc trusts num_workers for how    *)
(* far it may walk the list, and a failed pthread_create makes the two differ.             *)
StatusTruthful == \A m \in Monitors : mon[m] = "done" => got[m] = [i \in Workers |-> i]

(* p is the list's head or a worker that has not freed itself.                             *)
Live(p) == p = HEAD \/ (p \in Workers /\ wpc[p] \notin Gone)

(* The main thread walks the worker list without the lock while workers take themselves    *)
(* off it and free themselves.  The node it looks at next (worker->running) and the one it *)
(* keeps for the round after, also while it waits for a worker, are never freed ones.      *)
(* This is about the links of the walk; ThreadReadLive is about the read in pthread_join.  *)
WalkSafe ==
  /\ main = "stop" => Live(iter)
  /\ main \in {"stop", "thread", "join"} => Live(next)

(* worker->thread is read from a worker that is still there.  The code does not ensure it: *)
(* nothing keeps a worker from freeing itself between the two lines of shutdown_worker.    *)
ThreadReadLive == main = "thread" => Live(iter)

(* A server that ended by itself, after SIGINT or after a start that failed half-way, left *)
(* no socket on which the bind of the next start would fail.                               *)
SocketRemoved == main = "ended" /\ path => orphan

----------------------------------------------------------------------------
(* The inductive invariant behind StatusTruthful, WalkSafe and SocketRemoved *)

Serving == {"loop", "read", "status", "reply"}

(* The list is in the order of the ids and holds exactly the workers that live; until the  *)
(* shutdown it is complete, and num_workers is never less than what it holds.              *)
PoolInv ==
  /\ \A i, j \in 1..Len(workers) : i < j => workers[i] < workers[j]
  /\ \A w \in Workers : (\E i \in 1..Len(workers) : workers[i] = w) <=> wpc[w] \notin Gone
  /\ \A w \in Workers : w > current_id => wpc[w] = "none"
  /\ Len(workers) <= num_workers /\ num_workers <= current_id
  /\ main \in {"ended", "open", "ipc"} => current_id = 0
  /\ main \in {"spawn"} \cup Serving =>
       num_workers = current_id /\ workers = [i \in 1..current_id |-> i]
  /\ main \in Serving => current_id = NumWorkers

(* A worker on its way out is the one that main is joining. *)
LeaveInv ==
  \A w \in Workers : /\ running[w] => wpc[w] \in {"run", "serve"}
                     /\ wpc[w] \in {"run", "serve"} /\ ~running[w] =>
                          main \in {"thread", "join"} /\ iter = w

(* The walk is at a node of the list or, while it joins, beside one. *)
WalkInv ==
  /\ main = "stop" => (iter # HEAD => wpc[iter] \notin Gone) /\ next = After(iter)
  /\ main \in {"thread", "join"} =>
       /\ iter # HEAD /\ ~running[iter] /\ wpc[iter] \in {"run", "serve", "gone"}
       /\ next # iter /\ (next # HEAD => wpc[next] \notin Gone)

(* What main has acquired at each point, and who is to remove the socket's path. *)
HaveInv ==
  /\ main \in {"ended", "stop", "thread", "join"} => have = {}
  /\ main \in {"open", "ipc"} => "path" \notin have
  /\ path => orphan \/ "path" \in have

(* How much of its answer a monitor has read: the command, the status, the entries. *)
Read(m) ==
  CASE mon[m] \in {"entries", "done"} -> 2 + Len(got[m])
    [] mon[m] = "command" -> 1
    [] OTHER -> 0

(* The k-th number of an answer. *)
AnswerItem(k) == IF k = 1 THEN IPC_CMD_STATUS ELSE IF k = 2 THEN NumWorkers ELSE k - 2

(* A monitor waits once for accept, and nothing was written to it yet. *)
QueueInv ==
  /\ \A i, j \in 1..Len(backlog) : i # j => backlog[i] # backlog[j]
  /\ \A i \in 1..Len(backlog) : /\ backlog[i] # cur /\ wire[backlog[i]] = <<>>
                                 /\ mon[backlog[i]] \in {"connected", "asked", "failed"}

(* What a monitor has read, and then what is on its way to it, is the right answer.        *)
Heard(m) ==
  /\ \A i \in 1..Len(wire[m]) : wire[m][i] = AnswerItem(Read(m) + i)
  /\ mon[m] \in {"idle", "connected", "failed"} => wire[m] = <<>>
  /\ mon[m] \in {"idle", "connected"} => link[m] # "asked"
  /\ mon[m] \in {"idle", "connected", "asked", "command"} => got[m] = <<>>
  /\ \A i \in 1..Len(got[m]) : got[m][i] = i
  /\ mon[m] = "entries" => want[m] >= 1 /\ want[m] + Len(got[m]) = NumWorkers
  /\ mon[m] = "done" => Len(got[m]) = NumWorkers

HeardInv == \A m \in Monitors : Heard(m)

(* handle_ipc begins with a monitor that nobody answered yet, and in the answer it is as   *)
(* far as what it has written.                                                             *)
ReplyInv ==
  /\ main \in {"read", "status", "reply"} <=> cur # HEAD
  /\ main = "read" => leaks < FdRoom
  /\ main \in {"read", "status"} =>
       wire[cur] = <<>> /\ mon[cur] \in {"connected", "asked", "failed"}
  /\ main \in {"status", "reply"} => mon[cur] \notin {"idle", "connected"}
  /\ main = "reply" =>
       /\ iter = IF left = 0 THEN HEAD ELSE NumWorkers - left + 1
       /\ mon[cur] # "failed" => Read(cur) + Len(wire[cur]) = 2 + NumWorkers - left

(* The inductive invariant behind the properties above: the worker list, main's pointers   *)
(* into it, what main has to release and what every monitor was told agree with where the  *)
(* threads are, whichever step of the start fails and whenever SIGINT comes.               *)
CaskInv ==
  TypeOK /\ PoolInv /\ LeaveInv /\ WalkInv /\ HaveInv /\ QueueInv /\ HeardInv /\ ReplyInv

----------------------------------------------------------------------------
(* There is a descriptor left for the next monitor.                                        *)
FdsLeft == leaks < FdRoom

(* No callback of a worker holds it forever.  The code does not ensure it: a peer that     *)
(* leaves its request incomplete keeps read_data polling (connection.c:60).                *)
CallbacksReturn == \A w \in Workers : []<>(wpc[w] # "serve")

(* SIGINT ends the server, whatever it is doing, the start and the answer to a monitor     *)
(* included, unless a callback never returns, and with it pthread_join, or monitors that   *)
(* left early used up the descriptors.                                                     *)
ShutdownEnds == CallbacksReturn => (sigint ~> main = "ended" \/ ~FdsLeft)

(* A monitor that connected gets its whole answer or is hung up on, with the same proviso. *)
MonitorsServed ==
  \A m \in Monitors : mon[m] = "connected" ~> mon[m] \in {"done", "failed"} \/ ~FdsLeft

(* A worker that leaves takes itself off the list under the "Worker list mutex", so the    *)
(* mutex is there as long as a worker can leave.                                           *)
WorkerListLocked ==
  \A w \in Workers : wpc[w] = "run" /\ ~running[w] => "lock" \in have
============================================================================
