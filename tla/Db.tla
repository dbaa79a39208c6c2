-------------------------------- MODULE Db --------------------------------
(***************************************************************************)
(* The paste database, src/db.c: one file holding a header, an array of    *)
(* buckets and an append-only heap of records, shared by every worker      *)
(* thread under one rwlock.  The header and the buckets are written        *)
(* through a MAP_SHARED mapping and the records with pread/pwrite, so all  *)
(* of them are one array here, and whatever a step wrote is what the next  *)
(* process finds after a kill.                                             *)
(*                                                                         *)
(* The array's unit, a cell, is 4 bytes, the common divisor of the packed  *)
(* structures: a uint32_t is one cell, a dbid_t is two, low half first.    *)
(* Ids and offsets stay below 2^32 (MaxId bounds the ids), so their high   *)
(* half is 0, and DBID_FREE is the all-ones pair.  A paste is a non-empty  *)
(* sequence of cells (post_callback refuses the empty body).               *)
(***************************************************************************)
EXTENDS Integers, Sequences, FiniteSets

CONSTANTS
  Workers,       \* the worker threads calling db_insert and db_get
  None,          \* no worker
  Values,        \* the pastes
  Ones,          \* a cell with every bit set
  BucketParams,  \* what -b may ask for when a process is started
  MaxId,         \* bound: ids the model hands out are below it
  Faults,        \* the calls that may fail: see AllFaults
  KillPoints     \* the phases of the process during which it may be killed

AllFaults == {"malloc", "pread", "pwrite", "short"}
Phases == {"down", "created", "sized", "meta", "up"}

ASSUME DbAssumption ==
  /\ None \notin Workers
  /\ Values \subseteq Seq(Nat) /\ <<>> \notin Values
  /\ Ones \in Nat \ {0}
  /\ BucketParams \subseteq Nat \ {0}
  /\ MaxId \in Nat
  /\ Faults \subseteq AllFaults
  /\ KillPoints \subseteq Phases \ {"down"}

VARIABLES
  exists,   \* the database file exists
  file,     \* its cells; file[k + 1] is the cell at offset k
  phase,    \* how far the process is: not running, in open_db, or serving
  params,   \* params.num_buckets of the running process
  writer,   \* the worker holding the lock for writing, or None
  readers,  \* the workers holding it for reading
  pc,       \* where each worker is in db_insert or db_get
  loc,      \* the locals of that call
  pasted,   \* history: the paste each id was issued for, a partial function
  acked     \* history: the ids db_insert returned with OK

lockVars == <<writer, readers>>
procVars == <<exists, phase, params>>
history == <<pasted, acked>>
vars == <<procVars, file, lockVars, pc, loc, history>>

----------------------------------------------------------------------------
(* The file format. *)

HEADER_SIZE == 4      \* struct header: id, num_buckets
REC_HDR_SIZE == 5     \* struct record up to the field offset: vlen, id, next
NEXT_FIELD == 3       \* offsetof(struct record, next)
OFFSET_FIELD == 5     \* offsetof(struct record, offset)
NUM_BUCKETS_FIELD == 2

dbid_t(n) == <<n, 0>>
DBID_FREE == <<Ones, Ones>>

BucketOffset(i) == HEADER_SIZE + 2 * i
MapSize(n) == HEADER_SIZE + 2 * n

(* The dbid_t stored at an offset, and the two header fields. *)
Load(f, off) == <<f[off + 1], f[off + 2]>>
MetaId(f) == f[1]
NumBuckets(f) == f[NUM_BUCKETS_FIELD + 1]
Bucket(f, i) == Load(f, BucketOffset(i))

(* pwrite, and a store through the mapping: the cells s at offset off.  A write past the   *)
(* end extends the file.                                                                  *)
Pwrite(f, off, s) ==
  LET end == off + Len(s) IN
  [k \in 1..(IF end > Len(f) THEN end ELSE Len(f)) |->
     IF off < k /\ k <= end THEN s[k - off]
     ELSE IF k <= Len(f) THEN f[k] ELSE 0]

(* pread delivers all n cells at offset o, a dbid_t, rather than fewer. *)
Readable(f, o, n) == o[2] = 0 /\ o[1] + n <= Len(f)

Header(id, n) == dbid_t(id) \o dbid_t(n)
Record(id, val) == <<Len(val)>> \o dbid_t(id) \o DBID_FREE \o val

(* The fields of the record whose header is at offset p. *)
RecVlen(f, p) == f[p + 1]
RecId(f, p) == Load(f, p + 1)
RecNext(f, p) == Load(f, p + NEXT_FIELD)

----------------------------------------------------------------------------
Locals == [id : Nat, val : Seq(Nat), pos : Nat, off : Nat \X Nat, ret : {"OK", "ERR", "NULL"}]
NoCall == [id |-> 0, val |-> <<>>, pos |-> 0, off |-> DBID_FREE, ret |-> "OK"]

InsertPcs == {"ins_bucket", "ins_walk", "ins_link", "ins_record", "ins_out"}
GetPcs == {"get_bucket", "get_walk", "get_value", "get_out"}

Init ==
  /\ exists = FALSE /\ file = <<>>
  /\ phase = "down" /\ params = 0
  /\ writer = None /\ readers = {}
  /\ pc = [w \in Workers |-> "idle"] /\ loc = [w \in Workers |-> NoCall]
  /\ pasted = [i \in {} |-> <<>>] /\ acked = {}

(* A step of worker w inside its call: it goes on to `to` with the locals `l`. *)
Goto(w, to, l) ==
  /\ pc' = [pc EXCEPT ![w] = to]
  /\ loc' = [loc EXCEPT ![w] = l]

(* The process is gone, and with it the lock and every thread. *)
Die ==
  /\ phase' = "down" /\ params' = 0
  /\ writer' = None /\ readers' = {}
  /\ pc' = [w \in Workers |-> "idle"] /\ loc' = [w \in Workers |-> NoCall]
  /\ UNCHANGED <<exists, history>>

----------------------------------------------------------------------------
(* open_db *)

(* No file yet: open(O_CREAT) makes an empty one. *)
CreateFile(n) ==
  /\ phase = "down" /\ ~exists
  /\ exists' = TRUE /\ phase' = "created" /\ params' = n
  /\ UNCHANGED <<file, lockVars, pc, loc, history>>

(* ftruncate: zeroes up to the end of the buckets. *)
Truncate ==
  /\ phase = "created"
  /\ file' = [k \in 1..MapSize(params) |-> 0]
  /\ phase' = "sized"
  /\ UNCHANGED <<exists, params, lockVars, pc, loc, history>>

InitMeta ==
  /\ phase = "sized"
  /\ file' = Pwrite(file, 0, Header(0, params))
  /\ phase' = "meta"
  /\ UNCHANGED <<exists, params, lockVars, pc, loc, history>>

(* The memset of the buckets once it has passed the first n. *)
FreeBuckets(f, n) == Pwrite(f, HEADER_SIZE, [k \in 1..2 * n |-> Ones])

(* The whole memset; open_db returns and the workers start. *)
InitBuckets ==
  /\ phase = "meta"
  /\ file' = FreeBuckets(file, params)
  /\ phase' = "up"
  /\ UNCHANGED <<exists, params, lockVars, pc, loc, history>>

(* The file exists: its header, not params, says how many buckets there are.  With fewer   *)
(* cells than a header open_db fails and the server does not start.                        *)
OpenFile(n) ==
  /\ phase = "down" /\ exists
  /\ Len(file) >= HEADER_SIZE
  /\ phase' = "up" /\ params' = n
  /\ UNCHANGED <<exists, file, lockVars, pc, loc, history>>

(* SIGKILL, the end of main, or an error return of open_db after it touched the file. *)
Kill ==
  /\ phase \in KillPoints
  /\ Die
  /\ UNCHANGED file

(* SIGKILL inside the memset. *)
KillInMemset(n) ==
  /\ phase = "meta" /\ phase \in KillPoints
  /\ file' = FreeBuckets(file, n)
  /\ Die

----------------------------------------------------------------------------
(* db_insert *)

CanWrlockUnguarded(w) == pc[w] = "idle"

CanWrlock(w) == pc[w] = "idle" /\ writer = None /\ readers = {}

ReuseId(f) == f
BumpIdDown(f) == Pwrite(f, 0, dbid_t(MetaId(f) - 1))

(* db->meta->id++ *)
BumpId(f) == Pwrite(f, 0, dbid_t(MetaId(f) + 1))

BucketIndex(f, id) == id % NumBuckets(f)

(* wrlock; id = meta->id++; pos = get_file_size.  The bound MaxId is the model's. *)
InsertBegin(w, val) ==
  /\ phase = "up" /\ CanWrlock(w)
  /\ MetaId(file) < MaxId /\ NumBuckets(file) # 0
  /\ writer' = w
  /\ file' = BumpId(file)
  /\ Goto(w, "ins_bucket", [NoCall EXCEPT !.id = MetaId(file), !.val = val, !.pos = Len(file)])
  /\ pasted' = [i \in DOMAIN pasted \cup {MetaId(file)} |->
                  IF i = MetaId(file) THEN val ELSE pasted[i]]
  /\ UNCHANGED <<procVars, readers, acked>>

(* A file whose creation was cut short says 0 buckets: id % 0 raises SIGFPE, after the     *)
(* increment in db_insert and before anything in db_get.                                   *)
DivideByZero(w) ==
  /\ phase = "up" /\ NumBuckets(file) = 0
  /\ \/ /\ CanWrlock(w) /\ MetaId(file) < MaxId
        /\ file' = BumpId(file)
     \/ /\ pc[w] = "get_bucket"
        /\ UNCHANGED file
  /\ Die

(* An empty bucket is pointed at the record to come; otherwise the walk starts at its head. *)
InsertBucket(w) ==
  LET l == loc[w]
      index == BucketIndex(file, l.id)
      head == Bucket(file, index) IN
  /\ pc[w] = "ins_bucket"
  /\ \/ /\ head = DBID_FREE
        /\ file' = Pwrite(file, BucketOffset(index), dbid_t(l.pos))
        /\ Goto(w, "ins_record", l)
     \/ /\ head # DBID_FREE
        /\ Goto(w, "ins_walk", [l EXCEPT !.off = head])
        /\ UNCHANGED file
  /\ UNCHANGED <<procVars, lockVars, history>>

(* One pread of the search for the last link of the list. *)
InsertWalk(w) ==
  LET l == loc[w] IN
  /\ pc[w] = "ins_walk"
  /\ \/ /\ ~Readable(file, l.off, REC_HDR_SIZE) \/ "pread" \in Faults
        /\ Goto(w, "ins_out", [l EXCEPT !.ret = "ERR"])
     \/ /\ Readable(file, l.off, REC_HDR_SIZE)
        /\ LET next == RecNext(file, l.off[1]) IN
           IF next # DBID_FREE
           THEN Goto(w, "ins_walk", [l EXCEPT !.off = next])
           ELSE Goto(w, "ins_link", l)
  /\ UNCHANGED <<procVars, file, lockVars, history>>

(* The pwrite meant to update the last link: it goes to offsetof(struct record, offset),   *)
(* the first cells of the value, and not to the field next.                                *)
InsertLink(w) ==
  LET l == loc[w]
      at == l.off[1] + OFFSET_FIELD IN
  /\ pc[w] = "ins_link"
  /\ \/ /\ file' = Pwrite(file, at, dbid_t(l.pos))
        /\ Goto(w, "ins_record", l)
     \/ /\ \/ "pwrite" \in Faults /\ UNCHANGED file
           \/ "short" \in Faults /\ file' = Pwrite(file, at, <<l.pos>>)
        /\ Goto(w, "ins_out", [l EXCEPT !.ret = "ERR"])
  /\ UNCHANGED <<procVars, lockVars, history>>

RecordOverlapping(f, l) == Pwrite(f, l.pos - 1, Record(l.id, l.val))

WriteRecord(f, l) == Pwrite(f, l.pos, Record(l.id, l.val))

(* write_record: a failed malloc or pwrite is an ERR, a short pwrite is taken for success. *)
InsertRecord(w) ==
  LET l == loc[w]
      rec == Record(l.id, l.val) IN
  /\ pc[w] = "ins_record"
  /\ \/ /\ file' = WriteRecord(file, l)
        /\ Goto(w, "ins_out", l)
     \/ /\ "short" \in Faults
        /\ \E n \in 1..(Len(rec) - 1) : file' = Pwrite(file, l.pos, SubSeq(rec, 1, n))
        /\ Goto(w, "ins_out", l)
     \/ /\ Faults \cap {"malloc", "pwrite"} # {}
        /\ Goto(w, "ins_out", [l EXCEPT !.ret = "ERR"])
        /\ UNCHANGED file
  /\ UNCHANGED <<procVars, lockVars, history>>

KeepWrlockOnError(w) == IF loc[w].ret = "OK" THEN None ELSE writer

Unlocked(w) == None

(* out: unlock and return; the caller learns the id if ret is OK. *)
InsertOut(w) ==
  /\ pc[w] = "ins_out"
  /\ writer' = Unlocked(w)
  /\ Goto(w, "idle", NoCall)
  /\ acked' = IF loc[w].ret = "OK" THEN acked \cup {loc[w].id} ELSE acked
  /\ UNCHANGED <<procVars, file, readers, pasted>>

----------------------------------------------------------------------------
(* db_get, of ids up to MaxId.  A client may ask for any 64-bit number. *)

GetBegin(w, id) ==
  /\ phase = "up"
  /\ pc[w] = "idle" /\ writer = None
  /\ readers' = readers \cup {w}
  /\ Goto(w, "get_bucket", [NoCall EXCEPT !.id = id, !.ret = "NULL"])
  /\ UNCHANGED <<procVars, file, writer, history>>

GetBucket(w) ==
  LET l == loc[w] IN
  /\ pc[w] = "get_bucket" /\ NumBuckets(file) # 0
  /\ LET head == Bucket(file, BucketIndex(file, l.id)) IN
     IF head = DBID_FREE
     THEN Goto(w, "get_out", l)
     ELSE Goto(w, "get_walk", [l EXCEPT !.off = head])
  /\ UNCHANGED <<procVars, file, lockVars, history>>

(* One pread of the search for the id. *)
GetWalk(w) ==
  LET l == loc[w]
      p == l.off[1] IN
  /\ pc[w] = "get_walk"
  /\ \/ /\ ~Readable(file, l.off, REC_HDR_SIZE) \/ "pread" \in Faults
        /\ Goto(w, "get_out", l)
     \/ /\ Readable(file, l.off, REC_HDR_SIZE)
        /\ IF RecId(file, p) = dbid_t(l.id) THEN Goto(w, "get_value", l)
           ELSE IF RecNext(file, p) # DBID_FREE
                THEN Goto(w, "get_walk", [l EXCEPT !.off = RecNext(file, p)])
                ELSE Goto(w, "get_out", l)
  /\ UNCHANGED <<procVars, file, lockVars, history>>

(* malloc and pread of the value. *)
GetValue(w) ==
  LET l == loc[w]
      p == l.off[1]
      start == p + REC_HDR_SIZE
      vlen == RecVlen(file, p)
      complete == start + vlen <= Len(file) IN
  /\ pc[w] = "get_value"
  /\ \/ /\ complete
        /\ Goto(w, "get_out", [l EXCEPT !.ret = "OK", !.val = SubSeq(file, start + 1, start + vlen)])
     \/ /\ ~complete \/ Faults \cap {"malloc", "pread"} # {}
        /\ Goto(w, "get_out", l)
  /\ UNCHANGED <<procVars, file, lockVars, history>>

GetOut(w) ==
  /\ pc[w] = "get_out"
  /\ readers' = readers \ {w}
  /\ Goto(w, "idle", NoCall)
  /\ UNCHANGED <<procVars, file, writer, history>>

----------------------------------------------------------------------------
Insert(w) ==
  \/ InsertBucket(w) \/ InsertWalk(w) \/ InsertLink(w) \/ InsertRecord(w) \/ InsertOut(w)

Get(w) == GetBucket(w) \/ GetWalk(w) \/ GetValue(w) \/ GetOut(w)

Next ==
  \/ \E n \in BucketParams : CreateFile(n) \/ OpenFile(n)
  \/ Truncate \/ InitMeta \/ InitBuckets \/ Kill
  \/ \E n \in 1..params : KillInMemset(n)
  \/ \E w \in Workers :
       \/ \E val \in Values : InsertBegin(w, val)
       \/ \E id \in 0..MaxId : GetBegin(w, id)
       \/ DivideByZero(w) \/ Insert(w) \/ Get(w)

Spec == Init /\ [][Next]_vars

(* A thread inside a call keeps running: nothing in a call waits once the lock is held. *)
Fairness ==
  \A w \in Workers : WF_vars(Insert(w)) /\ WF_vars(Get(w)) /\ WF_vars(DivideByZero(w))

FairSpec == Spec /\ Fairness

----------------------------------------------------------------------------
(* Properties *)

(* More ids were issued than there are buckets: two ids may share one. *)
Collided == Len(file) >= HEADER_SIZE /\ MetaId(file) > NumBuckets(file)

TypeOK ==
  /\ exists \in BOOLEAN /\ file \in Seq(Nat)
  /\ phase \in Phases /\ params \in BucketParams \cup {0}
  /\ writer \in Workers \cup {None} /\ readers \subseteq Workers
  /\ pc \in [Workers -> {"idle"} \cup InsertPcs \cup GetPcs]
  /\ loc \in [Workers -> Locals]
  /\ DOMAIN pasted \subseteq Nat /\ pasted \in [DOMAIN pasted -> Values]
  /\ acked \subseteq DOMAIN pasted

(* The lock and the calls agree: a worker is past wrlock in db_insert exactly when it is   *)
(* the writer, past rdlock in db_get exactly when it is a reader, a writer is alone, and   *)
(* nobody is in a call of a database that is not open.                                     *)
LockInv ==
  /\ \A w \in Workers : pc[w] \in InsertPcs <=> writer = w
  /\ \A w \in Workers : pc[w] \in GetPcs <=> w \in readers
  /\ writer # None => readers = {}
  /\ phase # "up" => \A w \in Workers : pc[w] = "idle"

(* The file always has room for the buckets its header speaks of, so that neither db_insert *)
(* nor db_get reads outside the mapping, and its next id is above all ids ever issued,     *)
(* whatever open_db and a kill inside it left, and whatever the writes behind the header   *)
(* did to the records.                                                                     *)
FileInv ==
  /\ ~exists => phase = "down" /\ Len(file) = 0
  /\ phase \in {"created", "sized", "meta"} => params \in BucketParams /\ DOMAIN pasted = {}
  /\ phase = "created" => Len(file) = 0
  /\ phase \in {"sized", "meta"} => Len(file) = MapSize(params)
  /\ phase = "meta" => NumBuckets(file) = params
  /\ phase = "up" => Len(file) # 0
  /\ Len(file) # 0 => Len(file) >= HEADER_SIZE /\ Len(file) >= MapSize(NumBuckets(file))
  /\ \A i \in DOMAIN pasted : Len(file) # 0 /\ i < MetaId(file)

(* What db_insert and db_get keep in their locals between two steps still holds of the     *)
(* file: the writer's position is behind the header, its id and value are those issued,    *)
(* and the record header a reader has just matched is still inside the file.               *)
CallInv ==
  \A w \in Workers :
    /\ pc[w] \in InsertPcs =>
         /\ loc[w].pos >= HEADER_SIZE
         /\ loc[w].id \in DOMAIN pasted /\ loc[w].val = pasted[loc[w].id]
         /\ NumBuckets(file) # 0
    /\ pc[w] = "get_value" => Readable(file, loc[w].off, REC_HDR_SIZE)

(* The inductive invariant: the database stays well formed under every failure and kill.   *)
BasicInv == TypeOK /\ LockInv /\ FileInv /\ CallInv

(* What db_get is about to return to worker w is right: a buffer holds the very paste the  *)
(* id was issued for, and NULL, when no malloc or pread of db_get can fail, means that     *)
(* db_insert never returned that id.                                                       *)
RightAnswer(w) ==
  /\ loc[w].ret = "OK" => loc[w].id \in DOMAIN pasted /\ loc[w].val = pasted[loc[w].id]
  /\ loc[w].ret = "NULL" /\ Faults \cap {"malloc", "pread"} = {} => loc[w].id \notin acked

(* As long as every id has a bucket of its own and no pwrite is cut short, db_get answers  *)
(* right, across concurrent inserts, failed inserts that leave a bucket pointing at a      *)
(* record never written, kills inside db_insert and open_db, and restarts with another -b. *)
PastesReadBack ==
  ~Collided /\ "short" \notin Faults =>
    \A w \in Workers : pc[w] = "get_out" => RightAnswer(w)

(* The record of the paste with this id is complete at offset p, and last in its list. *)
Holds(p, id) ==
  /\ id \in DOMAIN pasted
  /\ p + REC_HDR_SIZE + Len(pasted[id]) <= Len(file)
  /\ RecVlen(file, p) = Len(pasted[id]) /\ RecId(file, p) = dbid_t(id)
  /\ RecNext(file, p) = DBID_FREE
  /\ \A k \in 1..Len(pasted[id]) : file[p + REC_HDR_SIZE + k] = pasted[id][k]

(* No insert has set the bucket: it is free, or 0 if open_db was killed before its memset. *)
Unset(b) == Bucket(file, b) \in {DBID_FREE, dbid_t(0)}

(* The bucket of this id leads to its paste. *)
Own(id) ==
  /\ id < NumBuckets(file)
  /\ \E p \in MapSize(NumBuckets(file))..Len(file) : Bucket(file, id) = dbid_t(p) /\ Holds(p, id)

(* What open_db has written when it comes to the header, and when it comes to the buckets. *)
CreateInv ==
  /\ phase = "sized" => \A k \in 1..Len(file) : file[k] = 0
  /\ phase = "meta" =>
       /\ MetaId(file) = 0 /\ file[2] = 0 /\ file[4] = 0
       /\ \A k \in (HEADER_SIZE + 1)..Len(file) : file[k] = 0

(* What the file holds as long as every id has a bucket of its own: a bucket that was set  *)
(* points at the end of the file, if its record was never written, or at some record, if   *)
(* another insert wrote its own at that place; the buckets of ids not issued are not set,  *)
(* and those of the ids that were returned lead to their pastes.                           *)
HeapInv ==
  /\ Len(file) # 0 => file[2] = 0 /\ file[4] = 0
  /\ Len(file) # 0 => \A b \in 0..(NumBuckets(file) - 1) :
       \/ Unset(b)
       \/ /\ b < MetaId(file)
          /\ \E p \in MapSize(NumBuckets(file))..Len(file) :
               Bucket(file, b) = dbid_t(p) /\ (p = Len(file) \/ \E id \in DOMAIN pasted : Holds(p, id))
  /\ \A id \in acked : Own(id)

(* What each call has established.  The lists have at most one record, so the writer never *)
(* gets to the pwrite of the last link.                                                    *)
StepInv(w) ==
  LET l == loc[w]
      head == Bucket(file, BucketIndex(file, l.id)) IN
  /\ pc[w] \in {"ins_bucket", "ins_record"} => l.pos = Len(file) /\ l.id < NumBuckets(file)
  /\ pc[w] = "ins_bucket" => Unset(l.id)
  /\ pc[w] = "ins_record" => Bucket(file, l.id) = dbid_t(l.pos)
  /\ pc[w] = "ins_walk" => l.off[1] = 0
  /\ pc[w] # "ins_link"
  /\ pc[w] = "ins_out" /\ l.ret = "OK" => Own(l.id)
  /\ pc[w] \in InsertPcs \ {"ins_out"} => l.ret = "OK"
  /\ pc[w] \in {"get_bucket", "get_walk", "get_value"} => l.ret = "NULL"
  /\ pc[w] \in {"get_walk", "get_value"} => NumBuckets(file) # 0
  /\ pc[w] = "get_walk" => head # DBID_FREE /\ (l.off = head \/ (head = dbid_t(0) /\ l.off[1] = 0))
  /\ pc[w] = "get_value" => Holds(l.off[1], l.id)
  /\ pc[w] = "get_out" => RightAnswer(w)

(* The inductive invariant behind PastesReadBack.  While every id has a bucket of its own  *)
(* and no pwrite is cut short, no failed insert, kill or restart lets a bucket lead to     *)
(* half a record, and no two calls disagree about the end of the file.                     *)
PasteInv ==
  /\ CreateInv
  /\ ~Collided /\ "short" \notin Faults => HeapInv /\ \A w \in Workers : StepInv(w)

(* db.c's comment: the last link is updated to point to the new entry.  So db_get finds    *)
(* every paste that was acknowledged, in a shared bucket too.                              *)
LinkedPastesReadBack == \A w \in Workers : pc[w] = "get_out" => RightAnswer(w)

(* db_insert never issues an id again: not to two workers, not after a failed insert, and  *)
(* not after a kill between the increment of meta->id and the record's pwrite.             *)
IdsNeverReused ==
  [][\A w \in Workers :
       pc[w] = "idle" /\ pc'[w] = "ins_bucket" => loc'[w].id \notin DOMAIN pasted]_vars

(* The next offsets of a bucket's list run in a circle: a walk of as many steps as the     *)
(* file has cells is still at a record.                                                    *)
Circular(b) ==
  LET walk[n \in 0..Len(file)] ==
        IF n = 0 THEN Bucket(file, b)
        ELSE LET o == walk[n - 1]
             IN  IF Readable(file, o, REC_HDR_SIZE) THEN RecNext(file, o[1]) ELSE DBID_FREE
  IN  Readable(file, walk[Len(file)], REC_HDR_SIZE)

(* Every call returns and gives the lock back: no error path keeps it, and walks end,      *)
(* pastes sharing a bucket included.  Only a pwrite cut short can close a circle, or a     *)
(* kill between the header and the memset, after which a bucket of zeros leads to the      *)
(* header, read as a record that is followed by itself.                                    *)
CallsReturn ==
  \A w \in Workers :
    pc[w] # "idle" \/ writer = w ~>
      \/ pc[w] = "idle" /\ writer # w
      \/ /\ "short" \in Faults \/ "meta" \in KillPoints
         /\ \E b \in 0..(NumBuckets(file) - 1) : Circular(b)

----------------------------------------------------------------------------
(* Implementation of PasteStore: an id is in the store when its bucket leads to a record   *)
(* of that id.                                                                             *)
Stored(id) ==
  /\ Len(file) >= HEADER_SIZE /\ id < NumBuckets(file)
  /\ Readable(file, Bucket(file, id), REC_HDR_SIZE)
  /\ RecId(file, Bucket(file, id)[1]) = dbid_t(id)

StoredValue(id) ==
  LET start == Bucket(file, id)[1] + REC_HDR_SIZE IN
  SubSeq(file, start + 1, start + RecVlen(file, Bucket(file, id)[1]))

StoredPastes == [id \in {i \in 0..(MaxId - 1) : Stored(i)} |-> StoredValue(id)]

Store == INSTANCE PasteStore WITH Ids <- 0..(MaxId - 1), store <- StoredPastes

(* With a bucket for every id the file is an immutable store of pastes: a paste becomes    *)
(* readable in one step, the pwrite of its record, and is never changed or lost by any     *)
(* later step of db_insert, by a kill or by a restart.                                     *)
StoreSpec == Store!Spec
============================================================================
