------------------------------ MODULE DbProofs ------------------------------
(***************************************************************************)
(* Proofs about Db: its invariant BasicInv, type correctness and the       *)
(* freshness of the ids, for every value of the constants.                 *)
(*                                                                         *)
(* Freshness needs more than the types.  The ids issued are below          *)
(* meta->id only if no write but the increment touches the header, which   *)
(* needs the writer's position and the offsets of the walk to be behind    *)
(* it; only if the increment and the read of meta->id are one writer's,    *)
(* which needs the lock; and only if open_db never resets the header of a  *)
(* file that issued ids, which needs what a kill inside open_db can leave. *)
(* LockInv, FileInv and CallInv say these things.                          *)
(***************************************************************************)
EXTENDS Db, SequenceTheorems, TLAPS

(* A function on 1..n is a sequence of length n: what Pwrite and ftruncate build. *)
LEMMA FunIsSeq ==
  ASSUME NEW n \in Nat, NEW g \in [1..n -> Nat]
  PROVE  g \in Seq(Nat) /\ Len(g) = n
<1>1. Seq(Nat) = UNION {[1..m -> Nat] : m \in Nat}
  BY SeqDef
<1>2. g \in Seq(Nat)
  BY <1>1
<1>3. Len(g) \in Nat /\ DOMAIN g = 1..Len(g)
  BY <1>2, LenProperties
<1> QED
  BY <1>2, <1>3

(* What pwrite does to the file: its length and each of its cells afterwards. *)
LEMMA PwriteFacts ==
  ASSUME NEW f \in Seq(Nat), NEW off \in Nat, NEW s \in Seq(Nat)
  PROVE  /\ Pwrite(f, off, s) \in Seq(Nat)
         /\ Len(Pwrite(f, off, s)) = IF off + Len(s) > Len(f) THEN off + Len(s) ELSE Len(f)
         /\ \A k \in 1..Len(Pwrite(f, off, s)) :
              Pwrite(f, off, s)[k] = IF off < k /\ k <= off + Len(s) THEN s[k - off]
                                     ELSE IF k <= Len(f) THEN f[k] ELSE 0
<1> DEFINE n == IF off + Len(s) > Len(f) THEN off + Len(s) ELSE Len(f)
           g == Pwrite(f, off, s)
<1>1. n \in Nat
  OBVIOUS
<1>2. g \in [1..n -> Nat]
  BY <1>1 DEF Pwrite
<1>3. g \in Seq(Nat) /\ Len(g) = n
  <2> HIDE DEF n, g
  <2> QED BY <1>1, <1>2, FunIsSeq
<1> QED
  BY <1>1, <1>2, <1>3 DEF Pwrite

(* The cells of a dbid_t and of struct header. *)
LEMMA SmallSeqs ==
  ASSUME NEW a \in Nat, NEW b \in Nat
  PROVE  /\ dbid_t(a) \in Seq(Nat) /\ Len(dbid_t(a)) = 2
         /\ dbid_t(a)[1] = a /\ dbid_t(a)[2] = 0
         /\ Header(a, b) \in Seq(Nat) /\ Len(Header(a, b)) = HEADER_SIZE
         /\ Header(a, b)[1] = a /\ Header(a, b)[2] = 0
         /\ Header(a, b)[3] = b /\ Header(a, b)[4] = 0
BY DEF dbid_t, Header, HEADER_SIZE

(* The cells write_record puts together: vlen, id, next and the value. *)
LEMMA RecordCells ==
  ASSUME NEW id \in Nat, NEW val \in Seq(Nat)
  PROVE  /\ Record(id, val) \in Seq(Nat)
         /\ Len(Record(id, val)) = REC_HDR_SIZE + Len(val)
         /\ Record(id, val)[1] = Len(val)
         /\ Record(id, val)[2] = id
         /\ Record(id, val)[3] = 0
         /\ Record(id, val)[4] = Ones
         /\ Record(id, val)[5] = Ones
         /\ \A k \in 1..Len(val) : Record(id, val)[REC_HDR_SIZE + k] = val[k]
BY DbAssumption DEF Record, dbid_t, DBID_FREE, REC_HDR_SIZE

(* id % num_buckets is the index of a bucket. *)
LEMMA IndexInRange ==
  ASSUME NEW f, NEW id \in Nat, NumBuckets(f) \in Nat \ {0}
  PROVE  BucketIndex(f, id) \in 0..(NumBuckets(f) - 1)
BY DEF BucketIndex

(* An id below num_buckets has the bucket of its own number. *)
LEMMA IndexOwn ==
  ASSUME NEW f, NEW id \in Nat, NumBuckets(f) \in Nat, id < NumBuckets(f)
  PROVE  BucketIndex(f, id) = id
BY DEF BucketIndex

(* A pwrite behind the header leaves the next id and num_buckets alone. *)
LEMMA HeaderKept ==
  ASSUME NEW f \in Seq(Nat), NEW off \in Nat, NEW s \in Seq(Nat),
         off >= HEADER_SIZE, Len(f) >= HEADER_SIZE
  PROVE  /\ Len(Pwrite(f, off, s)) \in Nat
         /\ Len(Pwrite(f, off, s)) >= Len(f)
         /\ MetaId(Pwrite(f, off, s)) = MetaId(f)
         /\ NumBuckets(Pwrite(f, off, s)) = NumBuckets(f)
<1> DEFINE g == Pwrite(f, off, s)
<1>1. Len(g) \in Nat /\ Len(g) >= Len(f)
  BY PwriteFacts
<1>2. \A k \in 1..HEADER_SIZE : g[k] = f[k]
  <2> SUFFICES ASSUME NEW k \in 1..HEADER_SIZE PROVE g[k] = f[k]
    OBVIOUS
  <2>1. k \in 1..Len(g) /\ k <= Len(f) /\ ~(off < k)
    BY <1>1 DEF HEADER_SIZE
  <2> QED
    BY <2>1, PwriteFacts
<1> QED
  BY <1>1, <1>2 DEF HEADER_SIZE, MetaId, NumBuckets, NUM_BUCKETS_FIELD

(* A store at offset 0 that does not extend the file. *)
LEMMA PwriteFront ==
  ASSUME NEW f \in Seq(Nat), NEW s \in Seq(Nat), Len(s) <= Len(f)
  PROVE  /\ Pwrite(f, 0, s) \in Seq(Nat)
         /\ Len(Pwrite(f, 0, s)) = Len(f)
         /\ \A k \in 1..Len(f) : Pwrite(f, 0, s)[k] = IF k <= Len(s) THEN s[k] ELSE f[k]
<1> DEFINE g == Pwrite(f, 0, s)
<1>1. g \in Seq(Nat)
  BY PwriteFacts, Zenon
<1>2. Len(g) = IF 0 + Len(s) > Len(f) THEN 0 + Len(s) ELSE Len(f)
  BY PwriteFacts, Zenon
<1>3. Len(g) = Len(f)
  BY <1>2
<1>4. \A k \in 1..Len(g) : g[k] = IF 0 < k /\ k <= 0 + Len(s) THEN s[k - 0]
                                  ELSE IF k <= Len(f) THEN f[k] ELSE 0
  BY PwriteFacts, Zenon
<1> HIDE DEF g
<1>5. \A k \in 1..Len(f) : g[k] = IF k <= Len(s) THEN s[k] ELSE f[k]
  BY <1>3, <1>4
<1> QED
  BY <1>1, <1>3, <1>5 DEF g

(* db->meta->id++ changes the next id and no other cell. *)
LEMMA BumpIdFacts ==
  ASSUME NEW f \in Seq(Nat), Len(f) >= HEADER_SIZE
  PROVE  /\ BumpId(f) \in Seq(Nat)
         /\ Len(BumpId(f)) = Len(f)
         /\ MetaId(BumpId(f)) = MetaId(f) + 1
         /\ BumpId(f)[2] = 0
         /\ \A k \in 3..Len(f) : BumpId(f)[k] = f[k]
<1>1. MetaId(f) \in Nat
  BY DEF MetaId, HEADER_SIZE
<1> DEFINE s == dbid_t(MetaId(f) + 1)
           g == Pwrite(f, 0, s)
<1>2. s \in Seq(Nat) /\ Len(s) = 2 /\ s[1] = MetaId(f) + 1 /\ s[2] = 0
  BY <1>1 DEF dbid_t
<1>3. BumpId(f) = g
  BY DEF BumpId
<1> HIDE DEF s
<1>4. Len(s) <= Len(f)
  BY <1>2 DEF HEADER_SIZE
<1>5. /\ g \in Seq(Nat) /\ Len(g) = Len(f)
      /\ \A k \in 1..Len(f) : g[k] = IF k <= Len(s) THEN s[k] ELSE f[k]
  BY <1>2, <1>4, PwriteFront
<1> HIDE DEF g
<1>6. Len(f) \in Nat /\ 1 \in 1..Len(f) /\ 2 \in 1..Len(f)
  BY DEF HEADER_SIZE
<1>7. g[1] = s[1] /\ g[2] = s[2]
  BY <1>2, <1>5, <1>6
<1>8. \A k \in 3..Len(f) : g[k] = f[k]
  BY <1>2, <1>5, <1>6
<1>9. g[1] = MetaId(f) + 1 /\ g[2] = 0
  BY <1>2, <1>7
<1>10. MetaId(g) = MetaId(f) + 1
  BY <1>9 DEF MetaId
<1> QED
  BY <1>3, <1>5, <1>8, <1>9, <1>10

(* The locals of a worker outside db_insert and db_get have their type. *)
LEMMA NoCallType == NoCall \in Locals
BY DbAssumption DEF NoCall, DBID_FREE, Locals

(* The invariant holds before the first start, without a database file. *)
LEMMA BasicInit == Init => BasicInv
<1> SUFFICES ASSUME Init PROVE BasicInv
  OBVIOUS
<1>2. DOMAIN pasted = {} /\ pasted \in [DOMAIN pasted -> Values]
  BY DEF Init
<1>3. TypeOK
  <2>0. exists \in BOOLEAN
    BY Zenon DEF Init
  <2>1. file \in Seq(Nat) /\ phase \in Phases /\ params \in BucketParams \cup {0}
    BY DEF Init, Phases
  <2>2. writer \in Workers \cup {None} /\ readers \subseteq Workers
    BY DEF Init
  <2>3. pc \in [Workers -> {"idle"} \cup InsertPcs \cup GetPcs]
    BY DEF Init
  <2>4. loc \in [Workers -> Locals]
    BY NoCallType, Zenon DEF Init
  <2>5. DOMAIN pasted \subseteq Nat /\ acked \subseteq DOMAIN pasted
    BY <1>2 DEF Init
  <2> QED
    BY <1>2, <2>0, <2>1, <2>2, <2>3, <2>4, <2>5 DEF TypeOK
<1>4. LockInv /\ FileInv /\ CallInv
  BY DbAssumption, <1>2 DEF Init, LockInv, FileInv, CallInv, InsertPcs, GetPcs
<1> QED
  BY <1>3, <1>4 DEF BasicInv

(* open_db creating the file keeps the invariant. *)
LEMMA BasicCreate ==
  ASSUME BasicInv, NEW n \in BucketParams, CreateFile(n)
  PROVE  BasicInv'
BY DbAssumption DEF CreateFile, BasicInv, TypeOK, LockInv, FileInv, CallInv, lockVars, history,
                    Phases, InsertPcs, GetPcs

(* open_db of an existing file keeps the invariant. *)
LEMMA BasicOpen ==
  ASSUME BasicInv, NEW n \in BucketParams, OpenFile(n)
  PROVE  BasicInv'
BY DbAssumption DEF OpenFile, BasicInv, TypeOK, LockInv, FileInv, CallInv, lockVars, history,
                    Phases, InsertPcs, GetPcs, HEADER_SIZE

(* The ftruncate of open_db keeps the invariant. *)
LEMMA BasicTruncate ==
  ASSUME BasicInv, Truncate
  PROVE  BasicInv'
<1> USE DEF BasicInv
<1>0. params \in BucketParams /\ params \in Nat \ {0}
  BY DbAssumption DEF Truncate, FileInv
<1>1. params \in BucketParams /\ params \in Nat \ {0} /\ MapSize(params) \in Nat
  BY <1>0 DEF MapSize, HEADER_SIZE
<1>2. file' \in [1..MapSize(params) -> Nat]
  BY <1>1 DEF Truncate
<1>3. file' \in Seq(Nat) /\ Len(file') = MapSize(params)
  BY <1>1, <1>2, FunIsSeq
<1>4. NumBuckets(file') = 0
  BY <1>1 DEF Truncate, NumBuckets, NUM_BUCKETS_FIELD, MapSize, HEADER_SIZE
<1>5. TypeOK'
  BY <1>3 DEF Truncate, TypeOK, Phases, lockVars, history
<1>6. LockInv' /\ CallInv'
  BY DEF Truncate, LockInv, CallInv, lockVars, InsertPcs, GetPcs
<1>7. FileInv'
  <2>1. DOMAIN pasted' = {} /\ phase' = "sized" /\ params' = params /\ exists' = exists /\ exists
    BY DEF Truncate, FileInv, history
  <2>2. Len(file') >= HEADER_SIZE /\ Len(file') >= MapSize(NumBuckets(file'))
    BY <1>1, <1>3, <1>4 DEF MapSize, HEADER_SIZE
  <2> QED
    BY <1>1, <1>3, <2>1, <2>2 DEF FileInv
<1> QED
  BY <1>5, <1>6, <1>7

(* Writing the header in open_db keeps the invariant. *)
LEMMA BasicInitMeta ==
  ASSUME BasicInv, InitMeta
  PROVE  BasicInv'
<1> USE DEF BasicInv
<1>1. params \in BucketParams /\ params \in Nat \ {0} /\ Len(file) = MapSize(params)
  BY DbAssumption DEF InitMeta, FileInv
<1> DEFINE h == Header(0, params)
<1>2. h \in Seq(Nat) /\ Len(h) = HEADER_SIZE /\ h[3] = params
  BY <1>1, SmallSeqs
<1> HIDE DEF h
<1>3. Len(h) <= Len(file) /\ file \in Seq(Nat) /\ 3 \in 1..Len(file) /\ 3 <= Len(h)
  BY <1>1, <1>2 DEF MapSize, HEADER_SIZE, TypeOK
<1>4. file' = Pwrite(file, 0, h)
  BY DEF InitMeta, h
<1>5. /\ file' \in Seq(Nat) /\ Len(file') = Len(file)
      /\ \A k \in 1..Len(file) : file'[k] = IF k <= Len(h) THEN h[k] ELSE file[k]
  BY <1>2, <1>3, <1>4, PwriteFront
<1>6. file'[3] = params
  BY <1>2, <1>3, <1>5
<1>7. NumBuckets(file') = params
  BY <1>6 DEF NumBuckets, NUM_BUCKETS_FIELD
<1>8. TypeOK'
  BY <1>5 DEF InitMeta, TypeOK, Phases, lockVars, history
<1>9. LockInv' /\ CallInv'
  BY DEF InitMeta, LockInv, CallInv, lockVars, InsertPcs, GetPcs
<1>10. FileInv'
  <2>1. DOMAIN pasted' = {} /\ phase' = "meta" /\ params' = params /\ exists' = exists /\ exists
    BY DEF InitMeta, FileInv, history
  <2> QED
    BY <1>1, <1>5, <1>7, <2>1 DEF FileInv, MapSize, HEADER_SIZE
<1> QED
  BY <1>8, <1>9, <1>10

(* The memset of the buckets, however far it has come, keeps the header. *)
LEMMA Memset ==
  ASSUME BasicInv, phase = "meta", NEW n \in 0..params, file' = FreeBuckets(file, n)
  PROVE  /\ file' \in Seq(Nat) /\ Len(file') \in Nat /\ Len(file') >= MapSize(params)
         /\ NumBuckets(file') = params /\ params \in Nat \ {0}
<1> USE DEF BasicInv
<1>1. /\ params \in BucketParams /\ params \in Nat \ {0}
      /\ Len(file) = MapSize(params) /\ NumBuckets(file) = params
  BY DbAssumption DEF FileInv
<1> DEFINE s == [k \in 1..2 * n |-> Ones]
<1>2. 2 * n \in Nat /\ s \in [1..2 * n -> Nat]
  BY <1>1, DbAssumption
<1>3. s \in Seq(Nat)
  BY <1>2, FunIsSeq
<1>4. file' = Pwrite(file, HEADER_SIZE, s)
  BY DEF FreeBuckets
<1> HIDE DEF s
<1>5. file \in Seq(Nat) /\ HEADER_SIZE \in Nat /\ Len(file) >= HEADER_SIZE
  BY <1>1 DEF TypeOK, HEADER_SIZE, MapSize
<1>6. file' \in Seq(Nat)
  BY <1>3, <1>4, <1>5, PwriteFacts
<1>7. Len(file') >= Len(file) /\ NumBuckets(file') = NumBuckets(file) /\ Len(file') \in Nat
  BY <1>3, <1>4, <1>5, HeaderKept
<1> QED
  BY <1>1, <1>6, <1>7

(* The memset of the buckets in open_db keeps the invariant. *)
LEMMA BasicInitBuckets ==
  ASSUME BasicInv, InitBuckets
  PROVE  BasicInv'
<1> USE DEF BasicInv
<1>1. params \in 0..params /\ phase = "meta" /\ file' = FreeBuckets(file, params)
  <2>1. phase = "meta" /\ params \in Nat
    BY DbAssumption DEF InitBuckets, FileInv
  <2> QED
    BY <2>1 DEF InitBuckets
<1>2. /\ file' \in Seq(Nat) /\ Len(file') \in Nat /\ Len(file') >= MapSize(params)
      /\ NumBuckets(file') = params /\ params \in Nat \ {0}
  BY <1>1, Memset
<1>3. TypeOK'
  BY <1>2 DEF InitBuckets, TypeOK, Phases, lockVars, history
<1>4. LockInv' /\ CallInv'
  BY DEF InitBuckets, LockInv, CallInv, lockVars, InsertPcs, GetPcs
<1>5. FileInv'
  <2>1. DOMAIN pasted' = {} /\ phase' = "up" /\ params' = params /\ exists' = exists /\ exists
    BY DEF InitBuckets, FileInv, history
  <2> QED
    BY <1>2, <2>1 DEF FileInv, MapSize, HEADER_SIZE
<1> QED
  BY <1>3, <1>4, <1>5

(* The header fields of a file that is not empty are numbers. *)
LEMMA FileCells ==
  ASSUME TypeOK, FileInv, Len(file) # 0
  PROVE  /\ file \in Seq(Nat) /\ Len(file) \in Nat /\ Len(file) >= HEADER_SIZE
         /\ MetaId(file) \in Nat /\ NumBuckets(file) \in Nat
         /\ Len(file) >= MapSize(NumBuckets(file))
<1>1. file \in Seq(Nat) /\ Len(file) \in Nat
  BY DEF TypeOK
<1>2. Len(file) >= HEADER_SIZE /\ Len(file) >= MapSize(NumBuckets(file))
  BY DEF FileInv
<1> QED
  BY <1>1, <1>2 DEF MetaId, NumBuckets, NUM_BUCKETS_FIELD, HEADER_SIZE

(* db->meta->id++ keeps FileInv and lets one more id be issued. *)
LEMMA FileBump ==
  ASSUME TypeOK, FileInv, phase = "up", file' = BumpId(file),
         UNCHANGED exists, phase' \in {"up", "down"},
         DOMAIN pasted' \subseteq DOMAIN pasted \cup {MetaId(file)}
  PROVE  FileInv' /\ file' \in Seq(Nat) /\ NumBuckets(file') = NumBuckets(file) /\ Len(file') = Len(file)
<1>1. Len(file) # 0
  BY DEF FileInv
<1>2. /\ file \in Seq(Nat) /\ Len(file) \in Nat /\ Len(file) >= HEADER_SIZE
      /\ MetaId(file) \in Nat /\ NumBuckets(file) \in Nat
      /\ Len(file) >= MapSize(NumBuckets(file))
  BY <1>1, FileCells
<1>3. /\ file' \in Seq(Nat) /\ Len(file') = Len(file) /\ MetaId(file') = MetaId(file) + 1
      /\ \A k \in 3..Len(file) : file'[k] = file[k]
  BY <1>2, BumpIdFacts
<1>4. NumBuckets(file') = NumBuckets(file)
  BY <1>2, <1>3 DEF NumBuckets, NUM_BUCKETS_FIELD, HEADER_SIZE
<1>5. \A i \in DOMAIN pasted' : i < MetaId(file')
  <2>1. \A i \in DOMAIN pasted : i \in Nat /\ i < MetaId(file)
    BY DEF FileInv, TypeOK
  <2> SUFFICES ASSUME NEW i \in DOMAIN pasted' PROVE i < MetaId(file) + 1
    BY <1>3
  <2>2. CASE i = MetaId(file)
    BY <1>2, <2>2
  <2>3. CASE i \in DOMAIN pasted
    BY <1>2, <2>1, <2>3
  <2> QED
    BY <2>2, <2>3
<1> QED
  BY <1>1, <1>2, <1>3, <1>4, <1>5 DEF FileInv

(* Every other write of a running server is behind the header. *)
LEMMA FileWrite ==
  ASSUME TypeOK, FileInv, phase = "up", UNCHANGED <<exists, phase, params, pasted>>,
         NEW off \in Nat, off >= HEADER_SIZE, NEW s \in Seq(Nat),
         file' = Pwrite(file, off, s)
  PROVE  FileInv' /\ file' \in Seq(Nat) /\ NumBuckets(file') = NumBuckets(file)
<1>1. Len(file) # 0
  BY DEF FileInv
<1>2. /\ file \in Seq(Nat) /\ Len(file) \in Nat /\ Len(file) >= HEADER_SIZE
      /\ MetaId(file) \in Nat /\ NumBuckets(file) \in Nat
      /\ Len(file) >= MapSize(NumBuckets(file)) /\ MapSize(NumBuckets(file)) \in Nat
  BY <1>1, FileCells DEF MapSize, HEADER_SIZE
<1>3. file' \in Seq(Nat)
  BY <1>2, PwriteFacts
<1>4. /\ Len(file') \in Nat /\ Len(file') >= Len(file)
      /\ MetaId(file') = MetaId(file) /\ NumBuckets(file') = NumBuckets(file)
  BY <1>2, HeaderKept
<1> HIDE DEF MapSize
<1> QED
  BY <1>1, <1>2, <1>3, <1>4 DEF FileInv, HEADER_SIZE

(* The end of the process keeps the invariant when the file is left well formed. *)
LEMMA BasicDie ==
  ASSUME BasicInv, Die, phase # "down",
         \/ UNCHANGED file
         \/ phase = "up" /\ file' = BumpId(file)
         \/ phase = "meta" /\ \E n \in 1..params : file' = FreeBuckets(file, n)
  PROVE  BasicInv'
<1> USE DEF BasicInv
<1>1. FileInv' /\ file' \in Seq(Nat)
  <2>1. CASE UNCHANGED file
    <3>1. TypeOK /\ FileInv /\ pasted' = pasted /\ exists' = exists /\ phase' = "down" /\ params' = 0
      BY DEF Die, history
    <3> QED BY <2>1, <3>1 DEF FileInv, TypeOK
  <2>2. CASE phase = "up" /\ file' = BumpId(file)
    BY <2>2, FileBump DEF Die, history
  <2>3. CASE phase = "meta" /\ \E n \in 1..params : file' = FreeBuckets(file, n)
    <3>1. PICK n \in 1..params : file' = FreeBuckets(file, n)
      BY <2>3
    <3>2. /\ file' \in Seq(Nat) /\ Len(file') \in Nat /\ Len(file') >= MapSize(params)
          /\ NumBuckets(file') = params /\ params \in Nat \ {0}
      <4>1. n \in 0..params
        BY <2>3, DbAssumption DEF FileInv
      <4> QED
        BY <2>3, <3>1, <4>1, Memset
    <3>3. DOMAIN pasted' = {} /\ phase' = "down" /\ exists' = exists /\ exists
      BY <2>3 DEF Die, FileInv, history
    <3> QED
      BY <3>2, <3>3 DEF FileInv, MapSize, HEADER_SIZE
  <2> QED
    BY <2>1, <2>2, <2>3
<1>2. TypeOK'
  <2>1. pc' \in [Workers -> {"idle"} \cup InsertPcs \cup GetPcs]
    BY DEF Die
  <2>2. loc' \in [Workers -> Locals]
    BY NoCallType, Zenon DEF Die
  <2>3. phase' \in Phases /\ params' \in BucketParams \cup {0} /\ writer' \in Workers \cup {None}
        /\ readers' \subseteq Workers
    BY DEF Die, Phases
  <2> QED
    BY <1>1, <2>1, <2>2, <2>3 DEF Die, TypeOK, history
<1>3. LockInv' /\ CallInv'
  BY DbAssumption DEF Die, LockInv, CallInv, InsertPcs, GetPcs
<1> QED
  BY <1>1, <1>2, <1>3

(* A kill keeps the invariant. *)
LEMMA BasicKill ==
  ASSUME BasicInv, Kill
  PROVE  BasicInv'
BY BasicDie, DbAssumption DEF Kill

(* A kill inside the memset of open_db keeps the invariant. *)
LEMMA BasicKillInMemset ==
  ASSUME BasicInv, NEW n \in 1..params, KillInMemset(n)
  PROVE  BasicInv'
BY BasicDie DEF KillInMemset

(* The SIGFPE of id % 0 keeps the invariant. *)
LEMMA BasicDivideByZero ==
  ASSUME BasicInv, NEW w \in Workers, DivideByZero(w)
  PROVE  BasicInv'
BY BasicDie DEF DivideByZero

----------------------------------------------------------------------------
(* Where a worker may be. *)
Pcs == {"idle"} \cup InsertPcs \cup GetPcs

(* A step of one worker inside its call leaves the other workers where they are. *)
LEMMA GotoFacts ==
  ASSUME TypeOK, NEW w \in Workers, NEW to \in Pcs, NEW l \in Locals, Goto(w, to, l)
  PROVE  /\ pc' \in [Workers -> Pcs] /\ loc' \in [Workers -> Locals]
         /\ pc'[w] = to /\ loc'[w] = l
         /\ \A v \in Workers : v # w => pc'[v] = pc[v] /\ loc'[v] = loc[v]
<1>1. pc \in [Workers -> Pcs] /\ loc \in [Workers -> Locals]
  BY DEF TypeOK, Pcs
<1> QED
  BY <1>1, Zenon DEF Goto

(* Inside a call the lock stays as it is. *)
LEMMA LockKept ==
  ASSUME TypeOK, LockInv, NEW w \in Workers, NEW to \in Pcs, NEW l \in Locals, Goto(w, to, l),
         UNCHANGED <<writer, readers, phase>>,
         \/ pc[w] \in InsertPcs /\ to \in InsertPcs
         \/ pc[w] \in GetPcs /\ to \in GetPcs
  PROVE  LockInv'
<1>1. /\ pc'[w] = to
      /\ \A v \in Workers : v # w => pc'[v] = pc[v]
  BY GotoFacts
<1>2. phase = "up"
  BY DEF LockInv, InsertPcs, GetPcs
<1>3. InsertPcs \cap GetPcs = {}
  BY DEF InsertPcs, GetPcs
<1> QED
  BY <1>1, <1>2, <1>3 DEF LockInv

(* A step of db_insert after its first: it writes behind the header or not at all. *)
LEMMA BasicInsertStep ==
  ASSUME BasicInv, NEW w \in Workers, NEW to \in InsertPcs, NEW l \in Locals, Goto(w, to, l),
         pc[w] \in InsertPcs, UNCHANGED <<procVars, lockVars, history>>,
         l.id = loc[w].id, l.val = loc[w].val, l.pos = loc[w].pos,
         \/ UNCHANGED file
         \/ \E off \in Nat, s \in Seq(Nat) : off >= HEADER_SIZE /\ file' = Pwrite(file, off, s)
  PROVE  BasicInv'
<1> USE DEF BasicInv
<1>1. /\ pc' \in [Workers -> Pcs] /\ loc' \in [Workers -> Locals]
      /\ pc'[w] = to /\ loc'[w] = l
      /\ \A v \in Workers : v # w => pc'[v] = pc[v] /\ loc'[v] = loc[v]
  BY GotoFacts DEF Pcs
<1>2. LockInv'
  BY LockKept DEF Pcs, procVars, lockVars
<1>3. phase = "up" /\ writer = w
  BY DEF LockInv, InsertPcs
<1>4. FileInv' /\ file' \in Seq(Nat) /\ NumBuckets(file') = NumBuckets(file)
  <2>1. CASE UNCHANGED file
    BY <2>1 DEF FileInv, TypeOK, procVars, history
  <2>2. CASE \E off \in Nat, s \in Seq(Nat) : off >= HEADER_SIZE /\ file' = Pwrite(file, off, s)
    <3>1. PICK off \in Nat, s \in Seq(Nat) : off >= HEADER_SIZE /\ file' = Pwrite(file, off, s)
      BY <2>2
    <3> QED
      BY <1>3, <3>1, FileWrite DEF procVars, history
  <2> QED
    BY <2>1, <2>2
<1>5. TypeOK'
  BY <1>1, <1>4 DEF TypeOK, Pcs, procVars, lockVars, history
<1>6. CallInv'
  <2> SUFFICES ASSUME NEW v \in Workers
               PROVE  /\ pc'[v] \in InsertPcs =>
                           /\ loc'[v].pos >= HEADER_SIZE
                           /\ loc'[v].id \in DOMAIN pasted' /\ loc'[v].val = pasted'[loc'[v].id]
                           /\ NumBuckets(file') # 0
                      /\ pc'[v] # "get_value"
    BY DEF CallInv
  <2>1. CASE v = w
    BY <1>1, <1>4, <2>1 DEF CallInv, InsertPcs, history
  <2>2. CASE v # w
    <3>1. pc'[v] = pc[v] /\ pc[v] \notin InsertPcs /\ v \notin readers
      BY <1>1, <1>3, <2>2, DbAssumption DEF LockInv
    <3> QED
      BY <3>1 DEF LockInv, GetPcs
  <2> QED
    BY <2>1, <2>2
<1> QED
  BY <1>2, <1>4, <1>5, <1>6

(* A step of db_get after its first: it changes the locals of one reader only. *)
LEMMA BasicGetStep ==
  ASSUME BasicInv, NEW w \in Workers, NEW to \in GetPcs, NEW l \in Locals, Goto(w, to, l),
         pc[w] \in GetPcs, UNCHANGED <<procVars, file, lockVars, history>>,
         to = "get_value" => Readable(file, l.off, REC_HDR_SIZE)
  PROVE  BasicInv'
<1> USE DEF BasicInv
<1>1. /\ pc' \in [Workers -> Pcs] /\ loc' \in [Workers -> Locals]
      /\ pc'[w] = to /\ loc'[w] = l
      /\ \A v \in Workers : v # w => pc'[v] = pc[v] /\ loc'[v] = loc[v]
  BY GotoFacts DEF Pcs
<1>2. LockInv'
  BY LockKept DEF Pcs, procVars, lockVars
<1>3. FileInv'
  BY DEF FileInv, procVars, history
<1>4. TypeOK'
  BY <1>1 DEF TypeOK, Pcs, procVars, lockVars, history
<1>5. CallInv'
  BY <1>1 DEF CallInv, InsertPcs, GetPcs, history
<1> QED
  BY <1>2, <1>3, <1>4, <1>5

(* wrlock and meta->id++ of db_insert keep the invariant. *)
LEMMA BasicInsertBegin ==
  ASSUME BasicInv, NEW w \in Workers, NEW val \in Values, InsertBegin(w, val)
  PROVE  BasicInv'
<1> USE DEF BasicInv
<1> DEFINE id == MetaId(file)
           l == [NoCall EXCEPT !.id = id, !.val = val, !.pos = Len(file)]
<1>1. phase = "up" /\ Len(file) # 0
  BY DEF InsertBegin, FileInv
<1>2. /\ Len(file) \in Nat /\ Len(file) >= HEADER_SIZE
      /\ id \in Nat /\ NumBuckets(file) # 0
  BY <1>1, FileCells DEF InsertBegin
<1>3. /\ l \in Locals /\ l.id = id /\ l.val = val /\ l.pos = Len(file)
  <2>1. val \in Seq(Nat)
    BY DbAssumption
  <2> QED
    BY <1>2, <2>1, NoCallType DEF NoCall, Locals
<1>4. Goto(w, "ins_bucket", l)
  BY DEF InsertBegin
<1> HIDE DEF l
<1>5. /\ pc' \in [Workers -> Pcs] /\ loc' \in [Workers -> Locals]
      /\ pc'[w] = "ins_bucket" /\ loc'[w] = l
      /\ \A v \in Workers : v # w => pc'[v] = pc[v] /\ loc'[v] = loc[v]
  <2>1. "ins_bucket" \in Pcs
    BY DEF Pcs, InsertPcs
  <2> QED
    BY <1>3, <1>4, <2>1, GotoFacts
<1>6. /\ DOMAIN pasted' = DOMAIN pasted \cup {id} /\ pasted'[id] = val
      /\ pasted' \in [DOMAIN pasted' -> Values]
  BY DEF InsertBegin, TypeOK
<1>7. FileInv' /\ file' \in Seq(Nat) /\ NumBuckets(file') = NumBuckets(file)
  <2>1. file' = BumpId(file) /\ UNCHANGED exists /\ phase' \in {"up", "down"}
    BY <1>1 DEF InsertBegin, procVars
  <2> QED
    BY <1>1, <1>6, <2>1, FileBump
<1>8. writer' = w /\ readers' = {} /\ writer = None /\ readers = {} /\ UNCHANGED procVars
  BY DEF InsertBegin, CanWrlock
<1>9. TypeOK'
  <2>1. acked' \subseteq DOMAIN pasted' /\ DOMAIN pasted' \subseteq Nat
    BY <1>2, <1>6 DEF InsertBegin, TypeOK
  <2> QED
    BY <1>5, <1>6, <1>7, <1>8, <2>1 DEF TypeOK, Pcs, procVars
<1>10. LockInv'
  <2>1. \A v \in Workers : v # w => pc'[v] \notin InsertPcs /\ pc'[v] \notin GetPcs
    BY <1>5, <1>8, DbAssumption DEF LockInv
  <2> QED
    BY <1>1, <1>5, <1>8, <2>1 DEF LockInv, InsertPcs, GetPcs, procVars
<1>11. CallInv'
  <2>1. \A v \in Workers : v # w => pc'[v] \notin InsertPcs /\ pc'[v] # "get_value"
    BY <1>5, <1>8, DbAssumption DEF LockInv, GetPcs
  <2> QED
    BY <1>2, <1>3, <1>5, <1>6, <1>7, <2>1 DEF CallInv
<1> QED
  BY <1>7, <1>9, <1>10, <1>11

(* Taking a free bucket, or starting at its head, keeps the invariant. *)
LEMMA BasicInsertBucket ==
  ASSUME BasicInv, NEW w \in Workers, InsertBucket(w)
  PROVE  BasicInv'
<1> DEFINE l == loc[w]
           index == BucketIndex(file, l.id)
           head == Bucket(file, index)
<1>1. pc[w] \in InsertPcs /\ phase = "up" /\ l \in Locals
  BY DEF InsertBucket, InsertPcs, BasicInv, LockInv, TypeOK
<1>2. /\ file \in Seq(Nat) /\ Len(file) >= MapSize(NumBuckets(file))
      /\ NumBuckets(file) \in Nat \ {0} /\ Len(file) \in Nat
  BY <1>1, FileCells DEF BasicInv, FileInv, CallInv
<1>3. index \in 0..(NumBuckets(file) - 1)
  BY <1>1, <1>2, IndexInRange DEF Locals
<1> HIDE DEF index
<1>4. BucketOffset(index) \in Nat /\ BucketOffset(index) >= HEADER_SIZE
      /\ BucketOffset(index) + 2 <= Len(file)
  BY <1>2, <1>3 DEF BucketOffset, HEADER_SIZE, MapSize
<1>5. head \in Nat \X Nat
  BY <1>2, <1>4 DEF Bucket, Load
<1>6. CASE head = DBID_FREE
  <2>1. file' = Pwrite(file, BucketOffset(index), dbid_t(l.pos)) /\ Goto(w, "ins_record", l)
    BY <1>6 DEF InsertBucket, index
  <2>2. dbid_t(l.pos) \in Seq(Nat)
    BY <1>1 DEF dbid_t, Locals
  <2>3. "ins_record" \in InsertPcs
    BY DEF InsertPcs
  <2>4. UNCHANGED <<procVars, lockVars, history>>
    BY DEF InsertBucket
  <2> QED
    BY <1>1, <1>4, <2>1, <2>2, <2>3, <2>4, BasicInsertStep
<1>7. CASE head # DBID_FREE
  <2> DEFINE m == [l EXCEPT !.off = head]
  <2>1. file' = file /\ Goto(w, "ins_walk", m)
    BY <1>7 DEF InsertBucket, index
  <2>2. m \in Locals /\ m.id = l.id /\ m.val = l.val /\ m.pos = l.pos
    BY <1>1, <1>5 DEF Locals
  <2>3. "ins_walk" \in InsertPcs
    BY DEF InsertPcs
  <2>4. UNCHANGED <<procVars, lockVars, history>>
    BY DEF InsertBucket
  <2> HIDE DEF m, l
  <2> QED
    BY <1>1, <2>1, <2>2, <2>3, <2>4, BasicInsertStep DEF l
<1> QED
  BY <1>6, <1>7

(* The fields of a record header that pread delivered are numbers. *)
LEMMA RecordHeaderRead ==
  ASSUME NEW f \in Seq(Nat), NEW o \in Nat \X Nat, Readable(f, o, REC_HDR_SIZE)
  PROVE  RecNext(f, o[1]) \in Nat \X Nat /\ RecId(f, o[1]) \in Nat \X Nat /\ RecVlen(f, o[1]) \in Nat
<1> DEFINE p == o[1]
<1>1. p \in Nat /\ p + 5 <= Len(f) /\ Len(f) \in Nat
  BY DEF Readable, REC_HDR_SIZE
<1> HIDE DEF p
<1>2. \A k \in 1..5 : f[p + k] \in Nat
  BY <1>1
<1>3. p + 1 + 1 = p + 2 /\ p + 1 + 2 = p + 3 /\ p + 3 + 1 = p + 4 /\ p + 3 + 2 = p + 5
  BY <1>1
<1>4. f[p + 1] \in Nat /\ f[p + 2] \in Nat /\ f[p + 3] \in Nat /\ f[p + 4] \in Nat /\ f[p + 5] \in Nat
  BY <1>2
<1> QED
  BY <1>3, <1>4 DEF p, RecNext, RecId, RecVlen, Load, NEXT_FIELD

(* The locals keep their type when a walk goes on to the next offset. *)
LEMMA EditOff ==
  ASSUME NEW l \in Locals, NEW o \in Nat \X Nat
  PROVE  /\ [l EXCEPT !.off = o] \in Locals
         /\ [l EXCEPT !.off = o].id = l.id /\ [l EXCEPT !.off = o].val = l.val
         /\ [l EXCEPT !.off = o].pos = l.pos /\ [l EXCEPT !.off = o].ret = l.ret
         /\ [l EXCEPT !.off = o].off = o
BY DEF Locals

(* The locals keep their type when db_insert sets ret = ERR. *)
LEMMA EditRet ==
  ASSUME NEW l \in Locals
  PROVE  /\ [l EXCEPT !.ret = "ERR"] \in Locals
         /\ [l EXCEPT !.ret = "ERR"].id = l.id /\ [l EXCEPT !.ret = "ERR"].val = l.val
         /\ [l EXCEPT !.ret = "ERR"].pos = l.pos /\ [l EXCEPT !.ret = "ERR"].ret = "ERR"
BY DEF Locals

(* The locals keep their type when db_get has read the value. *)
LEMMA EditVal ==
  ASSUME NEW l \in Locals, NEW v \in Seq(Nat)
  PROVE  /\ [l EXCEPT !.ret = "OK", !.val = v] \in Locals
         /\ [l EXCEPT !.ret = "OK", !.val = v].id = l.id
         /\ [l EXCEPT !.ret = "OK", !.val = v].val = v
         /\ [l EXCEPT !.ret = "OK", !.val = v].ret = "OK"
BY DEF Locals

(* One pread of db_insert's walk keeps the invariant. *)
LEMMA BasicInsertWalk ==
  ASSUME BasicInv, NEW w \in Workers, InsertWalk(w)
  PROVE  BasicInv'
<1> DEFINE l == loc[w]
           next == RecNext(file, l.off[1])
           le == [l EXCEPT !.ret = "ERR"]
           ln == [l EXCEPT !.off = next]
<1>1. pc[w] \in InsertPcs /\ l \in Locals /\ l.off \in Nat \X Nat /\ file \in Seq(Nat)
  BY DEF InsertWalk, InsertPcs, BasicInv, LockInv, TypeOK, Locals
<1>2. UNCHANGED file /\ UNCHANGED <<procVars, lockVars, history>>
  BY DEF InsertWalk
<1>3. "ins_out" \in InsertPcs /\ "ins_walk" \in InsertPcs /\ "ins_link" \in InsertPcs
  BY DEF InsertPcs
<1>4. \/ Goto(w, "ins_out", le)
      \/ Readable(file, l.off, REC_HDR_SIZE) /\ Goto(w, "ins_walk", ln)
      \/ Goto(w, "ins_link", l)
  BY DEF InsertWalk
<1>5. CASE Goto(w, "ins_out", le)
  <2>1. le \in Locals /\ le.id = l.id /\ le.val = l.val /\ le.pos = l.pos
    BY <1>1, EditRet
  <2> HIDE DEF le
  <2> QED BY <1>1, <1>2, <1>3, <1>5, <2>1, BasicInsertStep
<1>6. CASE Readable(file, l.off, REC_HDR_SIZE) /\ Goto(w, "ins_walk", ln)
  <2>1. ln \in Locals /\ ln.id = l.id /\ ln.val = l.val /\ ln.pos = l.pos
    <3>1. next \in Nat \X Nat
      BY <1>1, <1>6, RecordHeaderRead
    <3> HIDE DEF next
    <3> QED BY <1>1, <3>1, EditOff
  <2> HIDE DEF ln
  <2> QED BY <1>1, <1>2, <1>3, <1>6, <2>1, BasicInsertStep
<1>7. CASE Goto(w, "ins_link", l)
  BY <1>1, <1>2, <1>3, <1>7, BasicInsertStep
<1> QED
  BY <1>4, <1>5, <1>6, <1>7

(* The pwrite of the link keeps the invariant, wherever the walk has ended. *)
LEMMA BasicInsertLink ==
  ASSUME BasicInv, NEW w \in Workers, InsertLink(w)
  PROVE  BasicInv'
<1> DEFINE l == loc[w]
           at == l.off[1] + OFFSET_FIELD
           le == [l EXCEPT !.ret = "ERR"]
<1>1. pc[w] \in InsertPcs /\ l \in Locals /\ l.off \in Nat \X Nat /\ l.pos \in Nat
  BY DEF InsertLink, InsertPcs, BasicInv, LockInv, TypeOK, Locals
<1>2. UNCHANGED <<procVars, lockVars, history>>
  BY DEF InsertLink
<1>3. "ins_out" \in InsertPcs /\ "ins_record" \in InsertPcs
  BY DEF InsertPcs
<1>4. at \in Nat /\ at >= HEADER_SIZE
  BY <1>1 DEF OFFSET_FIELD, HEADER_SIZE
<1>5. dbid_t(l.pos) \in Seq(Nat) /\ <<l.pos>> \in Seq(Nat)
  BY <1>1 DEF dbid_t
<1>6. le \in Locals /\ le.id = l.id /\ le.val = l.val /\ le.pos = l.pos
  BY <1>1, EditRet
<1>7. \/ file' = Pwrite(file, at, dbid_t(l.pos)) /\ Goto(w, "ins_record", l)
      \/ (UNCHANGED file \/ file' = Pwrite(file, at, <<l.pos>>)) /\ Goto(w, "ins_out", le)
  BY DEF InsertLink
<1> HIDE DEF at, le
<1>8. CASE file' = Pwrite(file, at, dbid_t(l.pos)) /\ Goto(w, "ins_record", l)
  BY <1>1, <1>2, <1>3, <1>4, <1>5, <1>8, BasicInsertStep
<1>9. CASE (UNCHANGED file \/ file' = Pwrite(file, at, <<l.pos>>)) /\ Goto(w, "ins_out", le)
  BY <1>1, <1>2, <1>3, <1>4, <1>5, <1>6, <1>9, BasicInsertStep
<1> QED
  BY <1>7, <1>8, <1>9

(* write_record keeps the invariant, complete, cut short or failed. *)
LEMMA BasicInsertRecord ==
  ASSUME BasicInv, NEW w \in Workers, InsertRecord(w)
  PROVE  BasicInv'
<1> DEFINE l == loc[w]
           rec == Record(l.id, l.val)
           le == [l EXCEPT !.ret = "ERR"]
<1>1. pc[w] \in InsertPcs /\ l \in Locals /\ l.pos \in Nat /\ l.pos >= HEADER_SIZE
  BY DEF InsertRecord, InsertPcs, BasicInv, LockInv, CallInv, TypeOK, Locals
<1>2. UNCHANGED <<procVars, lockVars, history>>
  BY DEF InsertRecord
<1>3. "ins_out" \in InsertPcs
  BY DEF InsertPcs
<1>4. rec \in Seq(Nat)
  BY <1>1, RecordCells DEF Locals
<1>5. le \in Locals /\ le.id = l.id /\ le.val = l.val /\ le.pos = l.pos
  BY <1>1, EditRet
<1>6. \/ file' = Pwrite(file, l.pos, rec) /\ Goto(w, "ins_out", l)
      \/ /\ \E n \in 1..(Len(rec) - 1) : file' = Pwrite(file, l.pos, SubSeq(rec, 1, n))
         /\ Goto(w, "ins_out", l)
      \/ UNCHANGED file /\ Goto(w, "ins_out", le)
  BY DEF InsertRecord, WriteRecord
<1> HIDE DEF rec, le
<1>7. CASE file' = Pwrite(file, l.pos, rec) /\ Goto(w, "ins_out", l)
  BY <1>1, <1>2, <1>3, <1>4, <1>7, BasicInsertStep
<1>8. CASE /\ \E n \in 1..(Len(rec) - 1) : file' = Pwrite(file, l.pos, SubSeq(rec, 1, n))
           /\ Goto(w, "ins_out", l)
  <2>1. PICK n \in 1..(Len(rec) - 1) : file' = Pwrite(file, l.pos, SubSeq(rec, 1, n))
    BY <1>8
  <2>2. SubSeq(rec, 1, n) \in Seq(Nat)
    BY <1>4
  <2> QED
    BY <1>1, <1>2, <1>3, <1>8, <2>1, <2>2, BasicInsertStep
<1>9. CASE UNCHANGED file /\ Goto(w, "ins_out", le)
  BY <1>1, <1>2, <1>3, <1>5, <1>9, BasicInsertStep
<1> QED
  BY <1>6, <1>7, <1>8, <1>9

(* The unlock and return of db_insert keep the invariant. *)
LEMMA BasicInsertOut ==
  ASSUME BasicInv, NEW w \in Workers, InsertOut(w)
  PROVE  BasicInv'
<1> USE DEF BasicInv
<1>1. pc[w] \in InsertPcs /\ Goto(w, "idle", NoCall) /\ "idle" \in Pcs
  BY DEF InsertOut, InsertPcs, Pcs
<1>2. /\ pc' \in [Workers -> Pcs] /\ loc' \in [Workers -> Locals]
      /\ pc'[w] = "idle" /\ loc'[w] = NoCall
      /\ \A v \in Workers : v # w => pc'[v] = pc[v] /\ loc'[v] = loc[v]
  BY <1>1, NoCallType, GotoFacts
<1>3. /\ writer = w /\ writer' = None /\ readers = {} /\ phase = "up"
      /\ UNCHANGED <<procVars, file, readers, pasted>>
  BY <1>1, DbAssumption DEF InsertOut, Unlocked, LockInv, InsertPcs
<1>4. \A v \in Workers : pc'[v] \notin InsertPcs /\ pc'[v] \notin GetPcs
  BY <1>2, <1>3 DEF LockInv, InsertPcs, GetPcs
<1>5. acked' \subseteq DOMAIN pasted
  <2>1. loc[w].id \in DOMAIN pasted /\ acked \subseteq DOMAIN pasted
    BY <1>1 DEF CallInv, TypeOK
  <2> QED
    BY <2>1 DEF InsertOut
<1>6. TypeOK'
  BY <1>2, <1>3, <1>5 DEF TypeOK, Pcs, procVars
<1>7. LockInv'
  BY <1>3, <1>4, DbAssumption DEF LockInv, procVars
<1>8. FileInv'
  BY <1>3 DEF FileInv, procVars
<1>9. CallInv'
  BY <1>4 DEF CallInv, GetPcs
<1> QED
  BY <1>6, <1>7, <1>8, <1>9

(* The rdlock of db_get keeps the invariant. *)
LEMMA BasicGetBegin ==
  ASSUME BasicInv, NEW w \in Workers, NEW id \in 0..MaxId, GetBegin(w, id)
  PROVE  BasicInv'
<1> USE DEF BasicInv
<1> DEFINE l == [NoCall EXCEPT !.id = id, !.ret = "NULL"]
<1>1. l \in Locals /\ Goto(w, "get_bucket", l) /\ "get_bucket" \in Pcs
  <2>1. id \in Nat
    BY DbAssumption
  <2> QED
    BY <2>1, NoCallType DEF NoCall, Locals, GetBegin, GetPcs, Pcs
<1> HIDE DEF l
<1>2. /\ pc' \in [Workers -> Pcs] /\ loc' \in [Workers -> Locals]
      /\ pc'[w] = "get_bucket" /\ loc'[w] = l
      /\ \A v \in Workers : v # w => pc'[v] = pc[v] /\ loc'[v] = loc[v]
  BY <1>1, GotoFacts
<1>3. /\ phase = "up" /\ pc[w] = "idle" /\ writer = None /\ readers' = readers \cup {w}
      /\ UNCHANGED <<procVars, file, writer, history>>
  BY DEF GetBegin
<1>4. TypeOK'
  BY <1>2, <1>3 DEF TypeOK, Pcs, procVars, history
<1>5. LockInv'
  BY <1>2, <1>3 DEF LockInv, procVars, InsertPcs, GetPcs
<1>6. FileInv'
  BY <1>3 DEF FileInv, procVars, history
<1>7. CallInv'
  BY <1>2, <1>3 DEF CallInv, history, InsertPcs
<1> QED
  BY <1>4, <1>5, <1>6, <1>7

(* Looking up the bucket in db_get keeps the invariant. *)
LEMMA BasicGetBucket ==
  ASSUME BasicInv, NEW w \in Workers, GetBucket(w)
  PROVE  BasicInv'
<1> DEFINE l == loc[w]
           head == Bucket(file, BucketIndex(file, l.id))
           ln == [l EXCEPT !.off = head]
<1>1. pc[w] \in GetPcs /\ phase = "up" /\ l \in Locals /\ NumBuckets(file) # 0
  BY DEF GetBucket, GetPcs, BasicInv, LockInv, TypeOK
<1>2. UNCHANGED <<procVars, file, lockVars, history>>
  BY DEF GetBucket
<1>3. "get_out" \in GetPcs /\ "get_walk" \in GetPcs
  BY DEF GetPcs
<1>4. head \in Nat \X Nat
  <2>1. /\ file \in Seq(Nat) /\ Len(file) >= MapSize(NumBuckets(file))
        /\ NumBuckets(file) \in Nat \ {0} /\ Len(file) \in Nat
    BY <1>1, FileCells DEF BasicInv, FileInv
  <2> DEFINE index == BucketIndex(file, l.id)
  <2>2. index \in 0..(NumBuckets(file) - 1)
    BY <1>1, <2>1, IndexInRange DEF Locals
  <2> HIDE DEF index
  <2>3. BucketOffset(index) \in Nat /\ BucketOffset(index) + 2 <= Len(file)
    BY <2>1, <2>2 DEF BucketOffset, HEADER_SIZE, MapSize
  <2> QED
    BY <2>1, <2>3 DEF Bucket, Load, index
<1>5. ln \in Locals
  <2> HIDE DEF head
  <2> QED BY <1>1, <1>4, EditOff
<1>6. Goto(w, "get_out", l) \/ Goto(w, "get_walk", ln)
  BY DEF GetBucket
<1> HIDE DEF ln
<1> QED
  BY <1>1, <1>2, <1>3, <1>5, <1>6, BasicGetStep

(* One pread of db_get's walk keeps the invariant. *)
LEMMA BasicGetWalk ==
  ASSUME BasicInv, NEW w \in Workers, GetWalk(w)
  PROVE  BasicInv'
<1> DEFINE l == loc[w]
           next == RecNext(file, l.off[1])
           ln == [l EXCEPT !.off = next]
<1>1. pc[w] \in GetPcs /\ l \in Locals /\ l.off \in Nat \X Nat /\ file \in Seq(Nat)
  BY DEF GetWalk, GetPcs, BasicInv, TypeOK, Locals
<1>2. UNCHANGED <<procVars, file, lockVars, history>>
  BY DEF GetWalk
<1>3. "get_out" \in GetPcs /\ "get_walk" \in GetPcs /\ "get_value" \in GetPcs
  BY DEF GetPcs
<1>4. \/ Goto(w, "get_out", l)
      \/ Readable(file, l.off, REC_HDR_SIZE) /\ Goto(w, "get_value", l)
      \/ Readable(file, l.off, REC_HDR_SIZE) /\ Goto(w, "get_walk", ln)
  BY DEF GetWalk
<1>5. CASE Goto(w, "get_out", l)
  BY <1>1, <1>2, <1>3, <1>5, BasicGetStep
<1>6. CASE Readable(file, l.off, REC_HDR_SIZE) /\ Goto(w, "get_value", l)
  BY <1>1, <1>2, <1>3, <1>6, BasicGetStep
<1>7. CASE Readable(file, l.off, REC_HDR_SIZE) /\ Goto(w, "get_walk", ln)
  <2>1. ln \in Locals
    <3>1. next \in Nat \X Nat
      BY <1>1, <1>7, RecordHeaderRead
    <3> HIDE DEF next
    <3> QED BY <1>1, <3>1, EditOff
  <2> HIDE DEF ln
  <2> QED BY <1>1, <1>2, <1>3, <1>7, <2>1, BasicGetStep
<1> QED
  BY <1>4, <1>5, <1>6, <1>7

(* Reading the value in db_get keeps the invariant. *)
LEMMA BasicGetValue ==
  ASSUME BasicInv, NEW w \in Workers, GetValue(w)
  PROVE  BasicInv'
<1> DEFINE l == loc[w]
           start == l.off[1] + REC_HDR_SIZE
           vlen == RecVlen(file, l.off[1])
           v == SubSeq(file, start + 1, start + vlen)
           lv == [l EXCEPT !.ret = "OK", !.val = v]
<1>1. pc[w] \in GetPcs /\ l \in Locals /\ l.off \in Nat \X Nat /\ file \in Seq(Nat)
  BY DEF GetValue, GetPcs, BasicInv, TypeOK, Locals
<1>2. UNCHANGED <<procVars, file, lockVars, history>>
  BY DEF GetValue
<1>3. "get_out" \in GetPcs
  BY DEF GetPcs
<1>4. Goto(w, "get_out", l) \/ (start + vlen <= Len(file) /\ Goto(w, "get_out", lv))
  BY DEF GetValue
<1>5. start \in Nat /\ vlen \in Nat
  <2>1. Readable(file, l.off, REC_HDR_SIZE)
    BY DEF GetValue, BasicInv, CallInv
  <2> QED
    BY <1>1, <2>1, RecordHeaderRead DEF REC_HDR_SIZE
<1> HIDE DEF start, vlen
<1>6. CASE Goto(w, "get_out", l)
  BY <1>1, <1>2, <1>3, <1>6, BasicGetStep
<1>7. CASE start + vlen <= Len(file) /\ Goto(w, "get_out", lv)
  <2>1. v \in Seq(Nat)
    BY <1>1, <1>5, <1>7
  <2> HIDE DEF v
  <2>2. lv \in Locals
    BY <1>1, <2>1, EditVal
  <2> HIDE DEF lv
  <2> QED BY <1>1, <1>2, <1>3, <1>7, <2>2, BasicGetStep
<1> QED
  BY <1>4, <1>6, <1>7

(* The unlock and return of db_get keep the invariant. *)
LEMMA BasicGetOut ==
  ASSUME BasicInv, NEW w \in Workers, GetOut(w)
  PROVE  BasicInv'
<1> USE DEF BasicInv
<1>1. pc[w] \in GetPcs /\ Goto(w, "idle", NoCall) /\ "idle" \in Pcs
  BY DEF GetOut, GetPcs, Pcs
<1>2. /\ pc' \in [Workers -> Pcs] /\ loc' \in [Workers -> Locals]
      /\ pc'[w] = "idle" /\ loc'[w] = NoCall
      /\ \A v \in Workers : v # w => pc'[v] = pc[v] /\ loc'[v] = loc[v]
  BY <1>1, NoCallType, GotoFacts
<1>3. /\ readers' = readers \ {w} /\ phase = "up" /\ writer # w
      /\ UNCHANGED <<procVars, file, writer, history>>
  BY <1>1, DbAssumption DEF GetOut, LockInv, InsertPcs, GetPcs
<1>4. TypeOK'
  BY <1>2, <1>3 DEF TypeOK, Pcs, procVars, history
<1>5. LockInv'
  BY <1>2, <1>3, DbAssumption DEF LockInv, procVars, InsertPcs, GetPcs
<1>6. FileInv'
  BY <1>3 DEF FileInv, procVars, history
<1>7. CallInv'
  BY <1>2, <1>3 DEF CallInv, history, InsertPcs
<1> QED
  BY <1>4, <1>5, <1>6, <1>7

(* Every step of open_db, db_insert, db_get and every kill keeps the invariant. *)
LEMMA BasicStep == BasicInv /\ [Next]_vars => BasicInv'
<1> SUFFICES ASSUME BasicInv, [Next]_vars PROVE BasicInv'
  OBVIOUS
<1>1. CASE UNCHANGED vars
  BY <1>1 DEF vars, procVars, lockVars, history, BasicInv, TypeOK, LockInv, FileInv, CallInv
<1>2. CASE Next
  BY <1>2, BasicCreate, BasicOpen, BasicTruncate, BasicInitMeta, BasicInitBuckets, BasicKill,
     BasicKillInMemset,
     BasicInsertBegin, BasicDivideByZero, BasicInsertBucket, BasicInsertWalk, BasicInsertLink,
     BasicInsertRecord, BasicInsertOut, BasicGetBegin, BasicGetBucket, BasicGetWalk,
     BasicGetValue, BasicGetOut
     DEF Next, Insert, Get
<1> QED
  BY <1>1, <1>2

(* The database file, the lock and the calls stay well formed: for any number of workers, *)
(* any pastes and bucket counts, with failing and short writes, kills at any point and    *)
(* restarts.                                                                              *)
THEOREM BasicInvariance == Spec => []BasicInv
BY BasicInit, BasicStep, PTL DEF Spec

(* Every variable keeps its type; in particular the file stays an array of cells and no   *)
(* id is acknowledged that was not issued.                                                *)
THEOREM TypeCorrect == Spec => []TypeOK
<1>1. BasicInv => TypeOK
  BY DEF BasicInv
<1> QED
  BY <1>1, BasicInvariance, PTL

(* A step that starts db_insert issues an id that no paste has. *)
LEMMA FreshId ==
  ASSUME BasicInv, [Next]_vars, NEW w \in Workers, pc[w] = "idle", pc'[w] = "ins_bucket"
  PROVE  loc'[w].id \notin DOMAIN pasted
<1>1. TypeOK /\ FileInv /\ pc \in [Workers -> Pcs]
  BY DEF BasicInv, TypeOK, Pcs
<1>2. ASSUME NEW to, NEW l, NEW v \in Workers, Goto(v, to, l), to # "ins_bucket"
      PROVE  FALSE
  BY <1>1, <1>2 DEF Goto
<1>3. ~Die
  BY DEF Die
<1>4. ~UNCHANGED pc
  OBVIOUS
<1>5. PICK v \in Workers, val \in Values : InsertBegin(v, val)
  <2>1. ASSUME NEW v \in Workers PROVE ~Insert(v) /\ ~Get(v) /\ ~DivideByZero(v)
    BY <1>2, <1>3 DEF Insert, InsertBucket, InsertWalk, InsertLink, InsertRecord, InsertOut,
                      Get, GetBucket, GetWalk, GetValue, GetOut, DivideByZero
  <2>2. ASSUME NEW v \in Workers, NEW id \in 0..MaxId PROVE ~GetBegin(v, id)
    BY <1>2 DEF GetBegin
  <2>3. \A n \in BucketParams : ~CreateFile(n) /\ ~OpenFile(n)
    BY <1>4 DEF CreateFile, OpenFile
  <2>4. ~Truncate /\ ~InitMeta /\ ~InitBuckets /\ ~Kill /\ \A n \in 1..params : ~KillInMemset(n)
    BY <1>3, <1>4 DEF Truncate, InitMeta, InitBuckets, Kill, KillInMemset
  <2> QED
    BY <1>4, <2>1, <2>2, <2>3, <2>4 DEF Next, vars
<1> DEFINE l == [NoCall EXCEPT !.id = MetaId(file), !.val = val, !.pos = Len(file)]
<1>6. Goto(v, "ins_bucket", l) /\ phase = "up"
  BY <1>5 DEF InsertBegin
<1>7. v = w
  BY <1>1, <1>6 DEF Goto
<1>8. loc'[w] = l
  BY <1>1, <1>6, <1>7 DEF Goto, TypeOK
<1>9. loc'[w].id = MetaId(file)
  BY <1>8 DEF NoCall
<1>10. MetaId(file) \in Nat /\ \A i \in DOMAIN pasted : i < MetaId(file)
  <2>1. Len(file) # 0 /\ \A i \in DOMAIN pasted : i < MetaId(file)
    BY <1>1, <1>6 DEF FileInv
  <2> QED
    BY <1>1, <2>1, FileCells
<1> QED
  BY <1>9, <1>10

(* db_insert never issues an id twice: not to two workers, not after a failed insert, not *)
(* after a kill and a restart.                                                            *)
THEOREM FreshIds == Spec => IdsNeverReused
<1>1. BasicInv /\ [Next]_vars =>
        [\A w \in Workers :
           pc[w] = "idle" /\ pc'[w] = "ins_bucket" => loc'[w].id \notin DOMAIN pasted]_vars
  BY FreshId
<1> QED
  BY <1>1, BasicInvariance, PTL DEF Spec, IdsNeverReused
=============================================================================
