---------------------------- MODULE StoreProofs ----------------------------
(***************************************************************************)
(* The proof that the paste database implements PasteStore when every      *)
(* database has a bucket for each id it hands out and no pwrite is cut     *)
(* short, for any number of workers, any pastes and any failures of        *)
(* malloc, pread and pwrite and kills.                                     *)
(*                                                                         *)
(* Under BasicInv, PasteInv and RoomInv the abstract store is the function *)
(* of the ids whose bucket leads to their paste (StoreIs).  The pwrite of  *)
(* a record is then a Put, and every other step leaves the store alone.    *)
(***************************************************************************)
EXTENDS PasteProofs

USE DEF HEADER_SIZE, REC_HDR_SIZE, NEXT_FIELD, OFFSET_FIELD, NUM_BUCKETS_FIELD, procVars, lockVars,
        history

(* Every id has a bucket of its own in every database, and writes are complete. *)
Roomy == (\A n \in BucketParams : MaxId <= n) /\ "short" \notin Faults

(* The header says what open_db was started with, or that its creation was cut short. *)
RoomInv ==
  Len(file) # 0 => NumBuckets(file) \in BucketParams \cup {0} /\ MetaId(file) \in 0..MaxId

(* db_insert writes to the file only behind the header. *)
LEMMA InsertWrites ==
  ASSUME BasicInv, NEW w \in Workers, Insert(w)
  PROVE  UNCHANGED file \/ \E off \in Nat, s \in Seq(Nat) : off >= 4 /\ file' = Pwrite(file, off, s)
<1>1. pc[w] \in InsertPcs
  BY DEF Insert, InsertBucket, InsertWalk, InsertLink, InsertRecord, InsertOut, InsertPcs
<1>2. /\ NumBuckets(file) \in Nat \ {0} /\ loc[w] \in Locals /\ loc[w].id \in Nat
      /\ loc[w].val \in Seq(Nat) /\ loc[w].pos \in Nat /\ loc[w].off \in Nat \X Nat
  BY <1>1, WriterFacts DEF Locals
<1>3. loc[w].pos >= 4
  BY <1>1 DEF BasicInv, CallInv
<1>4. dbid_t(loc[w].pos) \in Seq(Nat) /\ <<loc[w].pos>> \in Seq(Nat)
  <2>1. PICK x \in Nat : x = loc[w].pos
    BY <1>2
  <2>2. dbid_t(x) \in Seq(Nat) /\ <<x>> \in Seq(Nat)
    BY SmallSeqs
  <2> QED
    BY <2>1, <2>2
<1>5. CASE InsertBucket(w)
  <2>1. PICK b : b = BucketIndex(file, loc[w].id)
    OBVIOUS
  <2>2. BucketOffset(b) \in Nat /\ BucketOffset(b) >= 4
    BY <1>2, <2>1, IndexInRange DEF BucketOffset
  <2>3. UNCHANGED file \/ file' = Pwrite(file, BucketOffset(b), dbid_t(loc[w].pos))
    BY <1>5, <2>1 DEF InsertBucket
  <2> QED
    BY <1>4, <2>2, <2>3
<1>6. CASE InsertLink(w)
  <2>1. PICK o \in Nat : o = loc[w].off[1] + 5 /\ o >= 4
    BY <1>2
  <2>2. UNCHANGED file \/ file' = Pwrite(file, o, dbid_t(loc[w].pos)) \/ file' = Pwrite(file, o, <<loc[w].pos>>)
    BY <1>6, <2>1 DEF InsertLink
  <2> QED
    BY <1>4, <2>1, <2>2
<1>7. CASE InsertRecord(w)
  <2>1. PICK rec \in Seq(Nat) : rec = Record(loc[w].id, loc[w].val)
    BY <1>2, RecordCells
  <2>2. \/ UNCHANGED file \/ file' = Pwrite(file, loc[w].pos, rec)
        \/ \E n \in 1..(Len(rec) - 1) : file' = Pwrite(file, loc[w].pos, SubSeq(rec, 1, n))
    BY <1>7, <2>1 DEF InsertRecord, WriteRecord
  <2>3. \A n \in 1..(Len(rec) - 1) : SubSeq(rec, 1, n) \in Seq(Nat)
    OBVIOUS
  <2> QED
    BY <1>2, <1>3, <2>2, <2>3
<1>8. CASE InsertWalk(w) \/ InsertOut(w)
  BY <1>8 DEF InsertWalk, InsertOut
<1> QED
  BY <1>5, <1>6, <1>7, <1>8 DEF Insert

(* A write behind the header leaves it alone. *)
LEMMA RoomWrite ==
  ASSUME BasicInv, RoomInv, Len(file) # 0, NEW off \in Nat, off >= 4, NEW s \in Seq(Nat),
         file' = Pwrite(file, off, s)
  PROVE  RoomInv'
<1>1. file \in Seq(Nat) /\ Len(file) >= 4
  BY FileCells DEF BasicInv
<1>2. /\ MetaId(Pwrite(file, off, s)) = MetaId(file)
      /\ NumBuckets(Pwrite(file, off, s)) = NumBuckets(file)
  BY <1>1, HeaderKept
<1> QED
  BY <1>2 DEF RoomInv

(* The memset is such a write. *)
LEMMA RoomMemset ==
  ASSUME BasicInv, RoomInv, phase = "meta", NEW n \in 0..params, file' = FreeBuckets(file, n)
  PROVE  RoomInv'
<1>1. Len(file) = MapSize(params) /\ params \in Nat \ {0}
  BY BeforeUp DEF BasicInv, FileInv
<1>2. Len(file) # 0 /\ 2 * n \in Nat
  BY <1>1 DEF MapSize
<1>3. PICK s : s = [k \in 1..2 * n |-> Ones]
  OBVIOUS
<1>4. s \in [1..2 * n -> Nat]
  BY <1>3, DbAssumption
<1>5. s \in Seq(Nat) /\ file' = Pwrite(file, 4, s)
  BY <1>2, <1>3, <1>4, FunIsSeq DEF FreeBuckets
<1> QED
  BY <1>2, <1>5, RoomWrite

(* Counting an id stays within MaxId. *)
LEMMA RoomBump ==
  ASSUME BasicInv, RoomInv, phase = "up", MetaId(file) < MaxId, file' = BumpId(file)
  PROVE  RoomInv'
<1>1. Len(file) # 0
  BY DEF BasicInv, FileInv
<1>2. file \in Seq(Nat) /\ Len(file) \in Nat /\ Len(file) >= 4 /\ MetaId(file) \in Nat
  BY <1>1, FileCells DEF BasicInv
<1>3. /\ Len(file') = Len(file) /\ MetaId(file') = MetaId(file) + 1
      /\ \A k \in 3..Len(file) : file'[k] = file[k]
  BY <1>2, BumpIdFacts
<1>4. NumBuckets(file') = NumBuckets(file)
  BY <1>2, <1>3 DEF NumBuckets
<1>5. MetaId(file') \in 0..MaxId
  BY <1>2, <1>3, DbAssumption
<1> QED
  BY <1>1, <1>4, <1>5 DEF RoomInv

(* ftruncate and init_meta write the header. *)
LEMMA RoomCreate ==
  ASSUME BasicInv, PasteInv, Truncate \/ InitMeta
  PROVE  RoomInv'
<1>1. params \in Nat \ {0} /\ params \in BucketParams /\ file \in Seq(Nat)
  BY BeforeUp DEF Truncate, InitMeta, BasicInv, FileInv
<1>2. PICK m \in Nat : m = MapSize(params) /\ m >= 6
  BY <1>1 DEF MapSize
<1>3. CASE Truncate
  <2>1. file' = [k \in 1..m |-> 0]
    BY <1>2, <1>3 DEF Truncate
  <2>2. file'[1] = 0 /\ file'[3] = 0
    BY <1>2, <2>1
  <2> QED
    BY <2>2, DbAssumption DEF RoomInv, NumBuckets, MetaId
<1>4. CASE InitMeta
  <2>1. PICK s : s = Header(0, params) /\ s \in Seq(Nat) /\ Len(s) = 4 /\ s[1] = 0 /\ s[3] = params
    BY <1>1, SmallSeqs
  <2>2. Len(file) = m /\ file' = Pwrite(file, 0, s)
    BY <1>2, <1>4, <2>1 DEF InitMeta, BasicInv, FileInv
  <2>3. \A k \in 1..Len(file) : Pwrite(file, 0, s)[k] = IF k <= Len(s) THEN s[k] ELSE file[k]
    <3>1. s \in Seq(Nat) /\ Len(s) <= Len(file)
      <4>1. Len(file) = m /\ Len(s) = 4 /\ s \in Seq(Nat)
        BY <2>1, <2>2, Zenon
      <4> QED
        BY <1>2, <4>1
    <3> QED
      BY <1>1, <3>1, PwriteFront
  <2>4. file'[1] = 0 /\ file'[3] = params
    BY <1>2, <2>1, <2>2, <2>3
  <2> QED
    BY <1>1, <2>4, DbAssumption DEF RoomInv, NumBuckets, MetaId
<1> QED
  BY <1>3, <1>4

LEMMA RoomStep == BasicInv /\ PasteInv /\ RoomInv /\ [Next]_vars => RoomInv'
<1> SUFFICES ASSUME BasicInv, PasteInv, RoomInv, [Next]_vars PROVE RoomInv'
  OBVIOUS
<1>1. CASE UNCHANGED file
  BY <1>1 DEF RoomInv
<1>2. CASE Truncate \/ InitMeta
  BY <1>2, RoomCreate
<1>3. ASSUME phase = "meta", NEW n \in 0..params, file' = FreeBuckets(file, n) PROVE RoomInv'
  BY <1>3, RoomMemset
<1>4. CASE InitBuckets
  <2>1. phase = "meta" /\ file' = FreeBuckets(file, params)
    BY <1>4 DEF InitBuckets
  <2>2. params \in 0..params
    BY <2>1, BeforeUp
  <2> QED
    BY <1>3, <2>1, <2>2
<1>5. ASSUME NEW n \in 1..params, KillInMemset(n) PROVE RoomInv'
  <2>1. phase = "meta" /\ file' = FreeBuckets(file, n)
    BY <1>5 DEF KillInMemset
  <2>2. n \in 0..params
    BY <2>1, BeforeUp
  <2> QED
    BY <1>3, <2>1, <2>2
<1>6. ASSUME NEW w \in Workers, NEW val \in Values, InsertBegin(w, val) PROVE RoomInv'
  BY <1>6, RoomBump DEF InsertBegin
<1>7. ASSUME NEW w \in Workers, DivideByZero(w) PROVE RoomInv'
  BY <1>1, <1>7, RoomBump DEF DivideByZero
<1>8. ASSUME NEW w \in Workers, Insert(w) PROVE RoomInv'
  <2>1. CASE UNCHANGED file
    BY <1>1, <2>1
  <2>2. ASSUME NEW off \in Nat, NEW s \in Seq(Nat), off >= 4, file' = Pwrite(file, off, s) PROVE RoomInv'
    <3>1. pc[w] \in InsertPcs
      BY <1>8 DEF Insert, InsertBucket, InsertWalk, InsertLink, InsertRecord, InsertOut, InsertPcs
    <3>2. Len(file) # 0
      BY <3>1, WriterFacts
    <3> QED
      BY <2>2, <3>2, RoomWrite
  <2> QED
    BY <1>8, <2>1, <2>2, InsertWrites
<1>9. CASE \/ UNCHANGED vars \/ Kill
           \/ \E n \in BucketParams : CreateFile(n) \/ OpenFile(n)
           \/ \E w \in Workers : Get(w) \/ \E id \in 0..MaxId : GetBegin(w, id)
  BY <1>1, <1>9 DEF vars, Kill, CreateFile, OpenFile, Get, GetBegin, GetBucket, GetWalk, GetValue, GetOut
<1> QED
  BY <1>2, <1>4, <1>5, <1>6, <1>7, <1>8, <1>9 DEF Next

----------------------------------------------------------------------------
(* The id's paste is in the file, where its bucket leads. *)
Kept(id) == Len(file) # 0 /\ Own(id)

(* The abstract store is the pastes that are kept. *)
StoreInv ==
  \A id \in 0..(MaxId - 1) :
    /\ Stored(id) <=> Kept(id)
    /\ Kept(id) => StoredValue(id) = pasted[id]

(* A database with buckets has one for every id. *)
LEMMA Uncollided ==
  ASSUME Roomy, BasicInv, PasteInv, RoomInv, Len(file) # 0, NumBuckets(file) # 0
  PROVE  /\ MetaId(file) <= NumBuckets(file) /\ MaxId <= NumBuckets(file)
         /\ HeapInv /\ \A w \in Workers : StepInv(w)
<1>1. NumBuckets(file) \in BucketParams /\ MetaId(file) \in 0..MaxId
  BY DEF RoomInv
<1>2. MaxId <= NumBuckets(file) /\ NumBuckets(file) \in Nat /\ MaxId \in Nat
  BY <1>1, DbAssumption DEF Roomy
<1>3. MetaId(file) <= NumBuckets(file)
  BY <1>1, <1>2
<1>4. ~Collided
  BY <1>1, <1>2, <1>3 DEF Collided
<1> QED
  BY <1>2, <1>3, <1>4 DEF PasteInv, Roomy

(* The value of a kept paste is read back. *)
LEMMA KeptValue ==
  ASSUME BasicInv, NEW id \in Nat, Kept(id)
  PROVE  /\ Readable(file, Bucket(file, id), 5) /\ RecId(file, Bucket(file, id)[1]) = dbid_t(id)
         /\ StoredValue(id) = pasted[id]
<1>1. file \in Seq(Nat) /\ Len(file) \in Nat /\ NumBuckets(file) \in Nat /\ Own(id)
  BY FileCells DEF Kept, BasicInv
<1>2. PICK p \in MapSize(NumBuckets(file))..Len(file) : Bucket(file, id) = dbid_t(p) /\ Holds(p, id)
  BY <1>1 DEF Own
<1>3. p \in Nat
  BY <1>1, <1>2 DEF MapSize
<1>4. id \in DOMAIN pasted /\ pasted[id] \in Seq(Nat)
  BY <1>2, DbAssumption DEF Holds, BasicInv, TypeOK
<1>5. PICK t \in Seq(Nat), v \in Nat :
        /\ t = pasted[id] /\ v = Len(t) /\ p + 5 + v <= Len(file) /\ RecVlen(file, p) = v
        /\ \A k \in 1..v : file[p + 5 + k] = t[k]
  BY <1>2, <1>4 DEF Holds
<1>6. dbid_t(p)[1] = p /\ dbid_t(p)[2] = 0
  BY <1>3, SmallSeqs
<1>7. Readable(file, Bucket(file, id), 5) /\ RecId(file, Bucket(file, id)[1]) = dbid_t(id)
  <2>1. p + 5 <= Len(file)
    <3>1. PICK end \in Nat : end = Len(file) /\ p + 5 + v <= end
      BY <1>1, <1>5
    <3>2. p + 5 <= end
      BY <1>3, <3>1
    <3> QED
      BY <3>1, <3>2
  <2> QED
    BY <1>2, <1>6, <2>1 DEF Readable, Holds
<1>8. PICK q \in Nat : q = p + 5 /\ q + v <= Len(file)
  <2>1. PICK q \in Nat : q = p + 5
    BY <1>3
  <2>2. p + 5 + v <= Len(file)
    BY <1>5
  <2>3. q + v <= Len(file)
    BY <2>1, <2>2
  <2> QED
    BY <2>1, <2>3
<1>9. StoredValue(id) = SubSeq(file, q + 1, q + v)
  BY <1>2, <1>5, <1>6, <1>8 DEF StoredValue
<1>10. PICK val : val = SubSeq(file, q + 1, q + v)
  OBVIOUS
<1>11. /\ val \in Seq(Nat) /\ Len(val) = v
       /\ \A k \in 1..v : val[k] = file[q + k]
  <2>1. /\ SubSeq(file, q + 1, q + v) \in Seq(Nat) /\ Len(SubSeq(file, q + 1, q + v)) = v
        /\ \A k \in 1..v : SubSeq(file, q + 1, q + v)[k] = file[q + k]
    <3>1. file \in Seq(Nat) /\ Len(file) \in Nat /\ q + v <= Len(file)
      BY <1>1, <1>8
    <3> QED
      BY <3>1
  <2> QED
    BY <1>10, <2>1, Zenon
<1>12. Len(val) = Len(t) /\ \A k \in 1..Len(val) : val[k] = t[k]
  BY <1>5, <1>8, <1>11
<1>13. val = t
  BY <1>11, <1>12, SeqEqual
<1> QED
  BY <1>5, <1>7, <1>9, <1>10, <1>13

(* A record that the bucket of an id leads to, and that has this id, is its paste. *)
LEMMA StoreIs == Roomy /\ BasicInv /\ PasteInv /\ RoomInv => StoreInv
<1> SUFFICES ASSUME Roomy, BasicInv, PasteInv, RoomInv, NEW id \in 0..(MaxId - 1)
             PROVE  (Stored(id) <=> Kept(id)) /\ (Kept(id) => StoredValue(id) = pasted[id])
  BY DEF StoreInv
<1>1. id \in Nat
  BY DbAssumption
<1>2. ASSUME Kept(id) PROVE Stored(id) /\ StoredValue(id) = pasted[id]
  <2>1. Len(file) >= 4 /\ id < NumBuckets(file)
    BY <1>2, FileCells DEF Kept, Own, BasicInv
  <2> QED
    BY <1>1, <1>2, <2>1, KeptValue DEF Stored
<1>3. ASSUME Stored(id) PROVE Kept(id)
  <2>1. Len(file) # 0
    BY <1>3 DEF Stored, BasicInv, TypeOK
  <2>2. file \in Seq(Nat) /\ Len(file) \in Nat /\ NumBuckets(file) \in Nat /\ id < NumBuckets(file)
    BY <1>3, <2>1, FileCells DEF Stored, BasicInv
  <2>3. HeapInv
    BY <1>1, <2>1, <2>2, Uncollided
  <2>4. PICK head : /\ head = Bucket(file, id) /\ Readable(file, head, 5)
                    /\ RecId(file, head[1]) = dbid_t(id)
    BY <1>3 DEF Stored
  <2>5. head # DBID_FREE
    BY <2>4, DbAssumption DEF Readable, DBID_FREE
  <2>6. head # dbid_t(0)
    <3>1. RecId(file, 0) = <<file[2], file[3]>>
      BY DEF RecId, Load
    <3> QED
      BY <1>1, <2>2, <2>4, <3>1 DEF dbid_t, NumBuckets
  <2>7. ~Unset(id) /\ id \in 0..(NumBuckets(file) - 1)
    BY <1>1, <2>2, <2>4, <2>5, <2>6 DEF Unset
  <2>8. PICK p \in MapSize(NumBuckets(file))..Len(file) :
          head = dbid_t(p) /\ (p = Len(file) \/ \E i \in DOMAIN pasted : Holds(p, i))
    BY <2>1, <2>3, <2>4, <2>7 DEF HeapInv
  <2>9. head[1] = p
    BY <2>8 DEF dbid_t
  <2>10. p # Len(file)
    BY <2>2, <2>4, <2>9 DEF Readable
  <2>11. PICK i \in DOMAIN pasted : Holds(p, i)
    BY <2>8, <2>10
  <2>12. i = id
    BY <2>4, <2>9, <2>11 DEF Holds, dbid_t
  <2> QED
    BY <2>1, <2>2, <2>4, <2>8, <2>11, <2>12 DEF Kept, Own
<1> QED
  BY <1>2, <1>3

----------------------------------------------------------------------------
(* The store stays if the same pastes are kept. *)
LEMMA SameStore ==
  ASSUME StoreInv, StoreInv',
         \A i \in 0..(MaxId - 1) : Kept(i)' <=> Kept(i),
         \A i \in 0..(MaxId - 1) : Kept(i) => pasted'[i] = pasted[i]
  PROVE  StoredPastes' = StoredPastes
<1>1. \A i \in 0..(MaxId - 1) : Stored(i)' <=> Stored(i)
  BY DEF StoreInv
<1>2. \A i \in 0..(MaxId - 1) : Stored(i) => StoredValue(i)' = StoredValue(i)
  BY DEF StoreInv
<1>3. PICK S, T : S = {i \in 0..(MaxId - 1) : Stored(i)} /\ T = {i \in 0..(MaxId - 1) : Stored(i)'}
  OBVIOUS
<1>4. S = T
  BY <1>1, <1>3
<1>5. [id \in T |-> StoredValue(id)'] = [id \in S |-> StoredValue(id)]
  BY <1>2, <1>3, <1>4
<1> QED
  BY <1>3, <1>5 DEF StoredPastes

(* It is empty until an id was issued. *)
LEMMA NoPastes ==
  ASSUME StoreInv, StoreInv', DOMAIN pasted = {}, UNCHANGED pasted
  PROVE  StoredPastes' = StoredPastes
<1>1. \A i \in 0..(MaxId - 1) : ~Kept(i)
  BY DEF Kept, Own, Holds
<1>2. \A i \in 0..(MaxId - 1) : ~Kept(i)'
  BY DEF Kept, Own, Holds
<1> QED
  BY <1>1, <1>2, SameStore

(* The store depends on nothing but the file. *)
LEMMA SameFile == ASSUME UNCHANGED file PROVE StoredPastes' = StoredPastes
<1>1. ASSUME NEW i PROVE Stored(i)' <=> Stored(i)
  BY DEF Stored
<1>2. ASSUME NEW i PROVE StoredValue(i)' = StoredValue(i)
  BY DEF StoredValue
<1> QED
  BY <1>1, <1>2 DEF StoredPastes

(* A step of the writer that changes no record and not this bucket: the paste is there     *)
(* after it only if it was before, or was appended by the step.                            *)
LEMMA OwnBack ==
  ASSUME BasicInv, HeapInv, Len(file) # 0, NEW e \in Nat, e = Len(file),
         file' \in Seq(Nat), Len(file') >= e, NumBuckets(file') = NumBuckets(file),
         \A k \in (MapSize(NumBuckets(file)) + 1)..e : file'[k] = file[k],
         \A i \in DOMAIN pasted : i \in DOMAIN pasted' /\ pasted'[i] = pasted[i],
         \A i \in DOMAIN pasted' : pasted'[i] \in Seq(Nat),
         NEW id \in Nat, Bucket(file', id) = Bucket(file, id), Own(id)'
  PROVE  Own(id) \/ (Holds(e, id)' /\ Len(file') > e)
<1>1. /\ file \in Seq(Nat) /\ Len(file) \in Nat /\ NumBuckets(file) \in Nat
      /\ Len(file) >= MapSize(NumBuckets(file))
  BY FileCells DEF BasicInv
<1>2. PICK m \in Nat : m = MapSize(NumBuckets(file)) /\ m >= 4
  BY <1>1 DEF MapSize
<1>3. id < NumBuckets(file)
  BY DEF Own
<1>4. PICK p \in m..Len(file') : Bucket(file', id) = dbid_t(p) /\ Holds(p, id)'
  BY <1>2 DEF Own
<1>5. p \in Nat \ {0} /\ Len(file') \in Nat
  BY <1>2, <1>4
<1>6. dbid_t(p) # DBID_FREE /\ dbid_t(p) # dbid_t(0)
  BY <1>5, DbAssumption DEF dbid_t, DBID_FREE
<1>7. ~Unset(id) /\ id \in 0..(NumBuckets(file) - 1)
  BY <1>1, <1>3, <1>4, <1>6 DEF Unset
<1>8. PICK q \in m..e : Bucket(file, id) = dbid_t(q) /\ (q = e \/ \E i \in DOMAIN pasted : Holds(q, i))
  BY <1>2, <1>7 DEF HeapInv
<1>9. q = p
  <2>1. dbid_t(q) = dbid_t(p)
    BY <1>4, <1>8
  <2> QED
    BY <2>1 DEF dbid_t
<1>10. CASE p = e
  <2>1. PICK v \in Nat : p + 5 + v <= Len(file')
    <3>1. id \in DOMAIN pasted' /\ p + 5 + Len(pasted'[id]) <= Len(file')
      BY <1>4 DEF Holds
    <3>2. Len(pasted'[id]) \in Nat
      BY <3>1
    <3> QED
      BY <3>1, <3>2
  <2>2. Len(file') > e
    BY <1>5, <1>10, <2>1
  <2> QED
    BY <1>4, <1>10, <2>2
<1>11. CASE p # e
  <2>1. PICK i \in DOMAIN pasted : Holds(p, i)
    BY <1>8, <1>9, <1>11
  <2>2. pasted[i] \in Seq(Nat)
    BY DbAssumption DEF BasicInv, TypeOK
  <2>3. Holds(p, i)'
    <3>1. \A k \in (m + 1)..Len(file) : file'[k] = file[k]
      BY <1>2
    <3>2. p \in Nat /\ p >= m
      BY <1>2, <1>4
    <3> QED
      BY <1>1, <2>1, <2>2, <3>1, <3>2, HoldsKept
  <2>4. i = id
    BY <1>4, <2>3 DEF Holds, dbid_t
  <2> QED
    BY <1>1, <1>2, <1>3, <1>8, <1>9, <2>1, <2>4 DEF Own
<1> QED
  BY <1>10, <1>11

(* meta->id++ of db_insert. *)
LEMMA StoreInsertBegin ==
  ASSUME Roomy, BasicInv, PasteInv, RoomInv, StoreInv, BasicInv', StoreInv',
         NEW w \in Workers, NEW val \in Values, InsertBegin(w, val)
  PROVE  StoredPastes' = StoredPastes
<1>1. /\ phase = "up" /\ NumBuckets(file) # 0 /\ file' = BumpId(file)
      /\ pasted' = [i \in DOMAIN pasted \cup {MetaId(file)} |-> IF i = MetaId(file) THEN val ELSE pasted[i]]
  BY DEF InsertBegin
<1>2. Len(file) # 0
  BY <1>1 DEF BasicInv, FileInv
<1>3. /\ file \in Seq(Nat) /\ Len(file) \in Nat /\ Len(file) >= 4
      /\ MetaId(file) \in Nat /\ NumBuckets(file) \in Nat
      /\ Len(file) >= MapSize(NumBuckets(file))
  BY <1>2, FileCells DEF BasicInv
<1>4. HeapInv /\ MaxId <= NumBuckets(file)
  BY <1>1, <1>2, Uncollided
<1>5. /\ file' \in Seq(Nat) /\ Len(file') = Len(file) /\ \A k \in 3..Len(file) : file'[k] = file[k]
  BY <1>1, <1>3, BumpIdFacts
<1>6. NumBuckets(file') = NumBuckets(file)
  BY <1>3, <1>5 DEF NumBuckets
<1>7. \A k \in (MapSize(NumBuckets(file)) + 1)..Len(file) : file'[k] = file[k]
  <2> SUFFICES ASSUME NEW k \in (MapSize(NumBuckets(file)) + 1)..Len(file) PROVE file'[k] = file[k]
    OBVIOUS
  <2>1. k \in 3..Len(file)
    BY <1>3 DEF MapSize
  <2> QED
    BY <1>5, <2>1
<1>8. \A i \in DOMAIN pasted : i \in DOMAIN pasted' /\ pasted'[i] = pasted[i]
  BY <1>1, <1>3 DEF BasicInv, FileInv
<1>9. /\ \A i \in DOMAIN pasted : pasted[i] \in Seq(Nat)
      /\ \A i \in DOMAIN pasted' : pasted'[i] \in Seq(Nat)
  BY DbAssumption DEF BasicInv, TypeOK
<1>10. ASSUME NEW i \in 0..(MaxId - 1)
       PROVE  i \in Nat /\ Bucket(file', i) = Bucket(file, i)
  <2>1. i \in Nat /\ BucketOffset(i) + 1 \in 3..Len(file) /\ BucketOffset(i) + 2 \in 3..Len(file)
    BY <1>3, <1>4, DbAssumption DEF BucketOffset, MapSize
  <2> QED
    BY <1>5, <2>1 DEF Bucket, Load
<1>11. ASSUME NEW i \in 0..(MaxId - 1), Own(i) PROVE Own(i)' /\ pasted'[i] = pasted[i]
  <2>1. i \in DOMAIN pasted
    BY <1>11 DEF Own, Holds
  <2> QED
    BY <1>3, <1>5, <1>6, <1>7, <1>8, <1>9, <1>10, <1>11, <2>1, OwnKept
<1>12. ASSUME NEW i \in 0..(MaxId - 1), Own(i)' PROVE Own(i)
  <2>1. PICK e \in Nat : e = Len(file)
    BY <1>3
  <2>2. Len(file') >= e /\ ~(Len(file') > e) /\ \A k \in (MapSize(NumBuckets(file)) + 1)..e : file'[k] = file[k]
    BY <1>5, <1>7, <2>1
  <2> QED
    BY <1>2, <1>4, <1>5, <1>6, <1>8, <1>9, <1>10, <1>12, <2>1, <2>2, OwnBack
<1> QED
  BY <1>2, <1>5, <1>11, <1>12, SameStore DEF Kept

(* A record never begins at the end of the file. *)
LEMMA OwnInside ==
  ASSUME BasicInv, Len(file) # 0, NEW id \in Nat, Own(id)
  PROVE  Bucket(file, id) # dbid_t(Len(file))
<1>1. Len(file) \in Nat
  BY FileCells DEF BasicInv
<1>2. PICK p \in MapSize(NumBuckets(file))..Len(file) : Bucket(file, id) = dbid_t(p) /\ Holds(p, id)
  BY DEF Own
<1>3. id \in DOMAIN pasted /\ p + 5 + Len(pasted[id]) <= Len(file)
  BY <1>2 DEF Holds
<1>4. Len(pasted[id]) \in Nat
  BY <1>3, DbAssumption DEF BasicInv, TypeOK
<1>5. p # Len(file)
  BY <1>1, <1>3, <1>4
<1> QED
  BY <1>2, <1>5 DEF dbid_t

(* The bucket of the new id leads to the end of the file, where nothing is yet. *)
LEMMA StoreInsertBucket ==
  ASSUME Roomy, BasicInv, PasteInv, RoomInv, StoreInv, StoreInv', NEW w \in Workers, InsertBucket(w)
  PROVE  StoredPastes' = StoredPastes
<1>1. PICK l : l = loc[w]
  OBVIOUS
<1>2. PICK id : id = l.id
  OBVIOUS
<1>3. pc[w] = "ins_bucket" /\ pc[w] \in InsertPcs /\ UNCHANGED pasted
  BY DEF InsertBucket, InsertPcs
<1>4. /\ file \in Seq(Nat) /\ Len(file) # 0 /\ Len(file) \in Nat /\ Len(file) >= 4
      /\ NumBuckets(file) \in Nat \ {0} /\ Len(file) >= MapSize(NumBuckets(file)) /\ id \in Nat
  BY <1>1, <1>2, <1>3, WriterFacts
<1>5. HeapInv /\ StepInv(w) /\ MaxId <= NumBuckets(file)
  BY <1>4, Uncollided
<1>6. PICK e \in Nat : e = Len(file) /\ e = l.pos /\ id < NumBuckets(file)
  BY <1>1, <1>2, <1>3, <1>4, <1>5 DEF StepInv
<1>7. PICK n \in Nat : n = NumBuckets(file) /\ id \in 0..(n - 1) /\ Len(file) >= MapSize(n) /\ MaxId <= n
  BY <1>4, <1>5, <1>6
<1>8. BucketIndex(file, l.id) = id
  BY <1>2, <1>4, <1>6, IndexOwn
<1>9. CASE UNCHANGED file
  BY <1>9, SameFile
<1>10. CASE Bucket(file, id) = DBID_FREE /\ file' = Pwrite(file, BucketOffset(id), dbid_t(e))
  <2>1. /\ file' \in Seq(Nat) /\ Len(file') = Len(file)
        /\ \A k \in 1..4 : file'[k] = file[k]
        /\ \A k \in (MapSize(n) + 1)..Len(file) : file'[k] = file[k]
        /\ \A i \in 0..(n - 1) : i # id => Bucket(file', i) = Bucket(file, i)
        /\ Bucket(file', id) = dbid_t(e)
    BY <1>4, <1>7, <1>10, BucketSet
  <2>2. NumBuckets(file') = NumBuckets(file)
    BY <2>1 DEF NumBuckets
  <2>3. ~Own(id)
    BY <1>4, <1>10, OwnFacts
  <2>4. \A i \in DOMAIN pasted : i \in DOMAIN pasted' /\ pasted'[i] = pasted[i] /\ pasted[i] \in Seq(Nat)
    BY <1>3, DbAssumption DEF BasicInv, TypeOK
  <2>5. ~Own(id)'
    <3> SUFFICES ASSUME Own(id)' PROVE FALSE
      OBVIOUS
    <3>1. PICK p \in MapSize(NumBuckets(file'))..Len(file') : Bucket(file', id) = dbid_t(p) /\ Holds(p, id)'
      BY DEF Own
    <3>2. dbid_t(p) = dbid_t(e)
      BY <2>1, <3>1
    <3>3. p = e
      BY <3>2 DEF dbid_t
    <3>4. id \in DOMAIN pasted' /\ p + 5 + Len(pasted'[id]) <= Len(file')
      BY <3>1 DEF Holds
    <3>5. Len(pasted'[id]) \in Nat
      BY <1>3, <2>4, <3>4
    <3>6. PICK v \in Nat : e + 5 + v <= e
      <4>1. Len(file') = e
        BY <1>6, <2>1
      <4> QED
        BY <3>3, <3>4, <3>5, <4>1
    <3> QED
      BY <3>6
  <2>6. ASSUME NEW i \in 0..(MaxId - 1), i # id PROVE Own(i)' <=> Own(i)
    <3>1. i \in Nat /\ Bucket(file', i) = Bucket(file, i)
      BY <1>7, <1>10, <2>1, <2>6, DbAssumption
    <3>2. ASSUME Own(i) PROVE Own(i)'
      <4>1. i \in DOMAIN pasted
        BY <3>2 DEF Own, Holds
      <4> QED
        BY <1>4, <1>7, <2>1, <2>2, <2>4, <3>1, <3>2, <4>1, OwnKept
    <3>3. ASSUME Own(i)' PROVE Own(i)
      <4>1. Len(file') = e
        BY <1>6, <2>1
      <4>2. /\ Len(file') >= e /\ ~(Len(file') > e)
            /\ \A k \in (MapSize(NumBuckets(file)) + 1)..e : file'[k] = file[k]
        <5>1. Len(file') >= e /\ ~(Len(file') > e)
          BY <4>1
        <5>2. \A k \in (MapSize(n) + 1)..Len(file) : file'[k] = file[k]
          BY <2>1
        <5> QED
          BY <1>6, <1>7, <5>1, <5>2
      <4>3. \A j \in DOMAIN pasted' : pasted'[j] \in Seq(Nat)
        BY <1>3, <2>4
      <4> QED
        BY <1>4, <1>5, <1>6, <2>1, <2>2, <2>4, <3>1, <3>3, <4>2, <4>3, OwnBack
    <3> QED
      BY <3>2, <3>3
  <2>7. ASSUME NEW i \in 0..(MaxId - 1) PROVE Kept(i)' <=> Kept(i)
    BY <1>4, <2>1, <2>3, <2>5, <2>6 DEF Kept
  <2> QED
    BY <1>3, <2>7, SameStore
<1> QED
  BY <1>1, <1>2, <1>6, <1>8, <1>9, <1>10 DEF InsertBucket

(* The pwrite of the record is the Put. *)
LEMMA StoreInsertRecord ==
  ASSUME Roomy, BasicInv, PasteInv, RoomInv, StoreInv, StoreInv', NEW w \in Workers, InsertRecord(w)
  PROVE  StoredPastes' = StoredPastes \/ Store!Next
<1>1. PICK l : l = loc[w]
  OBVIOUS
<1>2. PICK id, val : id = l.id /\ val = l.val
  OBVIOUS
<1>3. pc[w] = "ins_record" /\ pc[w] \in InsertPcs /\ UNCHANGED pasted
  BY DEF InsertRecord, InsertPcs
<1>4. /\ file \in Seq(Nat) /\ Len(file) # 0 /\ Len(file) \in Nat /\ Len(file) >= 4
      /\ NumBuckets(file) \in Nat \ {0} /\ Len(file) >= MapSize(NumBuckets(file)) /\ id \in Nat
      /\ id \in DOMAIN pasted /\ val = pasted[id] /\ val \in Seq(Nat) /\ id < MetaId(file)
  BY <1>1, <1>2, <1>3, WriterFacts
<1>5. HeapInv /\ StepInv(w) /\ MaxId <= NumBuckets(file)
  BY <1>4, Uncollided
<1>6. PICK e \in Nat : /\ e = Len(file) /\ e = l.pos /\ id < NumBuckets(file)
                       /\ Bucket(file, id) = dbid_t(e)
  BY <1>1, <1>2, <1>3, <1>4, <1>5 DEF StepInv
<1>7. PICK n \in Nat : /\ n = NumBuckets(file) /\ id \in 0..(n - 1) /\ e >= MapSize(n) /\ MaxId <= n
                       /\ e >= 4
  BY <1>4, <1>5, <1>6
<1>8. CASE UNCHANGED file
  BY <1>8, SameFile
<1>9. CASE file' = Pwrite(file, e, Record(id, val))
  <2>1. /\ file' \in Seq(Nat) /\ Len(file') = e + 5 + Len(val)
        /\ (\A k \in 1..e : file'[k] = file[k])
        /\ Holds(e, id)'
    BY <1>3, <1>4, <1>6, <1>9, Appended
  <2>2. Len(val) \in Nat /\ Len(file') >= e /\ Len(file') # 0
    <3>1. PICK v \in Nat : v = Len(val)
      BY <1>4
    <3>2. PICK g : g = Len(file') /\ g = e + 5 + v
      BY <2>1, <3>1, Zenon
    <3>3. g >= e /\ g # 0
      BY <3>2
    <3> QED
      BY <3>1, <3>2, <3>3
  <2>3. NumBuckets(file') = NumBuckets(file)
    BY <1>7, <2>1 DEF NumBuckets
  <2>4. \A i \in 0..(n - 1) : Bucket(file', i) = Bucket(file, i)
    <3> SUFFICES ASSUME NEW i \in 0..(n - 1) PROVE Bucket(file', i) = Bucket(file, i)
      OBVIOUS
    <3>1. BucketOffset(i) + 1 \in 1..e /\ BucketOffset(i) + 2 \in 1..e
      BY <1>7 DEF BucketOffset, MapSize
    <3> QED
      BY <2>1, <3>1 DEF Bucket, Load
  <2>5. \A k \in (MapSize(n) + 1)..e : file'[k] = file[k]
    <3> SUFFICES ASSUME NEW k \in (MapSize(n) + 1)..e PROVE file'[k] = file[k]
      OBVIOUS
    <3>1. k \in 1..e
      BY DEF MapSize
    <3> QED
      BY <2>1, <3>1
  <2>6. \A i \in DOMAIN pasted : i \in DOMAIN pasted' /\ pasted'[i] = pasted[i] /\ pasted[i] \in Seq(Nat)
    BY <1>3, DbAssumption DEF BasicInv, TypeOK
  <2>7. Kept(id)'
    <3>1. e \in MapSize(NumBuckets(file'))..Len(file')
      BY <1>7, <2>2, <2>3 DEF MapSize
    <3>2. Bucket(file', id) = dbid_t(e) /\ id < NumBuckets(file')
      BY <1>6, <1>7, <2>3, <2>4
    <3> QED
      BY <2>1, <2>2, <3>1, <3>2 DEF Kept, Own
  <2>8. ~Kept(id)
    BY <1>4, <1>6, OwnInside DEF Kept
  <2>9. ASSUME NEW i \in 0..(MaxId - 1), i # id PROVE Own(i)' <=> Own(i)
    <3>1. i \in Nat /\ Bucket(file', i) = Bucket(file, i)
      BY <1>7, <2>4, DbAssumption
    <3>2. ASSUME Own(i) PROVE Own(i)'
      <4>1. i \in DOMAIN pasted
        BY <3>2 DEF Own, Holds
      <4>2. Len(file') >= Len(file) /\ \A k \in (MapSize(NumBuckets(file)) + 1)..Len(file) : file'[k] = file[k]
        BY <1>6, <1>7, <2>2, <2>5
      <4> QED
        BY <1>4, <2>1, <2>3, <2>6, <3>1, <3>2, <4>1, <4>2, OwnKept
    <3>3. ASSUME Own(i)' PROVE Own(i)
      <4>1. ~Holds(e, i)'
        BY <2>1, <2>9 DEF Holds, dbid_t
      <4>2. \A j \in DOMAIN pasted' : pasted'[j] \in Seq(Nat)
        BY <1>3, <2>6
      <4>3. \A k \in (MapSize(NumBuckets(file)) + 1)..e : file'[k] = file[k]
        BY <1>7, <2>5
      <4> QED
        BY <1>4, <1>5, <1>6, <2>1, <2>2, <2>3, <2>6, <3>1, <3>3, <4>1, <4>2, <4>3, OwnBack
    <3> QED
      BY <3>2, <3>3
  <2>10. id \in 0..(MaxId - 1) /\ val \in Values
    <3>1. MetaId(file) \in 0..MaxId
      BY <1>4 DEF RoomInv
    <3>2. id < MaxId
      BY <1>4, <3>1, DbAssumption
    <3> QED
      BY <1>4, <3>2, DbAssumption DEF BasicInv, TypeOK
  <2>11. PICK S, T : S = {i \in 0..(MaxId - 1) : Stored(i)} /\ T = {i \in 0..(MaxId - 1) : Stored(i)'}
    OBVIOUS
  <2>12. \A i \in 0..(MaxId - 1) : i # id => (Stored(i)' <=> Stored(i))
    BY <1>4, <2>2, <2>9 DEF Kept, StoreInv
  <2>13. Stored(id)' /\ ~Stored(id)
    BY <2>7, <2>8, <2>10 DEF StoreInv
  <2>14. T = S \cup {id} /\ id \notin S
    BY <2>10, <2>11, <2>12, <2>13
  <2>15. \A i \in S : StoredValue(i)' = StoredValue(i)
    <3> SUFFICES ASSUME NEW i \in S PROVE StoredValue(i)' = StoredValue(i)
      OBVIOUS
    <3>1. i \in 0..(MaxId - 1) /\ i \in T /\ Kept(i) /\ Kept(i)'
      BY <2>11, <2>14 DEF StoreInv
    <3> QED
      BY <1>3, <3>1 DEF StoreInv
  <2>16. StoredValue(id)' = val
    BY <1>3, <1>4, <2>7, <2>10 DEF StoreInv
  <2>17. StoredPastes = [i \in S |-> StoredValue(i)] /\ StoredPastes' = [i \in T |-> StoredValue(i)']
    BY <2>11 DEF StoredPastes
  <2>18. StoredPastes' = [i \in S \cup {id} |-> IF i = id THEN val ELSE StoredPastes[i]]
    BY <2>14, <2>15, <2>16, <2>17
  <2>19. Store!Put(id, val)
    BY <2>14, <2>17, <2>18 DEF Store!Put
  <2> QED
    BY <2>10, <2>19 DEF Store!Next
<1> QED
  BY <1>1, <1>2, <1>6, <1>8, <1>9 DEF InsertRecord, WriteRecord, Roomy

(* The store of no file is empty. *)
LEMMA StoreInit == Init => Store!Init
<1> SUFFICES ASSUME Init PROVE Store!Init
  OBVIOUS
<1>1. Len(file) = 0
  BY DEF Init
<1>2. {i \in 0..(MaxId - 1) : Stored(i)} = {}
  BY <1>1 DEF Stored
<1>3. StoredPastes = [i \in {} |-> {}]
  BY <1>2 DEF StoredPastes
<1> QED
  BY <1>3 DEF Store!Init

(* Every step is a Put or leaves the store alone. *)
LEMMA StoreStep ==
  ASSUME Roomy, BasicInv, PasteInv, RoomInv, StoreInv, BasicInv', StoreInv', [Next]_vars
  PROVE  [Store!Next]_StoredPastes
<1>1. CASE UNCHANGED file
  BY <1>1, SameFile
<1>2. ASSUME phase \in {"created", "sized", "meta"}, UNCHANGED pasted PROVE StoredPastes' = StoredPastes
  BY <1>2, NoPastes DEF BasicInv, FileInv
<1>3. CASE Truncate \/ InitMeta \/ InitBuckets \/ \E n \in 1..params : KillInMemset(n)
  <2>1. phase \in {"created", "sized", "meta"} /\ UNCHANGED pasted
    BY <1>3 DEF Truncate, InitMeta, InitBuckets, KillInMemset, Die
  <2> QED
    BY <1>2, <2>1
<1>4. ASSUME NEW w \in Workers, NEW val \in Values, InsertBegin(w, val) PROVE StoredPastes' = StoredPastes
  BY <1>4, StoreInsertBegin
<1>5. ASSUME NEW w \in Workers, DivideByZero(w), file' = BumpId(file) PROVE StoredPastes' = StoredPastes
  <2>1. phase = "up" /\ NumBuckets(file) = 0
    BY <1>5 DEF DivideByZero
  <2>2. Len(file) # 0
    BY <2>1 DEF BasicInv, FileInv
  <2>3. file \in Seq(Nat) /\ Len(file) \in Nat /\ Len(file) >= 4
    BY <2>2, FileCells DEF BasicInv
  <2>4. \A k \in 3..Len(file) : file'[k] = file[k]
    BY <1>5, <2>3, BumpIdFacts
  <2>5. NumBuckets(file') = 0
    BY <2>1, <2>3, <2>4 DEF NumBuckets
  <2>6. \A i \in 0..(MaxId - 1) : ~(i < 0)
    BY DbAssumption
  <2>7. \A i \in 0..(MaxId - 1) : ~Kept(i) /\ ~Kept(i)'
    BY <2>1, <2>5, <2>6 DEF Kept, Own
  <2> QED
    BY <2>7, SameStore
<1>6. ASSUME NEW w \in Workers, InsertLink(w) PROVE FALSE
  <2>1. pc[w] = "ins_link" /\ pc[w] \in InsertPcs
    BY <1>6 DEF InsertLink, InsertPcs
  <2>2. Len(file) # 0 /\ NumBuckets(file) # 0
    BY <2>1, WriterFacts
  <2>3. StepInv(w)
    BY <2>2, Uncollided
  <2> QED
    BY <2>1, <2>3 DEF StepInv
<1>7. ASSUME NEW w \in Workers, Insert(w) PROVE [Store!Next]_StoredPastes
  <2>1. CASE InsertBucket(w)
    BY <2>1, StoreInsertBucket
  <2>2. CASE InsertRecord(w)
    BY <2>2, StoreInsertRecord
  <2>3. CASE InsertWalk(w) \/ InsertOut(w)
    BY <1>1, <2>3 DEF InsertWalk, InsertOut
  <2> QED
    BY <1>6, <1>7, <2>1, <2>2, <2>3 DEF Insert
<1>8. CASE \/ UNCHANGED vars \/ Kill
           \/ \E n \in BucketParams : CreateFile(n) \/ OpenFile(n)
           \/ \E w \in Workers : Get(w) \/ \E id \in 0..MaxId : GetBegin(w, id)
  BY <1>1, <1>8 DEF vars, Kill, CreateFile, OpenFile, Get, GetBegin, GetBucket, GetWalk, GetValue, GetOut
<1>9. ASSUME NEW w \in Workers, DivideByZero(w) PROVE [Store!Next]_StoredPastes
  BY <1>1, <1>5, <1>9 DEF DivideByZero
<1> QED
  BY <1>3, <1>4, <1>7, <1>8, <1>9 DEF Next

(* With a bucket for every id and no write cut short, the database is an immutable store:  *)
(* the pwrite of a record puts a paste under an id that has none, and no other step of     *)
(* db_insert, db_get or open_db, no failure, no kill and no restart changes what is stored. *)
THEOREM Implementation ==
  ASSUME \A n \in BucketParams : MaxId <= n, "short" \notin Faults
  PROVE  Spec => StoreSpec
<1>1. Roomy
  BY DEF Roomy
<1>2. Init => RoomInv
  BY DEF Init, RoomInv
<1>3. Spec => []RoomInv
  BY <1>2, RoomStep, BasicInvariance, PasteInvariance, PTL DEF Spec
<1>4. BasicInv /\ PasteInv /\ RoomInv => StoreInv
  BY <1>1, StoreIs
<1>5. Spec => []StoreInv
  BY <1>3, <1>4, BasicInvariance, PasteInvariance, PTL
<1>6. BasicInv /\ PasteInv /\ RoomInv /\ StoreInv /\ BasicInv' /\ StoreInv' /\ [Next]_vars
        => [Store!Next]_StoredPastes
  BY <1>1, StoreStep
<1>7. Spec => Store!Init /\ [][Store!Next]_StoredPastes
  BY <1>3, <1>5, <1>6, StoreInit, BasicInvariance, PasteInvariance, PTL DEF Spec
<1> QED
  BY <1>7 DEF StoreSpec, Store!Spec
=============================================================================
